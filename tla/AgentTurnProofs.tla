-------------------------- MODULE AgentTurnProofs --------------------------
(* For every configuration of a turn: the budgets hold over the whole turn, *)
(* an aborted turn starts nothing, no turn goes on for ever, every request  *)
(* is one a provider accepts, every exit hands the work over, and a stall   *)
(* is one.                                                                  *)
EXTENDS AgentTurn, FiniteSetTheorems, TLAPS

CallRecords == [id : Nat, act : Acts]
Pcs == {"top", "compacting", "asking", "tools", "running", "ended"}

(* Calls counted and calls still to execute fit in the budget together, so  *)
(* no slice of a later reply can exceed it; a request is one of the two of  *)
(* its iteration; a started tool is counted or is the one running.          *)
Counted ==
  /\ total \in Nat /\ iteration \in Nat /\ requests \in Nat /\ turnNo \in Nat
  /\ fresh \in Nat
  /\ pc \in Pcs
  /\ batch \in Seq(CallRecords)
  /\ iteration <= MaxIterations
  /\ total + Len(batch) <= MaxToolCalls
  /\ (pc = "running" => batch # <<>>)

RequestsCounted ==
  /\ requests <= 2 * iteration
  /\ (pc = "compacting" => requests + 1 <= 2 * iteration)
  /\ (pc = "compacting" /\ ~retried => requests + 2 <= 2 * iteration)
  /\ (pc = "asking" /\ ~retried => requests + 1 <= 2 * iteration)

RunsCounted ==
  /\ IsFiniteSet(ran)
  /\ \/ Cardinality(ran) <= total
     \/ /\ pc \in {"running", "ended"} /\ batch # <<>>   \* the head of the batch
        /\ Cardinality(ran) <= total + 1

Budget == Counted /\ RequestsCounted /\ RunsCounted

USE TurnAssumption

(* Every step keeps the batch a sequence of calls that fits in the budget.  *)
LEMMA NoCalls == <<>> \in Seq(CallRecords) /\ Len(<<>>) = 0
  OBVIOUS

LEMMA CountedInit == Init => Counted
<1> SUFFICES ASSUME Init PROVE Counted
  OBVIOUS
<1>1. batch \in Seq(CallRecords) /\ Len(batch) = 0
  BY NoCalls DEF Init
<1> QED
  BY <1>1 DEF Init, Counted, Pcs

(* Taking the first call off a batch.                                       *)
LEMMA TakeCall ==
  ASSUME NEW s \in Seq(CallRecords), s # <<>>
  PROVE  /\ Head(s) \in CallRecords
         /\ Tail(s) \in Seq(CallRecords) /\ Len(Tail(s)) = Len(s) - 1
  OBVIOUS

(* What a tool reply leaves to execute.                                     *)
LEMMA Sliced ==
  ASSUME Counted, ToolReply
  PROVE  /\ batch' \in Seq(CallRecords)
         /\ total + Len(batch') <= MaxToolCalls
         /\ fresh' \in Nat
<1>1. PICK n \in 1..MaxBatch : \E acts \in [1..n -> Acts], limited \in BOOLEAN :
        LET all == [i \in 1..n |-> [id |-> fresh + i - 1, act |-> acts[i]]]
            run == IF Room < n THEN Room ELSE n
        IN batch' = SubSeq(all, 1, run) /\ fresh' = fresh + n
  BY DEF ToolReply
<1>2. PICK acts \in [1..n -> Acts] :
        /\ batch' = SubSeq([i \in 1..n |-> [id |-> fresh + i - 1, act |-> acts[i]]],
                           1, IF Room < n THEN Room ELSE n)
        /\ fresh' = fresh + n
  BY <1>1
<1> DEFINE all == [i \in 1..n |-> [id |-> fresh + i - 1, act |-> acts[i]]]
           run == IF Room < n THEN Room ELSE n
<1>3. n \in Nat /\ MaxBatch \in Nat /\ fresh \in Nat /\ total \in Nat
  BY DEF Counted
<1>4. \A i \in 1..n : fresh + i - 1 \in Nat /\ acts[i] \in Acts
  BY <1>3
<1>5. \A i \in 1..n : [id |-> fresh + i - 1, act |-> acts[i]] \in CallRecords
  BY <1>4 DEF CallRecords
<1>6. all \in Seq(CallRecords) /\ Len(all) = n
  BY <1>3, <1>5
<1>7. Room \in Nat /\ total + Room <= MaxToolCalls
  BY <1>3 DEF Room, Counted
<1>8. run \in 0..n /\ total + run <= MaxToolCalls
  BY <1>3, <1>7
<1> HIDE DEF all, run
<1>9. SubSeq(all, 1, run) \in Seq(CallRecords) /\ Len(SubSeq(all, 1, run)) = run
  BY <1>6, <1>8
<1>10. batch' = SubSeq(all, 1, run) /\ fresh' = fresh + n
  BY <1>2 DEF all, run
<1>11. fresh' \in Nat
  BY <1>3, <1>10
<1> QED
  BY <1>3, <1>8, <1>9, <1>10, <1>11

LEMMA CountedStep == Counted /\ [Next]_vars => Counted'
<1> SUFFICES ASSUME Counted, [Next]_vars PROVE Counted'
  OBVIOUS
<1> USE DEF Counted, Pcs
<1>1. CASE ToolReply
  BY <1>1, Sliced DEF ToolReply, history
<1>2. CASE CutCall \/ MalformedCall \/ Defer \/ ToolFails
           \/ (\E nonzero \in BOOLEAN : ToolReturns(nonzero))
  <2>1. /\ batch # <<>> /\ batch' = Tail(batch) /\ total' = total + 1 /\ pc' = "tools"
        /\ UNCHANGED <<iteration, requests, turnNo, retried, fresh>>
    BY <1>2 DEF CutCall, MalformedCall, Defer, ToolFails, ToolReturns, AtCall, NextCall, history
  <2> QED
    BY <2>1, TakeCall
<1>3. CASE RunTool
  BY <1>3 DEF RunTool, AtCall, counters, calls
<1>4. CASE \E tooLong \in BOOLEAN : Iterate(tooLong)
  <2>1. PICK tooLong \in BOOLEAN : Iterate(tooLong)
    BY <1>4
  <2>2. UNCHANGED <<batch, total, turnNo, fresh>> /\ pc' \in {"compacting", "asking"}
    BY <2>1 DEF Iterate, calls
  <2>3. requests' \in Nat /\ iteration' = iteration + 1 /\ iteration < MaxIterations

    BY <2>1 DEF Iterate
  <2> QED
    BY <2>2, <2>3
<1>5. CASE CompactTurn
  BY <1>5 DEF CompactTurn, counters, calls
<1>6. CASE PendingReply
  BY <1>6 DEF PendingReply, calls, End
<1>7. CASE Settle
  <2>1. pc' \in Pcs \ {"running"}
    BY <1>7 DEF Settle, End
  <2> QED
    BY <1>7, <2>1 DEF Settle, calls
<1>8. CASE NextTurn \/ NextTurnCompacted
  <2>1. PICK past : Continue(past)
    BY <1>8 DEF NextTurn, NextTurnCompacted
  <2> QED
    BY <2>1, NoCalls DEF Continue
<1>9. CASE LimitReached \/ StopAtTop \/ CompactAborted \/ RequestFails \/ FinalReply
           \/ StopAtCall \/ ToolAborted
  <2>1. pc' = "ended"
    BY <1>9 DEF LimitReached, StopAtTop, CompactAborted, RequestFails, FinalReply,
                StopAtCall, ToolAborted, End
  <2>2. UNCHANGED <<iteration, total, retried, batch, fresh, turnNo, requests>>
    BY <1>9 DEF LimitReached, StopAtTop, CompactAborted, RequestFails, FinalReply,
                StopAtCall, ToolAborted, counters, calls
  <2> QED
    BY <2>1, <2>2
<1>10. CASE Overflow
  BY <1>10 DEF Overflow, calls
<1>11. CASE Abort
  BY <1>11 DEF Abort, counters, calls
<1>12. CASE UNCHANGED vars
  BY <1>12 DEF vars, counters, calls
<1> QED
  BY <1>1, <1>2, <1>3, <1>4, <1>5, <1>6, <1>7, <1>8, <1>9, <1>10, <1>11, <1>12 DEF Next, Step

-----------------------------------------------------------------------------
LEMMA RequestsStep == Counted /\ RequestsCounted /\ [Next]_vars => RequestsCounted'
<1> SUFFICES ASSUME Counted, RequestsCounted, [Next]_vars PROVE RequestsCounted'
  OBVIOUS
<1> USE DEF RequestsCounted, Counted, Pcs
<1>1. CASE \E tooLong \in BOOLEAN : Iterate(tooLong)
  <2>1. PICK tooLong \in BOOLEAN : Iterate(tooLong)
    BY <1>1
  <2>2. iteration' = iteration + 1
    BY <2>1 DEF Iterate
  <2>3. CASE tooLong
    BY <2>1, <2>2, <2>3 DEF Iterate
  <2>4. CASE ~tooLong
    BY <2>1, <2>2, <2>4 DEF Iterate
  <2> QED
    BY <2>3, <2>4
<1>2. CASE CompactTurn
  BY <1>2 DEF CompactTurn, counters
<1>3. CASE Overflow
  BY <1>3 DEF Overflow
<1>4. CASE NextTurn \/ NextTurnCompacted
  <2>1. PICK past : Continue(past)
    BY <1>4 DEF NextTurn, NextTurnCompacted
  <2> QED
    BY <2>1 DEF Continue
<1>5. CASE Abort \/ UNCHANGED vars
  BY <1>5 DEF Abort, counters, vars
<1>6. CASE LimitReached \/ StopAtTop \/ CompactAborted \/ RequestFails \/ FinalReply
           \/ StopAtCall \/ ToolAborted \/ PendingReply \/ ToolReply \/ CutCall
           \/ MalformedCall \/ Defer \/ RunTool \/ ToolFails \/ Settle
           \/ (\E nonzero \in BOOLEAN : ToolReturns(nonzero))
  <2>1. UNCHANGED <<iteration, requests, retried>>
    BY <1>6 DEF LimitReached, StopAtTop, CompactAborted, RequestFails, FinalReply,
                StopAtCall, ToolAborted, PendingReply, ToolReply, CutCall, MalformedCall,
                Defer, RunTool, ToolFails, Settle, ToolReturns, counters
  <2>2. pc' \in Pcs \ {"compacting", "asking"}
    BY <1>6 DEF LimitReached, StopAtTop, CompactAborted, RequestFails, FinalReply,
                StopAtCall, ToolAborted, PendingReply, ToolReply, CutCall, MalformedCall,
                Defer, RunTool, ToolFails, Settle, ToolReturns, End, NextCall
  <2> QED
    BY <2>1, <2>2
<1> QED
  BY <1>1, <1>2, <1>3, <1>4, <1>5, <1>6 DEF Next, Step

LEMMA RunsStep == Counted /\ RunsCounted /\ [Next]_vars => RunsCounted'
<1> SUFFICES ASSUME Counted, RunsCounted, [Next]_vars PROVE RunsCounted'
  OBVIOUS
<1> USE DEF RunsCounted
<1>0. Cardinality(ran) \in Nat /\ total \in Nat
  BY FS_CardinalityType DEF Counted
<1>1. CASE RunTool
  <2>1. /\ ran' = ran \cup {Call.id} /\ total' = total /\ batch' = batch
        /\ pc = "tools" /\ pc' = "running" /\ batch # <<>>
    BY <1>1 DEF RunTool, AtCall, counters, calls
  <2>2. Cardinality(ran \cup {Call.id}) \in {Cardinality(ran), Cardinality(ran) + 1}
    BY FS_AddElement
  <2>3. IsFiniteSet(ran \cup {Call.id})
    BY FS_AddElement
  <2>4. Cardinality(ran) <= total
    BY <2>1
  <2> QED
    BY <1>0, <2>1, <2>2, <2>3, <2>4
<1>2. CASE CutCall \/ MalformedCall \/ Defer \/ ToolFails
           \/ (\E nonzero \in BOOLEAN : ToolReturns(nonzero))
  <2>1. ran' = ran /\ total' = total + 1
    BY <1>2 DEF CutCall, MalformedCall, Defer, ToolFails, ToolReturns, NextCall, history
  <2>2. Cardinality(ran) <= total + 1
    BY <1>0
  <2> QED
    BY <1>0, <2>1, <2>2
<1>3. CASE NextTurn \/ NextTurnCompacted
  <2>1. PICK past : Continue(past)
    BY <1>3 DEF NextTurn, NextTurnCompacted
  <2>2. ran' = {} /\ total' = 0 /\ pc' = "top"
    BY <2>1 DEF Continue
  <2> QED
    BY <2>2, FS_EmptySet
<1>4. CASE Abort \/ UNCHANGED vars
  BY <1>4 DEF Abort, counters, calls, history, vars
<1>5. CASE StopAtTop \/ LimitReached \/ (\E tooLong \in BOOLEAN : Iterate(tooLong))
           \/ CompactTurn \/ CompactAborted \/ Overflow \/ RequestFails \/ FinalReply
           \/ PendingReply \/ ToolReply \/ StopAtCall \/ Settle
  <2>1. ran' = ran /\ total' = total
    BY <1>5 DEF StopAtTop, LimitReached, Iterate, CompactTurn, CompactAborted, Overflow,
                RequestFails, FinalReply, PendingReply, ToolReply, StopAtCall, Settle,
                counters, history
  <2>2. pc \notin {"running", "ended"}
    BY <1>5 DEF StopAtTop, LimitReached, Iterate, CompactTurn, CompactAborted, Overflow,
                RequestFails, FinalReply, PendingReply, ToolReply, StopAtCall, Settle, AtCall
  <2> QED
    BY <1>0, <2>1, <2>2
<1>6. CASE ToolAborted
  BY <1>6 DEF ToolAborted, End, counters, calls, history
<1> QED
  BY <1>1, <1>2, <1>3, <1>4, <1>5, <1>6 DEF Next, Step

-----------------------------------------------------------------------------
(* Over any number of turns of any configuration: tools started, calls      *)
(* counted, iterations and requests stay within the limits of the turn.     *)
THEOREM BudgetCorrect == Spec => []BudgetHolds
<1>1. Init => Budget
  <2> SUFFICES ASSUME Init PROVE RequestsCounted /\ RunsCounted
    BY CountedInit DEF Budget
  <2>1. iteration = 0 /\ requests = 0 /\ pc = "top" /\ total = 0 /\ ran = {}
    BY DEF Init
  <2> QED
    BY <2>1, FS_EmptySet DEF RequestsCounted, RunsCounted
<1>2. Budget /\ [Next]_vars => Budget'
  BY CountedStep, RequestsStep, RunsStep DEF Budget
<1>3. Budget => BudgetHolds
  <2> SUFFICES ASSUME Budget PROVE BudgetHolds
    OBVIOUS
  <2>1. total \in Nat /\ Len(batch) \in Nat /\ (batch # <<>> => Len(batch) > 0)
    BY DEF Budget, Counted
  <2>2. Cardinality(ran) \in Nat
    BY FS_CardinalityType DEF Budget, RunsCounted
  <2> QED
    BY <2>1, <2>2 DEF Budget, Counted, RequestsCounted, RunsCounted, BudgetHolds
<1> QED
  BY <1>1, <1>2, <1>3, PTL DEF Spec

(* An aborted turn starts no tool and no request, whichever await the       *)
(* signal found it in.                                                      *)
THEOREM AbortIsFinal == Spec => AbortStopsWork
<1>1. Counted /\ [Next]_vars
        => [aborted /\ turnNo' = turnNo => requests' = requests /\ ran' = ran]_vars
  <2> SUFFICES ASSUME Counted, Next, aborted, turnNo' = turnNo
               PROVE  requests' = requests /\ ran' = ran
    OBVIOUS
  <2>1. turnNo \in Nat
    BY DEF Counted
  <2>2. ~NextTurn /\ ~NextTurnCompacted
    BY <2>1 DEF NextTurn, NextTurnCompacted, Continue
  <2>3. ~CompactTurn /\ ~RunTool /\ ~(\E tooLong \in BOOLEAN : Iterate(tooLong))
    BY DEF CompactTurn, RunTool, Iterate
  <2>4. CASE Abort \/ UNCHANGED vars
    BY <2>4 DEF Abort, history, vars
  <2>5. CASE Step
    BY <2>3, <2>5 DEF Step, StopAtTop, LimitReached, CompactAborted, Overflow,
       RequestFails, FinalReply, PendingReply, ToolReply, StopAtCall, CutCall,
       MalformedCall, Defer, ToolReturns, ToolFails, ToolAborted, Settle, history
  <2> QED
    BY <2>2, <2>4, <2>5 DEF Next
<1>2. Init => Counted
  BY CountedInit
<1>3. Counted /\ [Next]_vars => Counted'
  BY CountedStep
<1> QED
  BY <1>1, <1>2, <1>3, PTL DEF Spec, AbortStopsWork

(* A batch never exceeds what one reply may bring.                          *)
LEMMA BatchBound ==
  ASSUME Counted, ToolReply
  PROVE  Len(batch') <= MaxBatch
<1>0. PICK n \in 1..MaxBatch : \E acts \in [1..n -> Acts] :
        batch' = SubSeq([i \in 1..n |-> [id |-> fresh + i - 1, act |-> acts[i]]],
                        1, IF Room < n THEN Room ELSE n)
  BY DEF ToolReply
<1>1. PICK acts \in [1..n -> Acts] :
        batch' = SubSeq([i \in 1..n |-> [id |-> fresh + i - 1, act |-> acts[i]]],
                        1, IF Room < n THEN Room ELSE n)
  BY <1>0
<1> DEFINE all == [i \in 1..n |-> [id |-> fresh + i - 1, act |-> acts[i]]]
           run == IF Room < n THEN Room ELSE n
<1>2. Room \in Nat /\ n \in Nat /\ MaxBatch \in Nat /\ n <= MaxBatch
  BY DEF Room, Counted
<1>3. run \in 0..n
  BY <1>2
<1>4. \A i \in 1..n : [id |-> fresh + i - 1, act |-> acts[i]] \in CallRecords
  BY <1>2 DEF Counted, CallRecords
<1>5. all \in Seq(CallRecords) /\ Len(all) = n
  BY <1>2, <1>4
<1> HIDE DEF all, run
<1>6. Len(SubSeq(all, 1, run)) = run
  BY <1>2, <1>3, <1>5
<1>7. batch' = SubSeq(all, 1, run)
  BY <1>1 DEF all, run
<1> QED
  BY <1>2, <1>3, <1>6, <1>7

LEMMA PhaseType ==
  ASSUME Counted
  PROVE  Phase \in Nat /\ (pc # "ended" => Phase > 0)
<1>1. Len(batch) \in Nat /\ MaxBatch \in Nat
  BY DEF Counted
<1>2. CASE pc \in {"ended", "top"}
  BY <1>2 DEF Phase
<1>3. CASE pc \in {"tools", "running"}
  BY <1>1, <1>3 DEF Phase
<1>4. CASE pc = "asking"
  <2>1. Phase \in {2 * MaxBatch + 3, 2 * MaxBatch + 5}
    BY <1>4 DEF Phase
  <2> QED
    BY <1>1, <2>1
<1>5. CASE pc = "compacting"
  <2>1. Phase \in {2 * MaxBatch + 4, 2 * MaxBatch + 6}
    BY <1>5 DEF Phase
  <2> QED
    BY <1>1, <2>1
<1> QED
  BY <1>2, <1>3, <1>4, <1>5 DEF Counted, Pcs

(* Within an iteration the phase only goes down.                            *)
LEMMA PhaseFalls ==
  ASSUME Counted, Counted', Step, ~(\E tooLong \in BOOLEAN : Iterate(tooLong))
  PROVE  iteration' = iteration /\ Phase' < Phase
<1>1. Len(batch) \in Nat /\ Len(batch') \in Nat /\ MaxBatch \in Nat
  BY DEF Counted
<1>2. CASE LimitReached \/ StopAtTop \/ CompactAborted \/ RequestFails \/ FinalReply
           \/ StopAtCall \/ ToolAborted
  <2>1. pc' = "ended" /\ pc # "ended" /\ iteration' = iteration
    BY <1>2 DEF LimitReached, StopAtTop, CompactAborted, RequestFails, FinalReply,
                StopAtCall, ToolAborted, End, AtCall, counters
  <2>2. Phase' = 0
    BY <2>1 DEF Phase
  <2> QED
    BY <2>1, <2>2, PhaseType
<1>3. CASE CutCall \/ MalformedCall \/ Defer \/ ToolFails
           \/ (\E nonzero \in BOOLEAN : ToolReturns(nonzero))
  <2>1. /\ batch # <<>> /\ batch' = Tail(batch) /\ iteration' = iteration
        /\ pc \in {"tools", "running"} /\ pc' = "tools"
    BY <1>3 DEF CutCall, MalformedCall, Defer, ToolFails, ToolReturns, AtCall, NextCall, Counted
  <2>2. Len(batch') = Len(batch) - 1
    BY <2>1, TakeCall DEF Counted
  <2> QED
    BY <1>1, <2>1, <2>2 DEF Phase
<1>4. CASE RunTool
  <2>1. pc = "tools" /\ pc' = "running" /\ UNCHANGED <<batch, iteration>>
    BY <1>4 DEF RunTool, AtCall, counters, calls
  <2> QED
    BY <1>1, <2>1 DEF Phase
<1>5. CASE ToolReply
  <2>1. pc = "asking" /\ pc' = "tools" /\ iteration' = iteration
    BY <1>5 DEF ToolReply
  <2>2. Len(batch') <= MaxBatch
    BY <1>5, BatchBound
  <2> QED
    BY <1>1, <2>1, <2>2 DEF Phase
<1>6. CASE Overflow
  <2>1. pc = "asking" /\ ~retried /\ pc' = "compacting" /\ retried' /\ iteration' = iteration
    BY <1>6 DEF Overflow
  <2> QED
    BY <1>1, <2>1 DEF Phase
<1>7. CASE CompactTurn
  <2>1. pc = "compacting" /\ pc' = "asking" /\ UNCHANGED <<iteration, retried>>
    BY <1>7 DEF CompactTurn, counters
  <2> QED
    BY <1>1, <2>1 DEF Phase
<1>8. CASE PendingReply
  <2>1. pc = "asking" /\ pc' \in {"ended", "top"} /\ iteration' = iteration
    BY <1>8 DEF PendingReply, End
  <2>2. Phase' \in {0, 1}
    BY <2>1 DEF Phase
  <2>3. Phase = 2 * MaxBatch + (IF retried THEN 3 ELSE 5)
    BY <2>1 DEF Phase
  <2>4. MaxBatch \in Nat
    OBVIOUS
  <2>5. Phase \in Nat /\ Phase >= 3
    BY <2>3, <2>4
  <2> QED
    BY <2>1, <2>2, <2>5
<1>9. CASE Settle
  <2>1. pc = "tools" /\ pc' \in {"ended", "top"} /\ iteration' = iteration
    BY <1>9 DEF Settle, End
  <2> QED
    BY <1>1, <2>1 DEF Phase
<1> QED
  BY <1>2, <1>3, <1>4, <1>5, <1>6, <1>7, <1>8, <1>9 DEF Step

(* A new iteration costs more than any phase of it gives back.              *)
LEMMA IterationCosts ==
  ASSUME Counted, NEW tooLong \in BOOLEAN, Iterate(tooLong)
  PROVE  Variant' < Variant
<1> DEFINE W == 2 * MaxBatch + 6
           left == MaxIterations - iteration
<1>1. W \in Nat /\ left \in Nat /\ left # 0
  BY DEF Iterate, Counted
<1>2. Phase = 1 /\ Phase' \in {W, W - 1}
  BY DEF Iterate, Phase
<1>3. MaxIterations - iteration' = left - 1
  BY DEF Iterate, Counted
<1>4. Variant = left * W + 1 /\ Variant' = (left - 1) * W + Phase'
  BY <1>2, <1>3 DEF Variant
<1> DEFINE all == left * W
<1> HIDE DEF W, left
<1>5. (left - 1) * W = all - W /\ all \in Nat
  BY <1>1
<1> HIDE DEF all
<1>6. Variant = all + 1
  BY <1>4 DEF all
<1>7. Variant' = (all - W) + Phase'
  BY <1>4, <1>5
<1>8. \A a \in Nat, w \in Nat : \A p \in {w, w - 1} : (a - w) + p < a + 1
  OBVIOUS
<1>9. (all - W) + Phase' < all + 1
  BY <1>1, <1>2, <1>5, <1>8
<1> QED
  BY <1>6, <1>7, <1>9

(* Every step of a turn, the abort apart, brings it nearer to its end.      *)
THEOREM TurnIsBounded == Spec => TurnAdvances
<1>1. Counted /\ Counted' /\ [Next]_vars
        => [turnNo' = turnNo /\ aborted' = aborted => Variant' < Variant]_vars
  <2> SUFFICES ASSUME Counted, Counted', Next, ~UNCHANGED vars,
                      turnNo' = turnNo, aborted' = aborted
               PROVE  Variant' < Variant
    OBVIOUS
  <2>1. turnNo \in Nat
    BY DEF Counted
  <2>2. ~NextTurn /\ ~NextTurnCompacted
    BY <2>1 DEF NextTurn, NextTurnCompacted, Continue
  <2>3. ~Abort
    BY DEF Abort
  <2>4. Step
    BY <2>2, <2>3 DEF Next
  <2>5. CASE \E tooLong \in BOOLEAN : Iterate(tooLong)
    BY <2>5, IterationCosts
  <2>6. CASE ~(\E tooLong \in BOOLEAN : Iterate(tooLong))
    <3>1. iteration' = iteration /\ Phase' < Phase
      BY <2>4, <2>6, PhaseFalls
    <3>2. Len(batch) \in Nat /\ Len(batch') \in Nat /\ MaxBatch \in Nat
      BY DEF Counted
    <3>3. Phase \in Nat /\ Phase' \in Nat
      <4>1. Phase \in Nat
        BY PhaseType
      <4>2. (Counted => Phase \in Nat)'
        BY PhaseType, PTL
      <4> QED
        BY <4>1, <4>2
    <3>4. (MaxIterations - iteration) * (2 * MaxBatch + 6) \in Int
      BY <3>2 DEF Counted
    <3> QED
      BY <3>1, <3>3, <3>4 DEF Variant
  <2> QED
    BY <2>5, <2>6
<1>2. Init => Counted
  BY CountedInit
<1>3. Counted /\ [Next]_vars => Counted'
  BY CountedStep
<1> QED
  BY <1>1, <1>2, <1>3, PTL DEF Spec, TurnAdvances

-----------------------------------------------------------------------------
(* Sequences of any elements.                                               *)
IsSeq(s) == \E S : s \in Seq(S)

LEMMA AppendIs ==
  ASSUME NEW s, IsSeq(s), NEW m
  PROVE  /\ IsSeq(Append(s, m)) /\ Len(s) \in Nat /\ Len(Append(s, m)) = Len(s) + 1
         /\ \A i \in 1..Len(s) : Append(s, m)[i] = s[i]
         /\ Append(s, m)[Len(s) + 1] = m
<1>1. PICK S : s \in Seq(S)
  BY DEF IsSeq
<1>2. s \in Seq(S \cup {m})
  BY <1>1
<1>3. Append(s, m) \in Seq(S \cup {m})
  BY <1>2
<1> QED
  BY <1>2, <1>3 DEF IsSeq

LEMMA ConcatIs ==
  ASSUME NEW s, IsSeq(s), NEW t, IsSeq(t)
  PROVE  /\ IsSeq(s \o t) /\ Len(s) \in Nat /\ Len(t) \in Nat
         /\ Len(s \o t) = Len(s) + Len(t)
         /\ \A i \in 1..Len(s) : (s \o t)[i] = s[i]
         /\ \A i \in 1..Len(t) : (s \o t)[Len(s) + i] = t[i]
<1>1. PICK S : s \in Seq(S)
  BY DEF IsSeq
<1>2. PICK T : t \in Seq(T)
  BY DEF IsSeq
<1>3. s \in Seq(S \cup T) /\ t \in Seq(S \cup T)
  BY <1>1, <1>2
<1>4. s \o t \in Seq(S \cup T)
  BY <1>3
<1> QED
  BY <1>3, <1>4 DEF IsSeq

LEMMA ConcatBehind ==
  ASSUME NEW s, NEW t, IsSeq(s), IsSeq(t)
  PROVE  \A i \in 1..Len(t) : (s \o t)[Len(s) + i] = t[i]
BY ConcatIs

LEMMA FromIs ==
  ASSUME NEW s, IsSeq(s), NEW i \in 1..Len(s) + 1
  PROVE  /\ IsSeq(From(s, i)) /\ Len(s) \in Nat /\ Len(From(s, i)) = Len(s) - i + 1
         /\ \A k \in 1..Len(s) - i + 1 : From(s, i)[k] = s[i + k - 1]
<1>1. PICK S : s \in Seq(S)
  BY DEF IsSeq
<1>2. Len(s) \in Nat /\ i \in Nat /\ i >= 1 /\ i <= Len(s) + 1
  BY <1>1
<1>3. SubSeq(s, i, Len(s)) \in Seq(S)
  BY <1>1, <1>2
<1>4. Len(SubSeq(s, i, Len(s))) = Len(s) - i + 1
  BY <1>1, <1>2
<1>5. \A k \in 1..Len(s) - i + 1 : SubSeq(s, i, Len(s))[k] = s[i + k - 1]
  BY <1>1, <1>2
<1> QED
  BY <1>2, <1>3, <1>4, <1>5 DEF IsSeq, From

LEMMA ShortIs ==
  ASSUME NEW a, NEW b, NEW c
  PROVE  /\ IsSeq(<<>>) /\ IsSeq(<<a>>) /\ IsSeq(<<a, b>>) /\ IsSeq(<<a, b, c>>)
         /\ Len(<<>>) = 0 /\ Len(<<a>>) = 1 /\ Len(<<a, b>>) = 2 /\ Len(<<a, b, c>>) = 3
<1>1. <<>> \in Seq({a, b, c}) /\ <<a>> \in Seq({a, b, c}) /\ <<a, b>> \in Seq({a, b, c})
      /\ <<a, b, c>> \in Seq({a, b, c})
  OBVIOUS
<1> QED
  BY <1>1 DEF IsSeq

LEMMA PlainIs ==
  ASSUME NEW s, IsSeq(s) PROVE IsSeq(Plain(s))
<1> DEFINE kept == {i \in DOMAIN s : s[i].role # "system"}
           nth(k) == CHOOSE i \in kept : Cardinality({j \in kept : j <= i}) = k
           e(k) == s[nth(k)]
<1>1. DOMAIN s = 1..Len(s) /\ Len(s) \in Nat
  BY DEF IsSeq
<1>2. IsFiniteSet(kept)
  <2>1. IsFiniteSet(1..Len(s))
    BY <1>1, FS_Interval
  <2>2. kept \subseteq 1..Len(s)
    BY <1>1
  <2> QED
    BY <2>1, <2>2, FS_Subset
<1>3. Cardinality(kept) \in Nat
  BY <1>2, FS_CardinalityType
<1>4. Plain(s) = [k \in 1..Cardinality(kept) |-> e(k)]
  BY DEF Plain
<1> HIDE DEF kept, e
<1>5. IsSeq([k \in 1..Cardinality(kept) |-> e(k)])
  <2>1. [i \in 1..Cardinality(kept) |-> e(i)] \in Seq({e(i) : i \in 1..Cardinality(kept)})
    BY <1>3
  <2> QED
    BY <2>1 DEF IsSeq
<1> QED
  BY <1>4, <1>5

(* A history the next turn may start on is a sequence.                      *)
LEMMA PastIs ==
  ASSUME IsSeq(msgs),
         NEW past \in {<<Summary, User, Answer>>}
                         \cup {FirstSystem(msgs) \o kept : kept \in Recent(msgs)}
  PROVE  IsSeq(past)
<1>1. CASE past = <<Summary, User, Answer>>
  BY <1>1, ShortIs
<1>2. ASSUME NEW kept \in Recent(msgs), past = FirstSystem(msgs) \o kept PROVE IsSeq(past)
  <2>1. IsSeq(FirstSystem(msgs))
    BY ShortIs DEF FirstSystem
  <2>2. IsSeq(Plain(msgs))
    BY PlainIs
  <2>3. PICK i \in {k \in 1..Len(Plain(msgs)) : Plain(msgs)[k].role # "tool"}
                      \cup {Len(Plain(msgs)) + 1} :
               kept = From(Plain(msgs), i)
    BY <1>2 DEF Recent
  <2>4. Len(Plain(msgs)) \in Nat
    BY <2>2 DEF IsSeq
  <2>5. i \in 1..Len(Plain(msgs)) + 1
    BY <2>3, <2>4
  <2>6. IsSeq(kept)
    BY <2>2, <2>3, <2>5, FromIs
  <2> QED
    BY <1>2, <2>1, <2>6, ConcatIs
<1> QED
  BY <1>1, <1>2

-----------------------------------------------------------------------------
(* A message of the assistant that makes n calls, with the first h of them   *)
(* answered, one tool message after the other.                               *)
Answered(s, i, f, n, h) ==
  /\ s[i].role = "assistant" /\ s[i].ids = f..(f + n - 1)
  /\ \A k \in 1..h : s[i + k].role = "tool" /\ s[i + k].ids = {f + k - 1}

(* From b to e, calls are answered in full and every answer is to a call.    *)
Complete(s, b, e) ==
  /\ \A i \in b..e : s[i].role = "assistant" =>
       \E f, n \in Nat : i + n <= e /\ Answered(s, i, f, n, n)
  /\ \A j \in b..e : s[j].role = "tool" =>
       \E i \in b..e : \E f, n \in Nat :
         i < j /\ j <= i + n /\ i + n <= e /\ Answered(s, i, f, n, n)

(* In the middle of a batch, the calls of the last reply still to be         *)
(* executed are the ones without an answer.                                  *)
InBatch(a, f, n) ==
  LET h == Len(msgs) - a
  IN /\ Answered(msgs, a, f, n, h) /\ Complete(msgs, turnStart, a - 1)
     /\ h + Len(batch) + Len(skipped) = n /\ f + n <= fresh
     /\ \A k \in 1..Len(batch) : batch[k].id = f + h + k - 1

Formed ==
  /\ IsSeq(msgs) /\ IsSeq(skipped) /\ turnStart \in 1..Len(msgs)
  /\ pc \in {"top", "compacting", "asking"} => Complete(msgs, turnStart, Len(msgs))
  /\ pc \in {"tools", "running"} =>
       \E a \in turnStart..Len(msgs) : \E f, n \in Nat : InBatch(a, f, n)

(* Complete messages stay so when others follow that make and answer no call.*)
LEMMA MoreMessages ==
  ASSUME NEW s, NEW t, NEW b \in Nat, NEW e \in Nat, NEW d \in Nat, e <= d, b >= 1,
         Complete(s, b, e), \A i \in 1..e : t[i] = s[i],
         \A i \in e + 1..d : /\ t[i].role # "tool"
                             /\ t[i].role = "assistant" => t[i].ids = {}
  PROVE  Complete(t, b, d)
<1>1. ASSUME NEW i \in 1..e, NEW f \in Nat, NEW n \in Nat, i + n <= e, Answered(s, i, f, n, n)
      PROVE  Answered(t, i, f, n, n)
  <2>1. t[i] = s[i] /\ \A k \in 1..n : t[i + k] = s[i + k]
    BY <1>1
  <2> QED
    BY <1>1, <2>1 DEF Answered
<1>2. ASSUME NEW i \in b..d, t[i].role = "assistant"
      PROVE  \E f, n \in Nat : i + n <= d /\ Answered(t, i, f, n, n)
  <2>1. CASE i <= e
    <3>1. s[i].role = "assistant" /\ i \in b..e /\ i \in 1..e
      BY <1>2, <2>1
    <3>2. PICK f \in Nat, n \in Nat : i + n <= e /\ Answered(s, i, f, n, n)
      BY <3>1 DEF Complete
    <3> QED
      BY <1>1, <3>1, <3>2
  <2>2. CASE i > e
    <3>1. t[i].ids = 1..(1 + 0 - 1)
      BY <1>2, <2>2
    <3>2. Answered(t, i, 1, 0, 0)
      BY <1>2, <3>1 DEF Answered
    <3> QED
      BY <3>2
  <2>3. i <= e \/ i > e
    OBVIOUS
  <2> QED
    BY <2>1, <2>2, <2>3, Zenon
<1>3. ASSUME NEW j \in b..d, t[j].role = "tool"
      PROVE  \E i \in b..d : \E f, n \in Nat :
               i < j /\ j <= i + n /\ i + n <= d /\ Answered(t, i, f, n, n)
  <2>1. j \in b..e /\ s[j].role = "tool"
    BY <1>3
  <2>2. PICK i \in b..e : \E f, n \in Nat :
          i < j /\ j <= i + n /\ i + n <= e /\ Answered(s, i, f, n, n)
    BY <2>1 DEF Complete
  <2>3. PICK f \in Nat, n \in Nat : i < j /\ j <= i + n /\ i + n <= e /\ Answered(s, i, f, n, n)
    BY <2>2
  <2>4. i \in 1..e /\ i \in b..d
    BY <2>2
  <2>5. Answered(t, i, f, n, n)
    BY <1>1, <2>3, <2>4
  <2> QED
    BY <2>3, <2>4, <2>5
<1> QED
  BY <1>2, <1>3 DEF Complete

LEMMA SameMessages ==
  ASSUME NEW s, NEW t, NEW b \in Nat, NEW e \in Nat, b >= 1,
         Complete(s, b, e), \A i \in 1..e : t[i] = s[i]
  PROVE  Complete(t, b, e)
<1>1. e <= e /\ \A i \in e + 1..e : FALSE
  OBVIOUS
<1>2. \A i \in e + 1..e : t[i].role # "tool" /\ (t[i].role = "assistant" => t[i].ids = {})
  BY <1>1
<1> QED
  BY <1>1, <1>2, MoreMessages

(* A batch that is done and skipped nothing closes its message.              *)
LEMMA BatchDone ==
  ASSUME NEW s, NEW b \in Nat, NEW e \in Nat, NEW a \in b..e, NEW f \in Nat, NEW n \in Nat,
         Answered(s, a, f, n, n), Complete(s, b, a - 1), a + n = e
  PROVE  Complete(s, b, e)
<1>1. ASSUME NEW i \in b..e, s[i].role = "assistant"
      PROVE  \E g, m \in Nat : i + m <= e /\ Answered(s, i, g, m, m)
  <2>1. CASE i < a
    <3>1. i \in b..a - 1
      BY <2>1
    <3> QED
      BY <1>1, <3>1 DEF Complete
  <2>2. CASE i = a
    BY <2>2
  <2>3. CASE i > a
    <3>1. i - a \in 1..n /\ a + (i - a) = i
      BY <2>3
    <3> QED
      BY <1>1, <3>1 DEF Answered
  <2> QED
    BY <2>1, <2>2, <2>3
<1>2. ASSUME NEW j \in b..e, s[j].role = "tool"
      PROVE  \E i \in b..e : \E g, m \in Nat :
               i < j /\ j <= i + m /\ i + m <= e /\ Answered(s, i, g, m, m)
  <2>1. CASE j < a
    <3>1. j \in b..a - 1
      BY <2>1
    <3>2. PICK i \in b..a - 1 : \E g, m \in Nat :
            i < j /\ j <= i + m /\ i + m <= a - 1 /\ Answered(s, i, g, m, m)
      BY <1>2, <3>1 DEF Complete
    <3> QED
      BY <3>2
  <2>2. CASE j = a
    BY <1>2, <2>2 DEF Answered
  <2>3. CASE j > a
    BY <2>3
  <2> QED
    BY <2>1, <2>2, <2>3
<1> QED
  BY <1>1, <1>2 DEF Complete

(* t has, from c to d, a task and then what s has from k to e: a suffix that *)
(* starts on a message of the assistant.                                     *)
TailOf(s, b, e, k, t, c, d) ==
  /\ b \in Nat /\ e \in Nat /\ k \in b..e + 1 /\ b >= 1
  /\ k = e + 1 \/ s[k].role = "assistant"
  /\ c \in Nat /\ d \in Nat /\ c >= 1 /\ d = c + (e - k + 1) /\ t[c].role = "user"
  /\ \A i \in k..e : t[c + 1 + (i - k)] = s[i]

(* Such a suffix cuts no answer off.                                         *)
LEMMA TailComplete ==
  ASSUME NEW s, NEW b, NEW e, NEW k, NEW t, NEW c, NEW d,
         Complete(s, b, e), TailOf(s, b, e, k, t, c, d)
  PROVE  Complete(t, c, d)
<1>0. /\ b \in Nat /\ e \in Nat /\ k \in b..e + 1 /\ b >= 1
      /\ k = e + 1 \/ s[k].role = "assistant"
      /\ c \in Nat /\ d \in Nat /\ c >= 1 /\ d = c + (e - k + 1) /\ t[c].role = "user"
      /\ \A i \in k..e : t[c + 1 + (i - k)] = s[i]
  BY DEF TailOf
<1> USE <1>0
<1> DEFINE at(i) == c + 1 + (i - k)
<1>1. \A j \in c..d : j = c \/ (\E i \in k..e : j = at(i))
  <2> SUFFICES ASSUME NEW j \in c..d, j # c PROVE j - c - 1 + k \in k..e /\ j = at(j - c - 1 + k)
    BY Z3
  <2> QED
    OBVIOUS
<1>2. ASSUME NEW i \in k..e, NEW f \in Nat, NEW n \in Nat, i + n <= e, Answered(s, i, f, n, n)
      PROVE  at(i) + n <= d /\ Answered(t, at(i), f, n, n)
  <2>1. t[at(i)] = s[i]
    OBVIOUS
  <2>2. ASSUME NEW h \in 1..n PROVE t[at(i) + h] = s[i + h]
    <3>1. i + h \in k..e /\ at(i) + h = at(i + h)
      BY <1>2
    <3>2. t[at(i + h)] = s[i + h]
      BY <3>1
    <3> QED
      BY <3>1, <3>2
  <2>3. at(i) + n <= d
    BY <1>2
  <2> HIDE DEF at
  <2> QED
    BY <1>2, <2>1, <2>2, <2>3 DEF Answered
<1>3. ASSUME NEW i \in k..e, s[i].role = "assistant"
      PROVE  \E f, n \in Nat : at(i) + n <= d /\ Answered(t, at(i), f, n, n)
  <2>1. i \in b..e
    OBVIOUS
  <2>2. PICK f \in Nat, n \in Nat : i + n <= e /\ Answered(s, i, f, n, n)
    BY <1>3, <2>1 DEF Complete
  <2> HIDE DEF at
  <2> QED
    BY <1>2, <2>2
<1>4. ASSUME NEW j \in k..e, s[j].role = "tool"
      PROVE  \E i \in k..e : \E f, n \in Nat : /\ at(i) < at(j) /\ at(j) <= at(i) + n
                                               /\ at(i) + n <= d /\ Answered(t, at(i), f, n, n)
  <2>1. j \in b..e
    OBVIOUS
  <2>2. PICK i \in b..e : \E f, n \in Nat :
          i < j /\ j <= i + n /\ i + n <= e /\ Answered(s, i, f, n, n)
    BY <1>4, <2>1 DEF Complete
  <2>3. PICK f \in Nat, n \in Nat : i < j /\ j <= i + n /\ i + n <= e /\ Answered(s, i, f, n, n)
    BY <2>2
  <2>4. i >= k
    <3> SUFFICES ASSUME i < k PROVE FALSE
      BY <2>2
    <3>1. k - i \in 1..n /\ i + (k - i) = k /\ k <= e
      BY <2>3
    <3>2. s[k].role = "tool"
      BY <2>3, <3>1 DEF Answered
    <3> QED
      BY <3>1, <3>2
  <2>5. i \in k..e /\ at(i) < at(j) /\ at(j) <= at(i) + n
    BY <2>3, <2>4
  <2>6. at(i) + n <= d /\ Answered(t, at(i), f, n, n)
    BY <1>2, <2>3, <2>5
  <2> HIDE DEF at
  <2> QED
    BY <2>5, <2>6
<1>5. \A i \in k..e : at(i) \in c..d /\ t[at(i)] = s[i]
  OBVIOUS
<1> HIDE DEF at
<1>6. ASSUME NEW x \in c..d, t[x].role = "assistant"
      PROVE  \E f, n \in Nat : x + n <= d /\ Answered(t, x, f, n, n)
  <2>1. PICK i \in k..e : x = at(i)
    BY <1>1, <1>6
  <2>2. s[i].role = "assistant"
    BY <1>5, <1>6, <2>1
  <2> QED
    BY <1>3, <2>1, <2>2
<1>7. ASSUME NEW x \in c..d, t[x].role = "tool"
      PROVE  \E y \in c..d : \E f, n \in Nat :
               y < x /\ x <= y + n /\ y + n <= d /\ Answered(t, y, f, n, n)
  <2>1. PICK j \in k..e : x = at(j)
    BY <1>1, <1>7
  <2>2. s[j].role = "tool"
    BY <1>5, <1>7, <2>1
  <2>3. PICK i \in k..e : \E f, n \in Nat : /\ at(i) < at(j) /\ at(j) <= at(i) + n
                                              /\ at(i) + n <= d /\ Answered(t, at(i), f, n, n)
    BY <1>4, <2>2
  <2>4. at(i) \in c..d
    BY <1>5
  <2> QED
    BY <2>1, <2>3, <2>4
<1> QED
  BY <1>6, <1>7 DEF Complete

(* What the invariant says of the messages is what a provider accepts.       *)
LEMMA CompleteIsWellFormed ==
  ASSUME NEW s, IsSeq(s), NEW b \in 1..Len(s), Complete(s, b, Len(s))
  PROVE  WellFormed(From(s, b))
<1> DEFINE u == From(s, b)
           m == Len(s) - b + 1
<1>0. Len(s) \in Nat
  BY DEF IsSeq
<1>1. IsSeq(u) /\ Len(u) = m /\ \A k \in 1..m : u[k] = s[b + k - 1]
  BY <1>0, FromIs
<1>2. DOMAIN u = 1..m
  BY <1>1 DEF IsSeq
<1>3. ASSUME NEW i \in 1..m, u[i].role = "assistant"
      PROVE  Answers(u, i) = {{id} : id \in u[i].ids}
  <2>1. b + i - 1 \in b..Len(s) /\ s[b + i - 1] = u[i]
    BY <1>0, <1>1
  <2>2. PICK f \in Nat, n \in Nat :
          b + i - 1 + n <= Len(s) /\ Answered(s, b + i - 1, f, n, n)
    BY <1>3, <2>1 DEF Complete
  <2>3. u[i].ids = f..(f + n - 1)
    BY <2>1, <2>2 DEF Answered
  <2>4. Cardinality(f..(f + n - 1)) = n
    BY FS_Interval
  <2>5. {k \in i + 1..Len(u) : k <= i + Cardinality(u[i].ids)} = {k \in i + 1..m : k <= i + n}
    BY <1>1, <2>3, <2>4
  <2>6. ASSUME NEW k \in 1..n PROVE i + k \in i + 1..m /\ u[i + k].ids = {f + k - 1}
    <3>1. i + k \in 1..m /\ b + (i + k) - 1 = (b + i - 1) + k
      BY <1>0, <2>2
    <3>2. u[i + k] = s[(b + i - 1) + k]
      BY <1>1, <3>1
    <3> QED
      BY <2>2, <3>1, <3>2 DEF Answered
  <2>7. \A j \in {k \in i + 1..m : k <= i + n} : j - i \in 1..n /\ i + (j - i) = j
    OBVIOUS
  <2>8. \A id \in f..(f + n - 1) : id - f + 1 \in 1..n /\ f + (id - f + 1) - 1 = id
    OBVIOUS
  <2>9. Answers(u, i) = {u[j].ids : j \in {k \in i + 1..m : k <= i + n}}
    BY <2>5 DEF Answers
  <2> HIDE DEF u, m
  <2>10. ASSUME NEW x \in Answers(u, i) PROVE x \in {{id} : id \in f..(f + n - 1)}
    <3>1. PICK j \in {k \in i + 1..m : k <= i + n} : x = u[j].ids
      BY <2>9
    <3>2. j - i \in 1..n /\ i + (j - i) = j
      BY <2>7
    <3>3. x = {f + (j - i) - 1}
      BY <2>6, <3>1, <3>2
    <3>4. f + (j - i) - 1 \in f..(f + n - 1)
      BY <3>2
    <3> QED
      BY <3>3, <3>4
  <2>11. ASSUME NEW id \in f..(f + n - 1) PROVE {id} \in Answers(u, i)
    <3> DEFINE k == id - f + 1
    <3>1. k \in 1..n /\ f + k - 1 = id
      BY <2>8
    <3> HIDE DEF k
    <3>2. i + k \in {h \in i + 1..m : h <= i + n} /\ u[i + k].ids = {id}
      BY <2>6, <3>1
    <3> QED
      BY <2>9, <3>2
  <2> QED
    BY <2>3, <2>10, <2>11
<1>4. ASSUME NEW j \in 1..m, u[j].role = "tool"
      PROVE  \E i \in 1..j - 1 : u[i].role = "assistant" /\ u[j].ids \subseteq u[i].ids
  <2>1. b + j - 1 \in b..Len(s) /\ s[b + j - 1] = u[j]
    BY <1>0, <1>1
  <2>2. PICK i \in b..Len(s) : \E f, n \in Nat :
          /\ i < b + j - 1 /\ b + j - 1 <= i + n /\ i + n <= Len(s) /\ Answered(s, i, f, n, n)
    BY <1>4, <2>1 DEF Complete
  <2>3. PICK f \in Nat, n \in Nat :
          /\ i < b + j - 1 /\ b + j - 1 <= i + n /\ i + n <= Len(s) /\ Answered(s, i, f, n, n)
    BY <2>2
  <2> DEFINE h == i - b + 1
             k == j - h
  <2>4. h \in 1..j - 1 /\ h \in 1..m /\ b + h - 1 = i /\ k \in 1..n /\ i + k = b + j - 1
    BY <1>0, <2>3
  <2>5. u[h] = s[i]
    BY <1>1, <2>4
  <2> HIDE DEF u, m, h, k
  <2>6. u[h].role = "assistant" /\ u[h].ids = f..(f + n - 1) /\ u[j].ids = {f + k - 1}
    <3>1. /\ s[i].role = "assistant" /\ s[i].ids = f..(f + n - 1)
          /\ \A q \in 1..n : s[i + q].ids = {f + q - 1}
      BY <2>3 DEF Answered
    <3>2. s[i + k].ids = {f + k - 1}
      BY <2>4, <3>1
    <3>3. s[i + k] = u[j]
      BY <2>1, <2>4
    <3> QED
      BY <2>5, <3>1, <3>2, <3>3
  <2>7. f + k - 1 \in f..(f + n - 1)
    BY <2>4
  <2> QED
    BY <2>4, <2>6, <2>7
<1> QED
  BY <1>2, <1>3, <1>4 DEF WellFormed

LEMMA FormedInit == Init => Formed
<1> SUFFICES ASSUME Init PROVE Formed
  OBVIOUS
<1>1. IsSeq(msgs) /\ IsSeq(skipped) /\ Len(msgs) = 1 /\ turnStart = 1 /\ pc = "top"
  BY ShortIs DEF Init
<1>2. msgs[1].role = "user"
  BY DEF Init, User, Message
<1>3. Complete(msgs, 1, 1)
  <2>1. \A i \in 1..1 : i = 1
    OBVIOUS
  <2> QED
    BY <1>2, <2>1 DEF Complete
<1> QED
  BY <1>1, <1>3 DEF Formed

(* A call of the batch gets its answer.                                      *)
LEMMA FormedAnswer ==
  ASSUME Counted, Formed, pc \in {"tools", "running"}, batch # <<>>, Respond, NextCall,
         UNCHANGED <<turnStart, skipped, fresh>>
  PROVE  Formed'
<1>1. PICK a \in turnStart..Len(msgs) : \E f, n \in Nat : InBatch(a, f, n)
  BY DEF Formed
<1>2. PICK f \in Nat, n \in Nat : InBatch(a, f, n)
  BY <1>1
<1> DEFINE h == Len(msgs) - a
<1>3. /\ IsSeq(msgs') /\ Len(msgs) \in Nat /\ Len(msgs') = Len(msgs) + 1
      /\ \A i \in 1..Len(msgs) : msgs'[i] = msgs[i]
      /\ msgs'[Len(msgs) + 1] = Responds(Call)
  BY AppendIs DEF Respond, Formed
<1>4. /\ batch' \in Seq(CallRecords) /\ Len(batch') = Len(batch) - 1 /\ Len(batch) \in Nat
      /\ Len(batch) >= 1 /\ Call = batch[1]
      /\ \A k \in 1..Len(batch') : batch'[k] = batch[k + 1]
  BY TakeCall DEF NextCall, Counted, Call
<1>5. a \in Nat /\ turnStart \in Nat /\ a >= 1 /\ turnStart >= 1 /\ a <= Len(msgs) /\ turnStart <= a
  BY <1>3 DEF Formed
<1>6. Call.id = f + h
  BY <1>2, <1>4, <1>5 DEF InBatch
<1>7. Responds(Call).role = "tool" /\ Responds(Call).ids = {f + (h + 1) - 1}
  BY <1>3, <1>5, <1>6 DEF Responds, Message
<1>8. Answered(msgs', a, f, n, h + 1)
  <2>1. \A k \in 1..h + 1 : k \in 1..h \/ k = h + 1
    BY <1>3, <1>5
  <2>2. a \in 1..Len(msgs) /\ (\A k \in 1..h : a + k \in 1..Len(msgs)) /\ a + (h + 1) = Len(msgs) + 1
    BY <1>3, <1>5
  <2>3. Answered(msgs, a, f, n, h)
    BY <1>2 DEF InBatch
  <2> HIDE DEF h
  <2>4. /\ msgs[a].role = "assistant" /\ msgs[a].ids = f..(f + n - 1)
        /\ \A k \in 1..h : msgs[a + k].role = "tool" /\ msgs[a + k].ids = {f + k - 1}
    BY <2>3 DEF Answered
  <2>5. msgs'[a] = msgs[a] /\ \A k \in 1..h : msgs'[a + k] = msgs[a + k]
    BY <1>3, <2>2
  <2>6. msgs'[a + (h + 1)] = Responds(Call)
    BY <1>3, <2>2
  <2>7. \A k \in 1..h + 1 : msgs'[a + k].role = "tool" /\ msgs'[a + k].ids = {f + k - 1}
    BY <1>7, <2>1, <2>4, <2>5, <2>6
  <2> QED
    BY <2>4, <2>5, <2>7 DEF Answered
<1>9. Complete(msgs', turnStart, a - 1)
  <2>1. Complete(msgs, turnStart, a - 1)
    BY <1>2 DEF InBatch
  <2> DEFINE e == a - 1
  <2>2. e \in Nat /\ \A i \in 1..e : msgs'[i] = msgs[i]
    BY <1>3, <1>5
  <2>3. Complete(msgs, turnStart, e)
    BY <2>1
  <2> HIDE DEF e
  <2>4. Complete(msgs', turnStart, e)
    BY <1>5, <2>2, <2>3, SameMessages
  <2> QED
    BY <2>4 DEF e
<1>10. \A k \in 1..Len(batch') : batch'[k].id = f + (h + 1) + k - 1
  <2> SUFFICES ASSUME NEW k \in 1..Len(batch') PROVE batch'[k].id = f + (h + 1) + k - 1
    OBVIOUS
  <2>1. k + 1 \in 1..Len(batch) /\ batch'[k] = batch[k + 1] /\ h \in Nat
    BY <1>3, <1>4, <1>5
  <2>2. batch[k + 1].id = f + h + (k + 1) - 1
    BY <1>2, <2>1 DEF InBatch
  <2> HIDE DEF h
  <2> QED
    BY <2>1, <2>2
<1>11. Len(msgs') - a = h + 1 /\ h + 1 + Len(batch') + Len(skipped') = n
  <2>1. h + Len(batch) + Len(skipped) = n
    BY <1>2 DEF InBatch
  <2>2. Len(skipped) \in Nat
    BY DEF Formed, IsSeq
  <2>3. Len(skipped') = Len(skipped)
    OBVIOUS
  <2>4. Len(msgs') - a = h + 1 /\ h \in Nat
    BY <1>3, <1>5
  <2>5. Len(batch') = Len(batch) - 1 /\ Len(batch) \in Nat
    BY <1>4
  <2> HIDE DEF h
  <2> QED
    BY <2>1, <2>2, <2>3, <2>4, <2>5
<1>12. f + n <= fresh'
  BY <1>2 DEF InBatch
<1> HIDE DEF h
<1>13. InBatch(a, f, n)'
  BY <1>8, <1>9, <1>10, <1>11, <1>12 DEF InBatch
<1>14. a \in turnStart'..Len(msgs') /\ turnStart' \in 1..Len(msgs') /\ pc' = "tools"
  BY <1>3, <1>5 DEF NextCall
<1> QED
  BY <1>3, <1>13, <1>14 DEF Formed

LEMMA FormedReply ==
  ASSUME Counted, Formed, ToolReply
  PROVE  Formed'
<1>1. PICK n \in 1..MaxBatch : \E acts \in [1..n -> Acts], limited \in BOOLEAN :
       LET all == [i \in 1..n |-> [id |-> fresh + i - 1, act |-> acts[i]]]
           run == IF Room < n THEN Room ELSE n
       IN /\ msgs' = Append(msgs, Asks({all[i].id : i \in 1..n}))
          /\ batch' = SubSeq(all, 1, run)
          /\ skipped' = [i \in 1..n - run |-> all[run + i]]
          /\ fresh' = fresh + n
  BY DEF ToolReply
<1>2. PICK acts \in [1..n -> Acts] :
       LET all == [i \in 1..n |-> [id |-> fresh + i - 1, act |-> acts[i]]]
           run == IF Room < n THEN Room ELSE n
       IN /\ msgs' = Append(msgs, Asks({all[i].id : i \in 1..n}))
          /\ batch' = SubSeq(all, 1, run)
          /\ skipped' = [i \in 1..n - run |-> all[run + i]]
          /\ fresh' = fresh + n
  BY <1>1
<1> DEFINE all == [i \in 1..n |-> [id |-> fresh + i - 1, act |-> acts[i]]]
           run == IF Room < n THEN Room ELSE n
           ids == {all[i].id : i \in 1..n}
<1>3. /\ msgs' = Append(msgs, Asks(ids)) /\ batch' = SubSeq(all, 1, run)
      /\ skipped' = [i \in 1..n - run |-> all[run + i]] /\ fresh' = fresh + n
  BY <1>2
<1>4. n \in Nat /\ fresh \in Nat /\ run \in 0..n
  <2>1. n \in Nat /\ MaxBatch \in Nat /\ fresh \in Nat /\ total \in Nat /\ MaxToolCalls \in Nat
    BY TurnAssumption DEF Counted
  <2>2. Room \in Nat
    BY <2>1 DEF Room
  <2> QED
    BY <2>1, <2>2
<1>5. \A i \in 1..n : [id |-> fresh + i - 1, act |-> acts[i]] \in CallRecords
  BY <1>4 DEF CallRecords
<1>6. all \in Seq(CallRecords) /\ Len(all) = n
  BY <1>4, <1>5
<1>7. \A i \in 1..n : all[i].id = fresh + i - 1
  OBVIOUS
<1>8. ids = fresh..(fresh + n - 1)
  <2>1. \A i \in 1..n : all[i].id \in fresh..(fresh + n - 1)
    BY <1>4, <1>7
  <2>2. ASSUME NEW x \in fresh..(fresh + n - 1) PROVE \E i \in 1..n : all[i].id = x
    <3>1. x - fresh + 1 \in 1..n /\ fresh + (x - fresh + 1) - 1 = x
      BY <1>4
    <3> QED
      BY <1>7, <3>1
  <2> HIDE DEF all
  <2> QED
    BY <2>1, <2>2
<1> HIDE DEF all, run
<1>9. /\ batch' \in Seq(CallRecords) /\ Len(batch') = run
      /\ \A k \in 1..run : batch'[k].id = fresh + k - 1
  <2>1. \A k \in 1..run : SubSeq(all, 1, run)[k] = all[k] /\ k \in 1..n
    BY <1>4, <1>6
  <2>2. SubSeq(all, 1, run) \in Seq(CallRecords) /\ Len(SubSeq(all, 1, run)) = run
    BY <1>4, <1>6
  <2>3. \A k \in 1..run : SubSeq(all, 1, run)[k].id = fresh + k - 1
    BY <1>7, <2>1
  <2> QED
    BY <1>3, <2>2, <2>3
<1>10. IsSeq(skipped') /\ Len(skipped') = n - run
  <2> DEFINE m == n - run
  <2>1. m \in Nat /\ skipped' = [i \in 1..m |-> all[run + i]]
    BY <1>3, <1>4
  <2> HIDE DEF m
  <2>2. skipped' \in Seq({all[run + i] : i \in 1..m}) /\ Len(skipped') = m
    BY <2>1
  <2> QED
    BY <2>2 DEF IsSeq, m
<1>11. /\ IsSeq(msgs') /\ Len(msgs) \in Nat /\ Len(msgs') = Len(msgs) + 1
       /\ \A i \in 1..Len(msgs) : msgs'[i] = msgs[i]
       /\ msgs'[Len(msgs) + 1] = Asks(ids)
  BY <1>3, AppendIs DEF Formed
<1>12. turnStart' = turnStart /\ turnStart \in 1..Len(msgs) /\ pc' = "tools"
       /\ Complete(msgs, turnStart, Len(msgs))
  BY DEF ToolReply, Formed
<1>13. PICK a \in Nat : a = Len(msgs) + 1
  BY <1>11
<1>14. Answered(msgs', a, fresh, n, 0)
  <2> HIDE DEF ids
  <2>1. msgs'[a].role = "assistant" /\ msgs'[a].ids = ids
    BY <1>11, <1>13 DEF Asks, Message
  <2>2. \A k \in 1..0 : FALSE
    OBVIOUS
  <2> QED
    BY <1>8, <2>1, <2>2 DEF Answered
<1>15. Complete(msgs', turnStart, Len(msgs))
  <2>1. Complete(msgs, turnStart, Len(msgs)) /\ turnStart \in Nat /\ turnStart >= 1
    BY <1>11, <1>12
  <2> QED
    BY <1>11, <2>1, SameMessages
<1>16. Len(msgs') - a = 0 /\ a - 1 = Len(msgs)
  BY <1>11, <1>13
<1>17. \A k \in 1..Len(batch') : batch'[k].id = fresh + 0 + k - 1
  BY <1>4, <1>9
<1>18. 0 + Len(batch') + Len(skipped') = n /\ fresh + n <= fresh'
  BY <1>3, <1>4, <1>9, <1>10
<1>19. turnStart' = turnStart
  BY <1>12
<1>20. PICK f \in Nat : f = fresh
  BY <1>4
<1>21. InBatch(a, f, n)'
  BY <1>14, <1>15, <1>16, <1>17, <1>18, <1>19, <1>20 DEF InBatch
<1>22. a \in turnStart'..Len(msgs') /\ turnStart' \in 1..Len(msgs')
  BY <1>11, <1>12, <1>13
<1> QED
  BY <1>4, <1>10, <1>11, <1>12, <1>20, <1>21, <1>22 DEF Formed

(* What compactTurn keeps: the task, then a tail of complete messages.       *)
LEMMA Compacted ==
  ASSUME Formed, CompactTurn
  PROVE  \E k \in turnStart + 1..Len(msgs) + 1 :
           /\ k = Len(msgs) + 1 \/ msgs[k].role = "assistant"
           /\ IsSeq(msgs') /\ turnStart' \in Nat \ {0} /\ Len(msgs) \in Nat
           /\ Len(msgs') = turnStart' + (Len(msgs) - k + 1)
           /\ msgs'[turnStart'].role = "user"
           /\ \A i \in k..Len(msgs) : msgs'[turnStart' + 1 + (i - k)] = msgs[i]
           /\ finished' = finished \cap UNION {msgs[i].ids : i \in k..Len(msgs)}
<1>1. PICK head \in {<<Summary>>, FirstSystem(msgs)},
           tail \in RecentTails(From(msgs, turnStart + 1)) :
        /\ msgs' = head \o <<User>> \o tail
        /\ turnStart' = Len(head) + 1
        /\ finished' = finished \cap IdsOf(tail)
  BY DEF CompactTurn
<1> DEFINE rest == From(msgs, turnStart + 1)
<1>2. IsSeq(head) /\ Len(head) \in Nat
  <2>1. IsSeq(<<Summary>>) /\ IsSeq(<<>>)
    BY ShortIs
  <2>2. head \in {<<Summary>>, <<>>}
    BY DEF FirstSystem
  <2>3. IsSeq(head)
    BY <2>1, <2>2
  <2> QED
    BY <2>3 DEF IsSeq
<1>3. Len(msgs) \in Nat /\ turnStart \in 1..Len(msgs) /\ IsSeq(msgs)
  BY DEF Formed, IsSeq
<1>4. /\ IsSeq(rest) /\ Len(rest) = Len(msgs) - turnStart
      /\ \A i \in 1..Len(msgs) - turnStart : rest[i] = msgs[turnStart + i]
  <2>1. turnStart + 1 \in 1..Len(msgs) + 1
    BY <1>3
  <2>2. \A i \in 1..Len(msgs) - (turnStart + 1) + 1 : rest[i] = msgs[(turnStart + 1) + i - 1]
    BY <1>3, <2>1, FromIs
  <2>3. IsSeq(rest) /\ Len(rest) = Len(msgs) - (turnStart + 1) + 1
    BY <1>3, <2>1, FromIs
  <2> HIDE DEF rest
  <2> QED
    BY <1>3, <2>2, <2>3
<1> HIDE DEF rest
<1>5. PICK j \in 1..Len(rest) + 1 :
        tail = From(rest, j) /\ (j > Len(rest) \/ rest[j].role = "assistant")
  BY DEF RecentTails, rest
<1>6. /\ IsSeq(tail) /\ Len(tail) = Len(rest) - j + 1
      /\ \A i \in 1..Len(rest) - j + 1 : tail[i] = rest[j + i - 1]
  <2>1. IsSeq(rest) /\ j \in 1..Len(rest) + 1 /\ tail = From(rest, j)
    BY <1>4, <1>5
  <2>2. IsSeq(From(rest, j)) /\ Len(From(rest, j)) = Len(rest) - j + 1
    BY <2>1, FromIs
  <2>3. \A i \in 1..Len(rest) - j + 1 : From(rest, j)[i] = rest[j + i - 1]
    BY <2>1, FromIs
  <2> QED
    BY <2>1, <2>2, <2>3
<1>7. PICK k \in Nat : k = turnStart + j /\ j \in 1..Len(msgs) - turnStart + 1
  BY <1>3, <1>4, <1>5
<1>8. /\ k \in turnStart + 1..Len(msgs) + 1 /\ Len(tail) = Len(msgs) - k + 1
      /\ k = Len(msgs) + 1 \/ msgs[k].role = "assistant"
  <2>1. k \in turnStart + 1..Len(msgs) + 1 /\ Len(tail) = Len(msgs) - k + 1
    BY <1>3, <1>4, <1>6, <1>7
  <2>2. ASSUME k # Len(msgs) + 1 PROVE msgs[k].role = "assistant"
    <3>1. j \in 1..Len(msgs) - turnStart
      BY <1>3, <1>7, <2>2
    <3> QED
      BY <1>4, <1>5, <1>7, <3>1
  <2> QED
    BY <2>1, <2>2
<1>9. \A i \in k..Len(msgs) : i - k + 1 \in 1..Len(tail) /\ tail[i - k + 1] = msgs[i]
  <2> SUFFICES ASSUME NEW i \in k..Len(msgs)
               PROVE  i - k + 1 \in 1..Len(tail) /\ tail[i - k + 1] = msgs[i]
    OBVIOUS
  <2>1. /\ i - k + 1 \in 1..Len(tail) /\ i - k + 1 \in 1..Len(rest) - j + 1
        /\ j + (i - k + 1) - 1 = i - turnStart /\ i - turnStart \in 1..Len(msgs) - turnStart
        /\ turnStart + (i - turnStart) = i
    BY <1>3, <1>4, <1>6, <1>7, <1>8
  <2>2. tail[i - k + 1] = rest[i - turnStart]
    BY <1>6, <2>1
  <2>3. rest[i - turnStart] = msgs[i]
    BY <1>4, <2>1
  <2> QED
    BY <2>1, <2>2, <2>3
<1>10. /\ IsSeq(head \o <<User>>) /\ Len(head \o <<User>>) = turnStart'
       /\ (head \o <<User>>)[turnStart'] = User
  <2>1. IsSeq(<<User>>) /\ Len(<<User>>) = 1 /\ <<User>>[1] = User
    BY ShortIs
  <2>2. /\ IsSeq(head \o <<User>>) /\ Len(head \o <<User>>) = Len(head) + 1
        /\ (head \o <<User>>)[Len(head) + 1] = <<User>>[1]
    BY <1>2, <2>1, ConcatIs
  <2> QED
    BY <1>1, <2>1, <2>2
<1>11. turnStart' \in Nat \ {0}
  BY <1>1, <1>2
<1>12. /\ IsSeq(msgs') /\ Len(msgs') = turnStart' + Len(tail)
       /\ \A i \in 1..turnStart' : msgs'[i] = (head \o <<User>>)[i]
       /\ \A i \in 1..Len(tail) : msgs'[turnStart' + i] = tail[i]
  <2> DEFINE front == head \o <<User>>
  <2>1. msgs' = front \o tail
    BY <1>1
  <2>2. IsSeq(front) /\ Len(front) = turnStart'
    BY <1>10
  <2> HIDE DEF front
  <2>3. /\ IsSeq(front \o tail) /\ Len(front \o tail) = Len(front) + Len(tail)
        /\ \A i \in 1..Len(front) : (front \o tail)[i] = front[i]
        /\ \A i \in 1..Len(tail) : (front \o tail)[Len(front) + i] = tail[i]
    <3>1. IsSeq(tail)
      BY <1>6
    <3>2. IsSeq(front)
      BY <2>2
    <3>3. IsSeq(front \o tail)
      BY <3>1, <3>2, ConcatIs
    <3>4. Len(front \o tail) = Len(front) + Len(tail)
      BY <3>1, <3>2, ConcatIs
    <3>5. \A i \in 1..Len(front) : (front \o tail)[i] = front[i]
      BY <3>1, <3>2, ConcatIs
    <3>6. \A i \in 1..Len(tail) : (front \o tail)[Len(front) + i] = tail[i]
      BY <3>1, <3>2, ConcatIs
    <3> QED
      BY <3>3, <3>4, <3>5, <3>6
  <2> QED
    BY <2>1, <2>2, <2>3 DEF front
<1>13. msgs'[turnStart'].role = "user"
  BY <1>10, <1>11, <1>12 DEF User, Message
<1>14. \A i \in k..Len(msgs) : msgs'[turnStart' + 1 + (i - k)] = msgs[i]
  <2> SUFFICES ASSUME NEW i \in k..Len(msgs) PROVE msgs'[turnStart' + 1 + (i - k)] = msgs[i]
    OBVIOUS
  <2>1. turnStart' + 1 + (i - k) = turnStart' + (i - k + 1)
    BY <1>3, <1>7, <1>11
  <2> QED
    BY <1>9, <1>12, <2>1
<1>15. IdsOf(tail) = UNION {msgs[i].ids : i \in k..Len(msgs)}
  <2>1. DOMAIN tail = 1..Len(tail)
    BY <1>6 DEF IsSeq
  <2>2. \A h \in 1..Len(tail) : h + k - 1 \in k..Len(msgs) /\ (h + k - 1) - k + 1 = h
    BY <1>3, <1>7, <1>8
  <2>3. \A h \in 1..Len(tail) : tail[h] = msgs[h + k - 1]
    BY <1>9, <2>2
  <2>4. {tail[h].ids : h \in 1..Len(tail)} = {msgs[i].ids : i \in k..Len(msgs)}
    <3>1. ASSUME NEW h \in 1..Len(tail)
          PROVE  \E i \in k..Len(msgs) : tail[h].ids = msgs[i].ids
      BY <2>2, <2>3
    <3>2. ASSUME NEW i \in k..Len(msgs)
          PROVE  \E h \in 1..Len(tail) : msgs[i].ids = tail[h].ids
      BY <1>9
    <3>3. {tail[h].ids : h \in 1..Len(tail)} \subseteq {msgs[i].ids : i \in k..Len(msgs)}
      BY <3>1
    <3>4. {msgs[i].ids : i \in k..Len(msgs)} \subseteq {tail[h].ids : h \in 1..Len(tail)}
      BY <3>2
    <3> QED
      BY <3>3, <3>4
  <2> QED
    BY <2>1, <2>4 DEF IdsOf
<1>16. Len(msgs') = turnStart' + (Len(msgs) - k + 1)
  BY <1>8, <1>12
<1> QED
  BY <1>1, <1>3, <1>8, <1>11, <1>12, <1>13, <1>14, <1>15, <1>16

LEMMA FormedCompact ==
  ASSUME Formed, CompactTurn
  PROVE  Formed'
<1>1. PICK k \in turnStart + 1..Len(msgs) + 1 :
        /\ k = Len(msgs) + 1 \/ msgs[k].role = "assistant"
        /\ IsSeq(msgs') /\ turnStart' \in Nat \ {0} /\ Len(msgs) \in Nat
        /\ Len(msgs') = turnStart' + (Len(msgs) - k + 1)
        /\ msgs'[turnStart'].role = "user"
        /\ \A i \in k..Len(msgs) : msgs'[turnStart' + 1 + (i - k)] = msgs[i]
  BY Compacted
<1>2. turnStart \in Nat /\ turnStart >= 1 /\ turnStart <= Len(msgs)
      /\ Complete(msgs, turnStart, Len(msgs))
  BY <1>1 DEF Formed, CompactTurn
<1>3. k \in turnStart..Len(msgs) + 1 /\ turnStart' >= 1 /\ Len(msgs') \in Nat
      /\ turnStart' \in 1..Len(msgs')
  BY <1>1, <1>2
<1>4. Complete(msgs', turnStart', Len(msgs'))
  <2>1. TailOf(msgs, turnStart, Len(msgs), k, msgs', turnStart', Len(msgs'))
    BY <1>1, <1>2, <1>3 DEF TailOf
  <2> QED
    BY <1>2, <2>1, TailComplete
<1>5. pc' = "asking" /\ skipped' = skipped
  BY DEF CompactTurn, calls
<1> QED
  BY <1>1, <1>3, <1>4, <1>5 DEF Formed

LEMMA FormedContinue ==
  ASSUME Formed, NextTurn \/ NextTurnCompacted
  PROVE  Formed'
<1>1. PICK past : IsSeq(past) /\ Continue(past)
  BY PastIs DEF NextTurn, NextTurnCompacted, Formed
<1>2. /\ IsSeq(msgs') /\ Len(past) \in Nat /\ Len(msgs') = Len(past) + 1
      /\ msgs'[Len(past) + 1] = User
  BY <1>1, AppendIs DEF Continue
<1>3. turnStart' = Len(past) + 1 /\ pc' = "top" /\ IsSeq(skipped')
  BY <1>1, ShortIs DEF Continue
<1>4. \A i \in turnStart'..Len(msgs') : msgs'[i].role = "user"
  BY <1>2, <1>3 DEF User, Message
<1>5. Complete(msgs', turnStart', Len(msgs'))
  BY <1>4 DEF Complete
<1> QED
  BY <1>2, <1>3, <1>5 DEF Formed

(* Messages that make and answer no call may follow at the head of the loop. *)
LEMMA FormedMore ==
  ASSUME Formed, pc = "asking" \/ (pc = "tools" /\ batch = <<>> /\ skipped = <<>>),
         IsSeq(msgs'), Len(msgs') >= Len(msgs), \A i \in 1..Len(msgs) : msgs'[i] = msgs[i],
         \A i \in Len(msgs) + 1..Len(msgs') :
           msgs'[i].role # "tool" /\ (msgs'[i].role = "assistant" => msgs'[i].ids = {}),
         UNCHANGED <<turnStart, skipped>>, pc' = "top"
  PROVE  Formed'
<1>1. /\ Len(msgs) \in Nat /\ Len(msgs') \in Nat /\ turnStart \in Nat /\ turnStart >= 1
      /\ turnStart <= Len(msgs)
  BY DEF Formed, IsSeq
<1>2. Complete(msgs, turnStart, Len(msgs))
  <2>1. CASE pc = "asking"
    BY <2>1 DEF Formed
  <2>2. CASE pc = "tools"
    <3>1. PICK a \in turnStart..Len(msgs) : \E f, n \in Nat : InBatch(a, f, n)
      BY <2>2 DEF Formed
    <3>2. PICK f \in Nat, n \in Nat : InBatch(a, f, n)
      BY <3>1
    <3>3. Len(batch) = 0 /\ Len(skipped) = 0
      BY <2>2, ShortIs
    <3>4. Len(msgs) - a = n /\ a + n = Len(msgs)
      BY <1>1, <3>2, <3>3 DEF InBatch
    <3>5. Answered(msgs, a, f, n, n) /\ Complete(msgs, turnStart, a - 1)
      BY <3>2, <3>4 DEF InBatch
    <3> QED
      BY <1>1, <3>4, <3>5, BatchDone
  <2> QED
    BY <2>1, <2>2
<1>3. Complete(msgs', turnStart, Len(msgs'))
  <2> DEFINE e == Len(msgs)
             d == Len(msgs')
             t == msgs'
  <2>1. /\ e \in Nat /\ d \in Nat /\ e <= d /\ Complete(msgs, turnStart, e)
        /\ \A i \in 1..e : t[i] = msgs[i]
        /\ \A i \in e + 1..d : t[i].role # "tool" /\ (t[i].role = "assistant" => t[i].ids = {})
    BY <1>1, <1>2
  <2> HIDE DEF e, d, t
  <2>2. Complete(t, turnStart, d)
    BY <1>1, <2>1, MoreMessages
  <2> QED
    BY <2>2 DEF d, t
<1>4. turnStart' \in 1..Len(msgs')
  BY <1>1
<1> QED
  BY <1>3, <1>4 DEF Formed

(* What a step that ends the turn must keep.                                 *)
LEMMA FormedEnd ==
  ASSUME Formed, IsSeq(msgs'), Len(msgs') >= Len(msgs), UNCHANGED <<turnStart, skipped>>, pc' = "ended"
  PROVE  Formed'
<1>1. turnStart' \in 1..Len(msgs')
  BY DEF Formed, IsSeq
<1> QED
  BY <1>1 DEF Formed

(* The messages behind a batch.                                              *)
LEMMA AfterBatchIs ==
  ASSUME Formed
  PROVE  /\ IsSeq(AfterBatch) /\ Len(AfterBatch) >= Len(msgs)
         /\ \A i \in 1..Len(msgs) : AfterBatch[i] = msgs[i]
         /\ \A i \in Len(msgs) + 1..Len(AfterBatch) :
              AfterBatch[i] = User \/ \E k \in DOMAIN skipped : AfterBatch[i] = Responds(skipped[k])
<1> DEFINE nudge == IF gate.deferred THEN <<User>> ELSE <<>>
           front == msgs \o nudge
           answers == [i \in DOMAIN skipped |-> Responds(skipped[i])]
<1>1. IsSeq(msgs) /\ IsSeq(skipped) /\ Len(msgs) \in Nat /\ Len(skipped) \in Nat
  BY DEF Formed, IsSeq
<1>2. /\ IsSeq(nudge) /\ Len(nudge) \in Nat
      /\ \A i \in 1..Len(nudge) : nudge[i] = User
  <2>1. IsSeq(<<User>>) /\ Len(<<User>>) = 1 /\ IsSeq(<<>>) /\ Len(<<>>) = 0 /\ <<User>>[1] = User
    BY ShortIs
  <2>2. CASE gate.deferred
    <3>1. nudge = <<User>>
      BY <2>2
    <3>2. \A i \in 1..1 : i = 1
      OBVIOUS
    <3> HIDE DEF nudge
    <3> QED
      BY <2>1, <3>1, <3>2
  <2>3. CASE ~gate.deferred
    <3>1. nudge = <<>>
      BY <2>3
    <3>2. \A i \in 1..0 : FALSE
      OBVIOUS
    <3> HIDE DEF nudge
    <3> QED
      BY <2>1, <3>1, <3>2
  <2> QED
    BY <2>2, <2>3
<1>3. DOMAIN skipped = 1..Len(skipped)
  BY <1>1 DEF IsSeq
<1>4. /\ IsSeq(answers) /\ Len(answers) = Len(skipped)
      /\ \A i \in 1..Len(skipped) : answers[i] = Responds(skipped[i])
  <2>1. answers \in Seq({Responds(skipped[i]) : i \in DOMAIN skipped}) /\ Len(answers) = Len(skipped)
    BY <1>1, <1>3
  <2> QED
    BY <1>3, <2>1 DEF IsSeq
<1> HIDE DEF nudge, answers
<1>5. IsSeq(front)
  BY <1>1, <1>2, ConcatIs
<1>6. Len(front) = Len(msgs) + Len(nudge)
  BY <1>1, <1>2, ConcatIs
<1>7. \A i \in 1..Len(msgs) : front[i] = msgs[i]
  BY <1>1, <1>2, ConcatIs
<1>8. \A i \in 1..Len(nudge) : front[Len(msgs) + i] = User
  BY <1>1, <1>2, ConcatIs
<1> HIDE DEF front
<1>17. IsSeq(answers)
  BY <1>4
<1>9. AfterBatch = front \o answers
  BY DEF AfterBatch, front, nudge, answers
<1>10. IsSeq(AfterBatch)
  BY <1>5, <1>9, <1>17, ConcatIs
<1>11. Len(AfterBatch) = Len(front) + Len(answers)
  BY <1>5, <1>9, <1>17, ConcatIs
<1>12. \A i \in 1..Len(front) : AfterBatch[i] = front[i]
  BY <1>5, <1>9, <1>17, ConcatIs
<1>13. \A i \in 1..Len(answers) : AfterBatch[Len(front) + i] = answers[i]
  BY <1>5, <1>9, <1>17, ConcatIs
<1>14. ASSUME NEW i \in Len(msgs) + 1..Len(AfterBatch)
       PROVE  AfterBatch[i] = User \/ \E k \in DOMAIN skipped : AfterBatch[i] = Responds(skipped[k])
  <2>1. CASE i <= Len(front)
    <3>1. i - Len(msgs) \in 1..Len(nudge) /\ Len(msgs) + (i - Len(msgs)) = i /\ i \in 1..Len(front)
      BY <1>1, <1>2, <1>6, <2>1
    <3> QED
      BY <1>8, <1>12, <3>1
  <2>2. CASE i > Len(front)
    <3>1. i - Len(front) \in 1..Len(skipped) /\ Len(front) + (i - Len(front)) = i
      BY <1>1, <1>2, <1>4, <1>6, <1>11, <2>2
    <3> QED
      BY <1>3, <1>4, <1>13, <3>1
  <2> QED
    BY <1>1, <1>2, <1>6, <2>1, <2>2
<1>15. Len(AfterBatch) >= Len(msgs)
  BY <1>1, <1>2, <1>4, <1>6, <1>11
<1>16. \A i \in 1..Len(msgs) : AfterBatch[i] = msgs[i]
  BY <1>1, <1>2, <1>6, <1>7, <1>12
<1> QED
  BY <1>10, <1>14, <1>15, <1>16

LEMMA FormedSettle ==
  ASSUME Formed, Settle
  PROVE  Formed'
<1>1. UNCHANGED <<turnStart, skipped>> /\ pc = "tools" /\ batch = <<>>
  BY DEF Settle, calls
<1>2. /\ IsSeq(AfterBatch) /\ Len(AfterBatch) >= Len(msgs) /\ Len(msgs) \in Nat
      /\ Len(AfterBatch) \in Nat
      /\ \A i \in 1..Len(msgs) : AfterBatch[i] = msgs[i]
  BY AfterBatchIs DEF Formed, IsSeq
<1>3. CASE pc' = "ended"
  <2>1. msgs' = AfterBatch
    BY <1>3 DEF Settle
  <2> QED
    BY <1>1, <1>2, <1>3, <2>1, FormedEnd
<1>4. CASE pc' # "ended"
  <2>1. skipped = <<>> /\ pc' = "top" /\ (msgs' = AfterBatch \/ msgs' = Append(AfterBatch, User))
    BY <1>4 DEF Settle, OutOfBudget, End
  <2>2. \A i \in Len(msgs) + 1..Len(AfterBatch) : AfterBatch[i] = User
    <3>1. DOMAIN skipped = {}
      BY <2>1
    <3> QED
      BY <3>1, AfterBatchIs
  <2>3. User.role = "user"
    BY DEF User, Message
  <2>4. CASE msgs' = AfterBatch
    <3>1. \A i \in Len(msgs) + 1..Len(msgs') : msgs'[i].role = "user"
      BY <2>2, <2>3, <2>4
    <3>2. IsSeq(msgs') /\ Len(msgs') >= Len(msgs) /\ \A i \in 1..Len(msgs) : msgs'[i] = msgs[i]
      BY <1>2, <2>4
    <3> QED
      BY <1>1, <2>1, <3>1, <3>2, FormedMore
  <2>5. CASE msgs' = Append(AfterBatch, User)
    <3>1. /\ IsSeq(msgs') /\ Len(msgs') = Len(AfterBatch) + 1
          /\ \A i \in 1..Len(AfterBatch) : msgs'[i] = AfterBatch[i]
          /\ msgs'[Len(AfterBatch) + 1] = User
      BY <1>2, <2>5, AppendIs
    <3>2. \A i \in Len(msgs) + 1..Len(msgs') : msgs'[i].role = "user"
      <4> SUFFICES ASSUME NEW i \in Len(msgs) + 1..Len(msgs') PROVE msgs'[i] = User
        BY <2>3
      <4>1. i \in Len(msgs) + 1..Len(AfterBatch) \/ i = Len(AfterBatch) + 1
        BY <1>2, <3>1
      <4>2. i \in Len(msgs) + 1..Len(AfterBatch) => i \in 1..Len(AfterBatch)
        BY <1>2
      <4> QED
        BY <2>2, <3>1, <4>1, <4>2
    <3>3. Len(msgs') >= Len(msgs) /\ \A i \in 1..Len(msgs) : msgs'[i] = msgs[i]
      BY <1>2, <3>1
    <3> QED
      BY <1>1, <2>1, <3>1, <3>2, <3>3, FormedMore
  <2> QED
    BY <2>1, <2>4, <2>5
<1> QED
  BY <1>3, <1>4

LEMMA FormedPending ==
  ASSUME Formed, PendingReply
  PROVE  Formed'
<1>1. UNCHANGED <<turnStart, skipped>> /\ pc = "asking" /\ IsSeq(msgs)
  BY DEF PendingReply, calls, Formed
<1>2. CASE nudges.pending >= MaxPendingWorkNudges
  <2>1. msgs' = Append(msgs, Answer) /\ pc' = "ended"
    BY <1>2 DEF PendingReply, End
  <2>2. IsSeq(msgs') /\ Len(msgs') = Len(msgs) + 1 /\ Len(msgs) \in Nat
    BY <1>1, <2>1, AppendIs
  <2>3. Len(msgs') >= Len(msgs)
    BY <2>2
  <2> QED
    BY <1>1, <2>1, <2>2, <2>3, FormedEnd
<1>3. CASE ~(nudges.pending >= MaxPendingWorkNudges)
  <2>1. msgs' = msgs \o <<Answer, User>> /\ pc' = "top"
    BY <1>3 DEF PendingReply
  <2>2. IsSeq(<<Answer, User>>) /\ Len(<<Answer, User>>) = 2
    BY ShortIs
  <2>3. /\ Answer.role = "assistant" /\ Answer.ids = {} /\ User.role = "user"
        /\ <<Answer, User>>[1] = Answer /\ <<Answer, User>>[2] = User
    BY DEF Answer, User, Message
  <2> DEFINE more == <<Answer, User>>
  <2> HIDE DEF more
  <2>4. IsSeq(more) /\ Len(more) = 2 /\ msgs' = msgs \o more
    BY <2>1, <2>2 DEF more
  <2>5. IsSeq(msgs') /\ Len(msgs) \in Nat
    <3>1. IsSeq(more)
      BY <2>4
    <3> QED
      BY <1>1, <2>4, <3>1, ConcatIs
  <2>13. IsSeq(more) /\ 1 \in 1..Len(more) /\ 2 \in 1..Len(more)
    BY <2>4
  <2>16. Len(msgs \o more) = Len(msgs) + Len(more)
    BY <1>1, <2>13, ConcatIs
  <2>6. Len(msgs') = Len(msgs) + 2
    BY <2>4, <2>16
  <2>14. \A i \in 1..Len(msgs) : (msgs \o more)[i] = msgs[i]
    BY <1>1, <2>13, ConcatIs
  <2>15. \A i \in 1..Len(more) : (msgs \o more)[Len(msgs) + i] = more[i]
    BY <1>1, <2>13, ConcatIs
  <2>7. \A i \in 1..Len(msgs) : msgs'[i] = msgs[i]
    BY <2>4, <2>14
  <2>8. msgs'[Len(msgs) + 1] = more[1] /\ msgs'[Len(msgs) + 2] = more[2]
    BY <2>4, <2>13, <2>15
  <2>9. msgs'[Len(msgs) + 1] = Answer /\ msgs'[Len(msgs) + 2] = User
    BY <2>3, <2>8 DEF more
  <2>10. \A i \in Len(msgs) + 1..Len(msgs') : i = Len(msgs) + 1 \/ i = Len(msgs) + 2
    BY <2>5, <2>6
  <2>11. \A i \in Len(msgs) + 1..Len(msgs') :
           msgs'[i].role # "tool" /\ (msgs'[i].role = "assistant" => msgs'[i].ids = {})
    BY <2>3, <2>9, <2>10
  <2>12. Len(msgs') >= Len(msgs)
    BY <2>5, <2>6
  <2> QED
    BY <1>1, <2>1, <2>5, <2>7, <2>11, <2>12, FormedMore
<1> QED
  BY <1>2, <1>3

LEMMA FormedStep == Counted /\ Formed /\ [Next]_vars => Formed'
<1> SUFFICES ASSUME Counted, Formed, [Next]_vars PROVE Formed'
  OBVIOUS
<1>1. CASE CutCall \/ MalformedCall \/ Defer \/ ToolFails
           \/ (\E nonzero \in BOOLEAN : ToolReturns(nonzero))
  <2>1. /\ pc \in {"tools", "running"} /\ Respond /\ NextCall
        /\ UNCHANGED <<turnStart, skipped, fresh>>
    BY <1>1 DEF CutCall, MalformedCall, Defer, ToolFails, ToolReturns, AtCall
  <2>2. batch # <<>>
    BY <1>1 DEF CutCall, MalformedCall, Defer, ToolFails, ToolReturns, AtCall, Counted
  <2> QED
    BY <2>1, <2>2, FormedAnswer
<1>2. CASE Abort \/ RunTool \/ Overflow \/ (\E tooLong \in BOOLEAN : Iterate(tooLong))
           \/ UNCHANGED vars
  <2>1. UNCHANGED <<msgs, turnStart, batch, skipped, fresh>>
    BY <1>2 DEF Abort, RunTool, Overflow, Iterate, vars, calls
  <2>2. /\ pc' \in {"top", "compacting", "asking"} => pc \in {"top", "compacting", "asking"}
        /\ pc' \in {"tools", "running"} => pc \in {"tools", "running"}
    BY <1>2 DEF Abort, RunTool, Overflow, Iterate, AtCall, vars
  <2>3. \A a, f, n : InBatch(a, f, n) => InBatch(a, f, n)'
    BY <2>1 DEF InBatch
  <2>4. pc \in {"top", "compacting", "asking"} => Complete(msgs, turnStart, Len(msgs))'
    BY <2>1 DEF Formed
  <2> HIDE DEF InBatch
  <2>5. pc \in {"tools", "running"} =>
          \E a \in turnStart'..Len(msgs') : \E f, n \in Nat : InBatch(a, f, n)'
    BY <2>1, <2>3 DEF Formed
  <2> QED
    BY <2>1, <2>2, <2>4, <2>5 DEF Formed
<1>3. CASE LimitReached \/ StopAtTop \/ CompactAborted \/ RequestFails \/ StopAtCall \/ ToolAborted
  <2>1. UNCHANGED <<msgs, turnStart, skipped>> /\ pc' = "ended"
    BY <1>3 DEF LimitReached, StopAtTop, CompactAborted, RequestFails, StopAtCall, ToolAborted,
                End, calls
  <2>2. Len(msgs') >= Len(msgs) /\ IsSeq(msgs')
    BY <2>1 DEF Formed, IsSeq
  <2> QED
    BY <2>1, <2>2, FormedEnd
<1>4. CASE FinalReply
  <2>1. msgs' = Append(msgs, Answer) /\ UNCHANGED <<turnStart, skipped>> /\ pc' = "ended"
    BY <1>4 DEF FinalReply, End, calls
  <2>2. IsSeq(msgs') /\ Len(msgs') = Len(msgs) + 1 /\ Len(msgs) \in Nat
    BY <2>1, AppendIs DEF Formed
  <2>3. Len(msgs') >= Len(msgs)
    BY <2>2
  <2> QED
    BY <2>1, <2>2, <2>3, FormedEnd
<1>5. CASE CompactTurn
  BY <1>5, FormedCompact
<1>6. CASE PendingReply
  BY <1>6, FormedPending
<1>7. CASE ToolReply
  BY <1>7, FormedReply
<1>8. CASE Settle
  BY <1>8, FormedSettle
<1>9. CASE NextTurn \/ NextTurnCompacted
  BY <1>9, FormedContinue
<1> QED
  BY <1>1, <1>2, <1>3, <1>4, <1>5, <1>6, <1>7, <1>8, <1>9 DEF Next, Step

(* Whatever was deferred, cut off, put off by the budget, nudged or          *)
(* compacted: what a turn adds to its history is, in every request, a        *)
(* sequence in which each call is answered once and in its place.            *)
THEOREM RequestsCorrect == Spec => []RequestsWellFormed
<1>1. Counted /\ [Next]_vars => Counted'
  BY CountedStep
<1>2. Formed => RequestsWellFormed
  BY CompleteIsWellFormed DEF Formed, RequestsWellFormed
<1> QED
  BY <1>1, <1>2, CountedInit, FormedInit, FormedStep, PTL DEF Spec

-----------------------------------------------------------------------------
(* The strengthening of WorkIsRecorded: a tool that returned has its message *)
(* behind the task, and every later message that names its call is another   *)
(* answer to it, so no tail can keep the call and lose the answer.           *)
Tells(m, id) == m.role = "tool" /\ m.ids = {id}

ToldIn(s, b, id) ==
  \E j \in b + 1..Len(s) :
    Tells(s[j], id) /\ \A i \in j + 1..Len(s) : id \in s[i].ids => Tells(s[i], id)

Recorded ==
  \A id \in finished : id \in Nat /\ id < fresh /\ ToldIn(msgs, turnStart, id)

(* Messages that follow do not take the record back.                         *)
LEMMA StaysTold ==
  ASSUME NEW s, NEW t, NEW b \in Nat, NEW id, Len(s) \in Nat, Len(t) \in Nat, Len(s) <= Len(t),
         \A i \in 1..Len(s) : t[i] = s[i], ToldIn(s, b, id),
         \A i \in Len(s) + 1..Len(t) : id \in t[i].ids => Tells(t[i], id)
  PROVE  ToldIn(t, b, id)
<1>1. PICK j \in b + 1..Len(s) :
        Tells(s[j], id) /\ \A i \in j + 1..Len(s) : id \in s[i].ids => Tells(s[i], id)
  BY DEF ToldIn
<1>2. j \in b + 1..Len(t) /\ Tells(t[j], id)
  BY <1>1
<1>3. \A i \in j + 1..Len(t) : id \in t[i].ids => Tells(t[i], id)
  BY <1>1
<1> QED
  BY <1>2, <1>3 DEF ToldIn

(* The call that is answered is one the provider asked for.                  *)
LEMMA CallIsOld ==
  ASSUME Counted, Formed, pc \in {"tools", "running"}, batch # <<>>
  PROVE  Call.id \in Nat /\ Call.id < fresh
<1>1. PICK a \in turnStart..Len(msgs) : \E f, n \in Nat : InBatch(a, f, n)
  BY DEF Formed
<1>2. PICK f \in Nat, n \in Nat : InBatch(a, f, n)
  BY <1>1
<1>3. Len(batch) \in Nat /\ Len(batch) >= 1 /\ Call = batch[1] /\ Call \in CallRecords
  BY TakeCall DEF Counted, Call
<1>4. Len(skipped) \in Nat /\ Len(msgs) \in Nat /\ turnStart \in Nat /\ Len(msgs) - a \in Nat
  BY DEF Formed, IsSeq
<1>5. Call.id = f + (Len(msgs) - a) + 1 - 1
  BY <1>2, <1>3 DEF InBatch
<1>6. (Len(msgs) - a) + Len(batch) + Len(skipped) = n /\ f + n <= fresh
  BY <1>2 DEF InBatch
<1> QED
  BY <1>3, <1>4, <1>5, <1>6 DEF Counted

LEMMA RecordedAnswer ==
  ASSUME Counted, Formed, Recorded, pc \in {"tools", "running"}, batch # <<>>, Respond,
         UNCHANGED <<turnStart, fresh>>, finished' = finished \/ finished' = finished \cup {Call.id}
  PROVE  Recorded'
<1>1. /\ IsSeq(msgs') /\ Len(msgs) \in Nat /\ Len(msgs') = Len(msgs) + 1
      /\ \A i \in 1..Len(msgs) : msgs'[i] = msgs[i]
      /\ msgs'[Len(msgs) + 1] = Responds(Call)
  BY AppendIs DEF Respond, Formed
<1>2. turnStart \in Nat /\ turnStart <= Len(msgs)
  BY <1>1 DEF Formed
<1>3. \A id : id \in Responds(Call).ids => id = Call.id /\ Tells(Responds(Call), id)
  BY DEF Responds, Message, Tells
<1>4. Call.id \in Nat /\ Call.id < fresh
  BY CallIsOld
<1>5. ASSUME NEW id \in finished PROVE ToldIn(msgs', turnStart, id)
  <2>1. ToldIn(msgs, turnStart, id)
    BY <1>5 DEF Recorded
  <2>2. \A i \in Len(msgs) + 1..Len(msgs') : i = Len(msgs) + 1
    BY <1>1
  <2>3. \A i \in Len(msgs) + 1..Len(msgs') : id \in msgs'[i].ids => Tells(msgs'[i], id)
    BY <1>1, <1>3, <2>2
  <2>4. Len(msgs') \in Nat /\ Len(msgs) <= Len(msgs')
    BY <1>1
  <2> QED
    BY <1>1, <1>2, <2>1, <2>3, <2>4, StaysTold
<1>6. ToldIn(msgs', turnStart, Call.id)
  <2>1. Len(msgs) + 1 \in turnStart + 1..Len(msgs') /\ \A i \in (Len(msgs) + 1) + 1..Len(msgs') : FALSE
    BY <1>1, <1>2
  <2>2. Tells(msgs'[Len(msgs) + 1], Call.id)
    BY <1>1 DEF Responds, Message, Tells
  <2> QED
    BY <2>1, <2>2 DEF ToldIn
<1> QED
  BY <1>4, <1>5, <1>6 DEF Recorded

(* A step that only appends messages which name no finished call.            *)
LEMMA RecordedMore ==
  ASSUME Formed, Recorded, UNCHANGED <<turnStart, finished>>, fresh \in Nat, fresh' \in Nat,
         fresh' >= fresh, Len(msgs') \in Nat, Len(msgs') >= Len(msgs),
         \A i \in 1..Len(msgs) : msgs'[i] = msgs[i],
         \A i \in Len(msgs) + 1..Len(msgs') : \A id \in msgs'[i].ids :
           (id \in Nat => id >= fresh) \/ Tells(msgs'[i], id)
  PROVE  Recorded'
<1>1. Len(msgs) \in Nat /\ turnStart \in Nat
  BY DEF Formed, IsSeq
<1> SUFFICES ASSUME NEW id \in finished
             PROVE  id \in Nat /\ id < fresh' /\ ToldIn(msgs', turnStart, id)
  BY DEF Recorded
<1>2. id \in Nat /\ id < fresh /\ ToldIn(msgs, turnStart, id)
  BY DEF Recorded
<1>3. \A i \in Len(msgs) + 1..Len(msgs') : id \in msgs'[i].ids => Tells(msgs'[i], id)
  BY <1>2
<1>4. ToldIn(msgs', turnStart, id)
  BY <1>1, <1>2, <1>3, StaysTold
<1> QED
  BY <1>2, <1>4

LEMMA RecordedCompact ==
  ASSUME Formed, Recorded, CompactTurn
  PROVE  Recorded'
<1>1. PICK k \in turnStart + 1..Len(msgs) + 1 :
        /\ k = Len(msgs) + 1 \/ msgs[k].role = "assistant"
        /\ IsSeq(msgs') /\ turnStart' \in Nat \ {0} /\ Len(msgs) \in Nat
        /\ Len(msgs') = turnStart' + (Len(msgs) - k + 1)
        /\ msgs'[turnStart'].role = "user"
        /\ \A i \in k..Len(msgs) : msgs'[turnStart' + 1 + (i - k)] = msgs[i]
        /\ finished' = finished \cap UNION {msgs[i].ids : i \in k..Len(msgs)}
  BY Compacted
<1>2. turnStart \in Nat /\ fresh' = fresh
  BY <1>1 DEF Formed, CompactTurn
<1> SUFFICES ASSUME NEW id \in finished'
             PROVE  id \in Nat /\ id < fresh /\ ToldIn(msgs', turnStart', id)
  BY <1>2 DEF Recorded
<1>3. id \in finished /\ id \in Nat /\ id < fresh /\ ToldIn(msgs, turnStart, id)
  BY <1>1 DEF Recorded
<1>4. PICK j \in turnStart + 1..Len(msgs) :
        /\ Tells(msgs[j], id)
        /\ \A i \in j + 1..Len(msgs) : id \in msgs[i].ids => Tells(msgs[i], id)
  BY <1>3 DEF ToldIn
<1>5. PICK p \in k..Len(msgs) : id \in msgs[p].ids
  BY <1>1
<1>6. PICK q \in k..Len(msgs) :
        /\ Tells(msgs[q], id)
        /\ \A i \in q + 1..Len(msgs) : id \in msgs[i].ids => Tells(msgs[i], id)
  <2>1. CASE p <= j
    <3>1. j \in k..Len(msgs)
      BY <1>1, <1>2, <2>1
    <3> QED
      BY <1>4, <3>1
  <2>2. CASE p > j
    <3>1. p \in j + 1..Len(msgs) /\ \A i \in p + 1..Len(msgs) : i \in j + 1..Len(msgs)
      BY <1>1, <1>2, <2>2
    <3> QED
      BY <1>4, <1>5, <3>1
  <2> QED
    BY <1>1, <1>2, <2>1, <2>2
<1>7. PICK c \in Nat : c = turnStart' /\ Len(msgs') = c + (Len(msgs) - k + 1)
  BY <1>1
<1>11. k \in Nat /\ q \in Nat /\ Len(msgs) \in Nat /\ k <= q /\ q <= Len(msgs)
  BY <1>1, <1>2, <1>6
<1>12. \A i \in k..Len(msgs) : msgs'[c + 1 + (i - k)] = msgs[i]
  BY <1>1, <1>7
<1> DEFINE x == c + 1 + (q - k)
<1>8. x \in c + 1..Len(msgs') /\ Tells(msgs'[x], id)
  <2> DEFINE e == Len(msgs)
             d == Len(msgs')
  <2>3. c \in Nat /\ k \in Nat /\ q \in Nat /\ e \in Nat /\ k <= q /\ q <= e /\ d = c + (e - k + 1)
    BY <1>7, <1>11
  <2> HIDE DEF e, d
  <2>4. x \in c + 1..d /\ q \in k..e
    BY <2>3
  <2>1. x \in c + 1..Len(msgs') /\ q \in k..Len(msgs)
    BY <2>4 DEF d, e
  <2>2. msgs'[x] = msgs[q]
    BY <1>12, <2>1
  <2> QED
    BY <1>6, <2>1, <2>2
<1>9. ASSUME NEW i \in x + 1..Len(msgs'), id \in msgs'[i].ids PROVE Tells(msgs'[i], id)
  <2> DEFINE h == i - c - 1 + k
             e == Len(msgs)
             d == Len(msgs')
  <2>3. /\ c \in Nat /\ k \in Nat /\ q \in Nat /\ e \in Nat /\ k <= q /\ q <= e /\ d = c + (e - k + 1)
        /\ i \in x + 1..d
    BY <1>7, <1>11
  <2> HIDE DEF e, d
  <2>4. h \in q + 1..e /\ h \in k..e /\ i = c + 1 + (h - k)
    BY <2>3
  <2>1. h \in q + 1..Len(msgs) /\ h \in k..Len(msgs) /\ i = c + 1 + (h - k)
    BY <2>4 DEF e
  <2> HIDE DEF h
  <2>2. msgs'[i] = msgs[h]
    BY <1>12, <2>1
  <2> QED
    BY <1>6, <1>9, <2>1, <2>2
<1> HIDE DEF x
<1>10. ToldIn(msgs', c, id)
  BY <1>8, <1>9 DEF ToldIn
<1> QED
  BY <1>3, <1>7, <1>10

LEMMA RecordedStep == Counted /\ Formed /\ Recorded /\ [Next]_vars => Recorded'
<1> SUFFICES ASSUME Counted, Formed, Recorded, [Next]_vars PROVE Recorded'
  OBVIOUS
<1>0. Len(msgs) \in Nat /\ turnStart \in Nat /\ fresh \in Nat /\ IsSeq(msgs)
  BY DEF Formed, IsSeq, Counted
<1>1. CASE CutCall \/ MalformedCall \/ Defer \/ ToolFails
           \/ (\E nonzero \in BOOLEAN : ToolReturns(nonzero))
  <2>1. /\ pc \in {"tools", "running"} /\ Respond /\ UNCHANGED <<turnStart, fresh>>
        /\ finished' = finished \/ finished' = finished \cup {Call.id}
    BY <1>1 DEF CutCall, MalformedCall, Defer, ToolFails, ToolReturns, AtCall, history
  <2>2. batch # <<>>
    BY <1>1 DEF CutCall, MalformedCall, Defer, ToolFails, ToolReturns, AtCall, Counted
  <2> QED
    BY <2>1, <2>2, RecordedAnswer
<1>2. CASE Abort \/ RunTool \/ Overflow \/ (\E tooLong \in BOOLEAN : Iterate(tooLong))
           \/ LimitReached \/ StopAtTop \/ CompactAborted \/ RequestFails \/ StopAtCall
           \/ ToolAborted \/ UNCHANGED vars
  <2>1. UNCHANGED <<msgs, turnStart, fresh, finished>>
    BY <1>2 DEF Abort, RunTool, Overflow, Iterate, vars, LimitReached, StopAtTop, CompactAborted,
                RequestFails, StopAtCall, ToolAborted, history
  <2> QED
    BY <2>1 DEF Recorded, ToldIn
<1>3. CASE FinalReply \/ PendingReply
  <2>1. UNCHANGED <<turnStart, fresh, finished>>
        /\ (msgs' = Append(msgs, Answer) \/ msgs' = msgs \o <<Answer, User>>)
    BY <1>3 DEF FinalReply, PendingReply, history
  <2>2. Answer.ids = {} /\ User.ids = {}
    BY DEF Answer, User, Message
  <2>3. CASE msgs' = Append(msgs, Answer)
    <3>1. /\ Len(msgs') = Len(msgs) + 1 /\ msgs'[Len(msgs) + 1] = Answer
          /\ \A i \in 1..Len(msgs) : msgs'[i] = msgs[i]
      BY <1>0, <2>3, AppendIs
    <3>2. \A i \in Len(msgs) + 1..Len(msgs') : msgs'[i].ids = {}
      BY <1>0, <2>2, <3>1
    <3>3. Len(msgs') \in Nat /\ Len(msgs') >= Len(msgs) /\ fresh' \in Nat /\ fresh' >= fresh
      BY <1>0, <2>1, <3>1
    <3> QED
      BY <1>0, <2>1, <3>1, <3>2, <3>3, RecordedMore
  <2>4. CASE msgs' = msgs \o <<Answer, User>>
    <3> DEFINE more == <<Answer, User>>
    <3>1. IsSeq(more) /\ Len(more) = 2 /\ \A i \in 1..2 : more[i].ids = {}
      <4>1. IsSeq(more) /\ Len(more) = 2
        BY ShortIs
      <4>2. more[1].ids = {} /\ more[2].ids = {}
        BY <2>2
      <4>3. \A i \in 1..2 : i = 1 \/ i = 2
        OBVIOUS
      <4> HIDE DEF more
      <4> QED
        BY <4>1, <4>2, <4>3
    <3> HIDE DEF more
    <3>9. IsSeq(more)
      BY <3>1
    <3>2. msgs' = msgs \o more
      BY <2>4 DEF more
    <3>3. Len(msgs \o more) = Len(msgs) + Len(more)
      BY <1>0, <3>9, ConcatIs
    <3>4. \A i \in 1..Len(msgs) : (msgs \o more)[i] = msgs[i]
      BY <1>0, <3>9, ConcatIs
    <3>10. IsSeq(msgs)
      BY <1>0
    <3>5. \A i \in 1..Len(more) : (msgs \o more)[Len(msgs) + i] = more[i]
      BY <3>9, <3>10, ConcatBehind
    <3>6. \A i \in Len(msgs) + 1..Len(msgs') : i - Len(msgs) \in 1..2 /\ Len(msgs) + (i - Len(msgs)) = i
      BY <1>0, <3>1, <3>2, <3>3
    <3>7. \A i \in Len(msgs) + 1..Len(msgs') : msgs'[i].ids = {}
      BY <3>1, <3>2, <3>5, <3>6
    <3>8. Len(msgs') \in Nat /\ Len(msgs') >= Len(msgs) /\ fresh' \in Nat /\ fresh' >= fresh
      BY <1>0, <2>1, <3>1, <3>2, <3>3
    <3> QED
      BY <1>0, <2>1, <3>2, <3>4, <3>7, <3>8, RecordedMore
  <2> QED
    BY <2>1, <2>3, <2>4
<1>4. CASE CompactTurn
  BY <1>4, RecordedCompact
<1>5. CASE ToolReply
  <2>1. PICK n \in 1..MaxBatch : \E acts \in [1..n -> Acts] :
          LET all == [i \in 1..n |-> [id |-> fresh + i - 1, act |-> acts[i]]]
          IN msgs' = Append(msgs, Asks({all[i].id : i \in 1..n})) /\ fresh' = fresh + n
    BY <1>5 DEF ToolReply
  <2>2. PICK acts \in [1..n -> Acts] :
          LET all == [i \in 1..n |-> [id |-> fresh + i - 1, act |-> acts[i]]]
          IN msgs' = Append(msgs, Asks({all[i].id : i \in 1..n})) /\ fresh' = fresh + n
    BY <2>1
  <2> DEFINE all == [i \in 1..n |-> [id |-> fresh + i - 1, act |-> acts[i]]]
             ids == {all[i].id : i \in 1..n}
  <2>3. n \in Nat /\ n >= 1
    OBVIOUS
  <2>4. \A id \in ids : id >= fresh
    <3>1. \A i \in 1..n : all[i].id = fresh + i - 1
      OBVIOUS
    <3> HIDE DEF all
    <3> QED
      BY <1>0, <2>3, <3>1
  <2>5. msgs' = Append(msgs, Asks(ids)) /\ fresh' = fresh + n
    BY <2>2
  <2> HIDE DEF ids
  <2>6. /\ Len(msgs') = Len(msgs) + 1 /\ msgs'[Len(msgs) + 1] = Asks(ids)
        /\ \A i \in 1..Len(msgs) : msgs'[i] = msgs[i]
    BY <1>0, <2>5, AppendIs
  <2>7. \A i \in Len(msgs) + 1..Len(msgs') : \A id \in msgs'[i].ids : id >= fresh
    BY <1>0, <2>4, <2>6 DEF Asks, Message
  <2>8. Len(msgs') \in Nat /\ Len(msgs') >= Len(msgs) /\ fresh' \in Nat /\ fresh' >= fresh
    BY <1>0, <2>3, <2>5, <2>6
  <2>9. UNCHANGED <<turnStart, finished>>
    BY <1>5 DEF ToolReply, history
  <2> QED
    BY <1>0, <2>6, <2>7, <2>8, <2>9, RecordedMore
<1>6. CASE Settle
  <2>1. UNCHANGED <<turnStart, fresh, finished>>
        /\ (msgs' = AfterBatch \/ msgs' = Append(AfterBatch, User))
    BY <1>6 DEF Settle, history
  <2>2. /\ IsSeq(AfterBatch) /\ Len(AfterBatch) >= Len(msgs) /\ Len(AfterBatch) \in Nat
        /\ \A i \in 1..Len(msgs) : AfterBatch[i] = msgs[i]
    BY AfterBatchIs DEF IsSeq
  <2>3. \A c, id : id \in Responds(c).ids => Tells(Responds(c), id)
    BY DEF Responds, Message, Tells
  <2>4. User.ids = {}
    BY DEF User, Message
  <2>5. \A i \in Len(msgs) + 1..Len(AfterBatch) : \A id \in AfterBatch[i].ids : Tells(AfterBatch[i], id)
    BY <2>3, <2>4, AfterBatchIs
  <2>6. fresh' \in Nat /\ fresh' >= fresh
    BY <1>0, <2>1
  <2>7. CASE msgs' = AfterBatch
    BY <1>0, <2>1, <2>2, <2>5, <2>6, <2>7, RecordedMore
  <2>8. CASE msgs' = Append(AfterBatch, User)
    <3>1. /\ Len(msgs') = Len(AfterBatch) + 1 /\ msgs'[Len(AfterBatch) + 1] = User
          /\ \A i \in 1..Len(AfterBatch) : msgs'[i] = AfterBatch[i]
      BY <2>2, <2>8, AppendIs
    <3>2. \A i \in Len(msgs) + 1..Len(msgs') :
            i = Len(AfterBatch) + 1 \/ (i \in Len(msgs) + 1..Len(AfterBatch) /\ i \in 1..Len(AfterBatch))
      BY <1>0, <2>2, <3>1
    <3>3. \A i \in Len(msgs) + 1..Len(msgs') : \A id \in msgs'[i].ids : Tells(msgs'[i], id)
      BY <2>4, <2>5, <3>1, <3>2
    <3>4. /\ Len(msgs') \in Nat /\ Len(msgs') >= Len(msgs)
          /\ \A i \in 1..Len(msgs) : msgs'[i] = msgs[i]
      BY <1>0, <2>2, <3>1
    <3> QED
      BY <1>0, <2>1, <2>6, <3>3, <3>4, RecordedMore
  <2> QED
    BY <2>1, <2>7, <2>8
<1>7. CASE NextTurn \/ NextTurnCompacted
  <2>1. finished' = {}
    BY <1>7 DEF NextTurn, NextTurnCompacted, Continue
  <2> QED
    BY <2>1 DEF Recorded
<1> QED
  BY <1>1, <1>2, <1>3, <1>4, <1>5, <1>6, <1>7 DEF Next, Step

(* Every exit of a turn hands over a history in which each tool that         *)
(* returned is answered, unless a compaction dropped its whole exchange.     *)
THEOREM WorkRecorded == Spec => []WorkIsRecorded
<1>1. Counted /\ [Next]_vars => Counted'
  BY CountedStep
<1>2. Init => Recorded
  BY DEF Init, Recorded
<1>3. Formed /\ Recorded => WorkIsRecorded
  <2> SUFFICES ASSUME Formed, Recorded, NEW id \in finished
               PROVE  \E j \in DOMAIN msgs : msgs[j].role = "tool" /\ msgs[j].ids = {id}
    BY DEF WorkIsRecorded
  <2>1. DOMAIN msgs = 1..Len(msgs) /\ turnStart \in Nat /\ Len(msgs) \in Nat
    BY DEF Formed, IsSeq
  <2>2. PICK j \in turnStart + 1..Len(msgs) : Tells(msgs[j], id)
    BY DEF Recorded, ToldIn
  <2> QED
    BY <2>1, <2>2 DEF Tells
<1> QED
  BY <1>1, <1>2, <1>3, CountedInit, FormedInit, FormedStep, RecordedStep, PTL DEF Spec
-----------------------------------------------------------------------------
(* What the stall counters say is so in the log of the actions observed     *)
(* since the last checkpoint.                                               *)

Sigs == (Acts \X {"parsed", "raw"}) \cup {<<>>}
Actions == [act : Acts, sig : Sigs, error : BOOLEAN, failing : BOOLEAN]
Stalls == [last : Sigs, repeat : Nat, edits : Nat, generation : Nat,
           failed : Sigs, failedAt : Nat, failures : Nat]

RunSeen(s, l) ==
  /\ s.repeat <= Len(l)
  /\ \A i \in DOMAIN l : i > Len(l) - s.repeat => l[i].sig = s.last
EditsSeen(s, l) ==
  \E i \in 1..Len(l) + 1 : UnseenFrom(l, i) /\ s.edits <= Cardinality(EditsFrom(l, i))
FailuresSeen(s, l) ==
  /\ s.failedAt <= s.generation
  /\ s.failedAt = s.generation => s.failures <= Cardinality(FailuresOf(l, s.failed))

Tracked(s, l) ==
  /\ s \in Stalls /\ l \in Seq(Actions)
  /\ RunSeen(s, l) /\ EditsSeen(s, l) /\ FailuresSeen(s, l)

(* Counting places in a sequence.                                           *)
LEMMA Places ==
  ASSUME NEW n \in Nat, NEW S \in SUBSET (1..n)
  PROVE  /\ IsFiniteSet(S) /\ Cardinality(S) \in Nat
         /\ \A T \in SUBSET S : Cardinality(T) <= Cardinality(S)
         /\ Cardinality(S \cup {n + 1}) = Cardinality(S) + 1
<1>1. IsFiniteSet(1..n)
  BY FS_Interval
<1>2. IsFiniteSet(S) /\ Cardinality(S) \in Nat
  BY <1>1, FS_Subset, FS_CardinalityType
<1>3. \A T \in SUBSET S : Cardinality(T) <= Cardinality(S)
  BY <1>2, FS_Subset
<1>4. n + 1 \notin S
  OBVIOUS
<1>5. Cardinality(S \cup {n + 1}) = Cardinality(S) + 1
  BY <1>2, <1>4, FS_AddElement
<1> QED
  BY <1>2, <1>3, <1>5

(* One action more in the log.                                              *)
LEMMA Logged ==
  ASSUME NEW l \in Seq(Actions), NEW x \in Actions
  PROVE  LET m == Append(l, x)
         IN  /\ m \in Seq(Actions) /\ Len(m) = Len(l) + 1 /\ DOMAIN m = 1..Len(l) + 1
             /\ m[Len(m)] = x
             /\ \A i \in 1..Len(l) : m[i] = l[i]
             /\ \A i \in 1..Len(l) + 1 :
                  EditsFrom(m, i) = EditsFrom(l, i)
                    \cup (IF x.act \in Writes /\ ~x.error THEN {Len(l) + 1} ELSE {})
             /\ \A i \in 1..Len(l) + 1 :
                  UnseenFrom(l, i) /\ x.act \notin Reads \cup Checks => UnseenFrom(m, i)
<1> DEFINE m == Append(l, x)
           n == Len(l)
<1>1. /\ m \in Seq(Actions) /\ Len(m) = n + 1 /\ m[n + 1] = x /\ n \in Nat
      /\ \A i \in 1..n : m[i] = l[i]
  OBVIOUS
<1>2. DOMAIN m = 1..n + 1
  BY <1>1
<1> HIDE DEF m, n
<1>3. ASSUME NEW i \in 1..n + 1
      PROVE  EditsFrom(m, i) = EditsFrom(l, i)
                \cup (IF x.act \in Writes /\ ~x.error THEN {n + 1} ELSE {})
  <2>2. EditsFrom(m, i) = {j \in i..n + 1 : m[j].act \in Writes /\ ~m[j].error}
    BY <1>1 DEF EditsFrom
  <2>3. EditsFrom(l, i) = {j \in i..n : l[j].act \in Writes /\ ~l[j].error}
    BY DEF EditsFrom, n
  <2>4. i..n + 1 = (i..n) \cup {n + 1} /\ n + 1 \notin i..n
    BY <1>1, <1>3
  <2>5. \A j \in i..n : m[j] = l[j]
    BY <1>1, <1>3
  <2> QED
    BY <1>1, <2>2, <2>3, <2>4, <2>5
<1>4. ASSUME NEW i \in 1..n + 1, UnseenFrom(l, i), x.act \notin Reads \cup Checks
      PROVE  UnseenFrom(m, i)
  <2>1. \A j \in i..n : l[j].act \notin Reads \cup Checks
    BY <1>4 DEF UnseenFrom, n
  <2>2. \A j \in i..n + 1 : m[j].act \notin Reads \cup Checks
    <3> TAKE j \in i..n + 1
    <3>1. CASE j \in i..n
      BY <1>1, <1>4, <2>1, <3>1
    <3>2. CASE j = n + 1
      BY <1>1, <1>4, <3>2
    <3> QED
      BY <1>1, <1>4, <3>1, <3>2
  <2> QED
    BY <1>1, <2>2 DEF UnseenFrom
<1> QED
  BY <1>1, <1>2, <1>3, <1>4 DEF m, n

(* What observing an action does to the counters.                           *)
LEMMA ObservedIs ==
  ASSUME NEW s \in Stalls, NEW x \in Actions
  PROVE  LET o == Observed(s, x)
         IN  /\ o \in Stalls
             /\ o.last = x.sig /\ o.repeat = Repeats(s, x.sig)
             /\ o.edits = Edits(s, x.act, x.error)
             /\ o.generation = Generation(s, x.act, x.error)
             /\ \/ /\ o.failed = s.failed /\ o.failedAt = s.failedAt
                   /\ o.failures = s.failures
                   /\ x.failing => o.repeat >= MaxRepeats
                \/ /\ x.failing
                   /\ o.failed = x.sig /\ o.failedAt = o.generation
                   /\ \/ o.failures = 1
                      \/ /\ x.sig = s.failed /\ s.failedAt = o.generation
                         /\ o.failures = s.failures + 1
<1> DEFINE b == [s EXCEPT !.last = x.sig, !.repeat = Repeats(s, x.sig),
                          !.edits = Edits(s, x.act, x.error),
                          !.generation = Generation(s, x.act, x.error)]
           f == [b EXCEPT !.failed = x.sig, !.failedAt = b.generation,
                          !.failures = Failures(b, x.sig)]
<1>1. /\ Repeats(s, x.sig) \in Nat /\ Edits(s, x.act, x.error) \in Nat
      /\ Generation(s, x.act, x.error) \in Nat /\ x.sig \in Sigs
  BY DEF Repeats, Edits, Generation, Stalls, Actions
<1>2. /\ b \in Stalls /\ b.last = x.sig /\ b.repeat = Repeats(s, x.sig)
      /\ b.edits = Edits(s, x.act, x.error) /\ b.generation = Generation(s, x.act, x.error)
      /\ b.failed = s.failed /\ b.failedAt = s.failedAt /\ b.failures = s.failures
  BY <1>1 DEF Stalls
<1>3. Observed(s, x) = IF x.failing /\ b.repeat < MaxRepeats THEN f ELSE b
  BY DEF Observed
<1> HIDE DEF b
<1>4. /\ Failures(b, x.sig) \in Nat
      /\ \/ Failures(b, x.sig) = 1
         \/ /\ x.sig = s.failed /\ s.failedAt = b.generation
            /\ Failures(b, x.sig) = s.failures + 1
  BY <1>2 DEF Failures, Stalls
<1>5. /\ f \in Stalls /\ f.last = b.last /\ f.repeat = b.repeat /\ f.edits = b.edits
      /\ f.generation = b.generation
      /\ f.failed = x.sig /\ f.failedAt = b.generation /\ f.failures = Failures(b, x.sig)
  BY <1>1, <1>2, <1>4 DEF Stalls
<1> HIDE DEF f
<1>6. CASE x.failing /\ b.repeat < MaxRepeats
  BY <1>2, <1>3, <1>4, <1>5, <1>6
<1>7. CASE ~(x.failing /\ b.repeat < MaxRepeats)
  <2>1. Observed(s, x) = b
    BY <1>3, <1>7
  <2>2. x.failing => b.repeat >= MaxRepeats
    BY <1>1, <1>2, <1>7
  <2> QED
    BY <1>2, <2>1, <2>2
<1> QED
  BY <1>6, <1>7

LEMMA RunStays ==
  ASSUME NEW s, NEW l, Tracked(s, l), NEW x \in Actions
  PROVE  RunSeen(Observed(s, x), Append(l, x))
<1> DEFINE o == Observed(s, x)
           m == Append(l, x)
<1> SUFFICES RunSeen(o, m)
  OBVIOUS
<1>1. s \in Stalls /\ l \in Seq(Actions) /\ RunSeen(s, l)
  BY DEF Tracked
<1>2. o.last = x.sig /\ o.repeat = Repeats(s, x.sig)
  BY <1>1, ObservedIs
<1>3. /\ Len(m) = Len(l) + 1 /\ DOMAIN m = 1..Len(l) + 1 /\ m[Len(l) + 1] = x
      /\ \A i \in 1..Len(l) : m[i] = l[i]
  BY <1>1, Logged
<1>4. Len(l) \in Nat /\ s.repeat \in Nat /\ DOMAIN l = 1..Len(l)
  BY <1>1 DEF Stalls
<1> HIDE DEF o, m
<1>5. CASE x.sig = s.last
  <2>1. o.repeat = s.repeat + 1 /\ o.last = s.last
    BY <1>2, <1>5 DEF Repeats
  <2>2. o.repeat <= Len(m)
    BY <1>1, <1>3, <1>4, <2>1 DEF RunSeen
  <2>3. ASSUME NEW i \in 1..Len(l) + 1, i > Len(m) - o.repeat
        PROVE  m[i].sig = o.last
    <3>1. CASE i = Len(l) + 1
      BY <1>2, <1>3, <3>1
    <3>2. CASE i \in 1..Len(l)
      <4>1. i > Len(l) - s.repeat
        BY <1>3, <1>4, <2>1, <2>3
      <4> QED
        BY <1>1, <1>3, <1>4, <2>1, <3>2, <4>1 DEF RunSeen
    <3> QED
      BY <1>4, <3>1, <3>2
  <2> QED
    BY <1>3, <2>2, <2>3 DEF RunSeen
<1>6. CASE x.sig # s.last
  <2>1. o.repeat = 1
    BY <1>2, <1>6 DEF Repeats
  <2>2. \A i \in 1..Len(l) + 1 : i > Len(m) - o.repeat => i = Len(l) + 1
    BY <1>3, <1>4, <2>1
  <2> QED
    BY <1>2, <1>3, <1>4, <2>1, <2>2 DEF RunSeen
<1> QED
  BY <1>5, <1>6

LEMMA EditsStay ==
  ASSUME NEW s, NEW l, Tracked(s, l), NEW x \in Actions
  PROVE  EditsSeen(Observed(s, x), Append(l, x))
<1> DEFINE o == Observed(s, x)
           m == Append(l, x)
           n == Len(l)
<1> SUFFICES EditsSeen(o, m)
  OBVIOUS
<1>1. s \in Stalls /\ l \in Seq(Actions) /\ EditsSeen(s, l) /\ n \in Nat /\ s.edits \in Nat
  BY DEF Tracked, Stalls
<1>2. o.edits = Edits(s, x.act, x.error)
  BY <1>1, ObservedIs
<1>3. /\ Len(m) = n + 1
      /\ \A i \in 1..n + 1 :
           EditsFrom(m, i) = EditsFrom(l, i)
             \cup (IF x.act \in Writes /\ ~x.error THEN {n + 1} ELSE {})
      /\ \A i \in 1..n + 1 :
           UnseenFrom(l, i) /\ x.act \notin Reads \cup Checks => UnseenFrom(m, i)
  BY <1>1, Logged
<1>4. PICK i \in 1..n + 1 : UnseenFrom(l, i) /\ s.edits <= Cardinality(EditsFrom(l, i))
  BY <1>1 DEF EditsSeen
<1>5. EditsFrom(l, i) \subseteq 1..n
  BY <1>1, <1>4 DEF EditsFrom
<1>6. /\ Cardinality(EditsFrom(l, i)) \in Nat
      /\ Cardinality(EditsFrom(l, i) \cup {n + 1}) = Cardinality(EditsFrom(l, i)) + 1
  BY <1>1, <1>5, Places
<1> HIDE DEF o, m, n
<1>7. i \in 1..Len(m) + 1
  BY <1>1, <1>3, <1>4
<1>8. CASE x.act \in Writes /\ ~x.error
  <2>1. x.act \notin Reads \cup Checks /\ o.edits = s.edits + 1
    BY <1>2, <1>8, ToolsApart DEF Edits
  <2>2. EditsFrom(m, i) = EditsFrom(l, i) \cup {n + 1}
    BY <1>3, <1>4, <1>8
  <2>3. UnseenFrom(m, i)
    BY <1>3, <1>4, <2>1
  <2>4. o.edits <= Cardinality(EditsFrom(m, i))
    BY <1>1, <1>4, <1>6, <2>1, <2>2
  <2> QED
    BY <1>7, <2>3, <2>4 DEF EditsSeen
<1>9. CASE ~(x.act \in Writes /\ ~x.error) /\ x.act \notin Reads \cup Checks
  <2>1. o.edits = s.edits
    BY <1>2, <1>9 DEF Edits
  <2>2. EditsFrom(m, i) = EditsFrom(l, i)
    BY <1>3, <1>4, <1>9
  <2> QED
    BY <1>3, <1>4, <1>7, <1>9, <2>1, <2>2 DEF EditsSeen
<1>10. CASE x.act \in Reads \cup Checks
  <2>1. o.edits = 0
    BY <1>2, <1>10, ToolsApart DEF Edits
  <2>2. UnseenFrom(m, Len(m) + 1) /\ EditsFrom(m, Len(m) + 1) = {}
    BY <1>1, <1>3 DEF UnseenFrom, EditsFrom
  <2>3. Cardinality(EditsFrom(m, Len(m) + 1)) = 0
    BY <2>2, FS_EmptySet
  <2>4. Len(m) + 1 \in 1..Len(m) + 1
    BY <1>1, <1>3
  <2> QED
    BY <2>1, <2>2, <2>3, <2>4 DEF EditsSeen
<1> QED
  BY <1>8, <1>9, <1>10

LEMMA FailuresStay ==
  ASSUME NEW s, NEW l, Tracked(s, l), NEW x \in Actions, x.failing => x.act \in Checks
  PROVE  FailuresSeen(Observed(s, x), Append(l, x))
<1> DEFINE o == Observed(s, x)
           m == Append(l, x)
           n == Len(l)
<1> SUFFICES FailuresSeen(o, m)
  OBVIOUS
<1>1. s \in Stalls /\ l \in Seq(Actions) /\ FailuresSeen(s, l) /\ n \in Nat
  BY DEF Tracked
<1>2. s.failedAt \in Nat /\ s.generation \in Nat /\ s.failures \in Nat /\ DOMAIN l = 1..n
  BY <1>1 DEF Stalls
<1>3. /\ o.generation = Generation(s, x.act, x.error)
      /\ \/ /\ o.failed = s.failed /\ o.failedAt = s.failedAt
            /\ o.failures = s.failures
         \/ /\ x.failing
            /\ o.failed = x.sig /\ o.failedAt = o.generation
            /\ \/ o.failures = 1
               \/ /\ x.sig = s.failed /\ s.failedAt = o.generation
                  /\ o.failures = s.failures + 1
  BY <1>1, ObservedIs
<1>4. /\ Len(m) = n + 1 /\ DOMAIN m = 1..n + 1 /\ m[n + 1] = x
      /\ \A i \in 1..n : m[i] = l[i]
      /\ \A i \in 1..n + 1 :
           EditsFrom(m, i) = EditsFrom(l, i)
             \cup (IF x.act \in Writes /\ ~x.error THEN {n + 1} ELSE {})
  BY <1>1, Logged
<1> HIDE DEF o, m, n
<1>5. CASE x.act \in Writes /\ ~x.error
  <2>1. ~x.failing /\ o.generation = s.generation + 1
    BY <1>3, <1>5, ToolsApart DEF Generation
  <2> QED
    BY <1>1, <1>2, <1>3, <2>1 DEF FailuresSeen
<1>6. CASE ~(x.act \in Writes /\ ~x.error)
  <2>1. o.generation = s.generation
    BY <1>3, <1>6 DEF Generation
  <2>2. \A i \in 1..n + 1 : EditsFrom(m, i) = EditsFrom(l, i)
    BY <1>4, <1>6
  <2>3. \A sig : FailuresOf(l, sig) \subseteq FailuresOf(m, sig)
    <3> SUFFICES ASSUME NEW sig, NEW i \in FailuresOf(l, sig) PROVE i \in FailuresOf(m, sig)
      OBVIOUS
    <3>1. i \in 1..n /\ l[i].failing /\ l[i].sig = sig /\ EditsFrom(l, i) = {}
      BY <1>2 DEF FailuresOf
    <3>2. i \in 1..n + 1 /\ m[i] = l[i] /\ EditsFrom(m, i) = {}
      BY <1>1, <1>4, <2>2, <3>1
    <3> QED
      BY <1>4, <3>1, <3>2 DEF FailuresOf
  <2>4. \A sig : FailuresOf(l, sig) \subseteq 1..n /\ FailuresOf(m, sig) \subseteq 1..n + 1
    BY <1>2, <1>4 DEF FailuresOf
  <2>5. \A sig : /\ Cardinality(FailuresOf(l, sig)) \in Nat
                 /\ Cardinality(FailuresOf(m, sig)) \in Nat
                 /\ Cardinality(FailuresOf(l, sig)) <= Cardinality(FailuresOf(m, sig))
    <3> TAKE sig
    <3>1. n + 1 \in Nat
      BY <1>1
    <3>2. FailuresOf(l, sig) \subseteq 1..n
      BY <2>4
    <3>3. FailuresOf(m, sig) \subseteq 1..n + 1
      BY <2>4
    <3>4. Cardinality(FailuresOf(l, sig)) \in Nat
      BY <1>1, <3>2, Places
    <3>5. /\ Cardinality(FailuresOf(m, sig)) \in Nat
          /\ \A T \in SUBSET FailuresOf(m, sig) :
               Cardinality(T) <= Cardinality(FailuresOf(m, sig))
      BY <3>1, <3>3, Places
    <3> QED
      BY <2>3, <3>4, <3>5
  <2>6. CASE o.failed = s.failed /\ o.failedAt = s.failedAt /\ o.failures = s.failures
    BY <1>1, <1>2, <2>1, <2>5, <2>6 DEF FailuresSeen
  <2>7. CASE /\ x.failing
             /\ o.failed = x.sig /\ o.failedAt = o.generation
             /\ \/ o.failures = 1
                \/ /\ x.sig = s.failed /\ s.failedAt = o.generation
                   /\ o.failures = s.failures + 1
    <3>1. EditsFrom(l, n + 1) = {}
      BY <1>1 DEF EditsFrom, n
    <3>2. n + 1 \in FailuresOf(m, x.sig)
      BY <1>1, <1>4, <2>2, <2>7, <3>1 DEF FailuresOf
    <3>3. FailuresOf(l, x.sig) \cup {n + 1} \subseteq FailuresOf(m, x.sig)
      BY <2>3, <3>2
    <3>4. /\ Cardinality(FailuresOf(l, x.sig) \cup {n + 1}) = Cardinality(FailuresOf(l, x.sig)) + 1
          /\ Cardinality(FailuresOf(l, x.sig) \cup {n + 1}) <= Cardinality(FailuresOf(m, x.sig))
      <4>1. FailuresOf(l, x.sig) \subseteq 1..n
        BY <2>4
      <4>2. FailuresOf(m, x.sig) \subseteq 1..n + 1 /\ n + 1 \in Nat
        BY <1>1, <2>4
      <4>3. \A T \in SUBSET FailuresOf(m, x.sig) :
              Cardinality(T) <= Cardinality(FailuresOf(m, x.sig))
        BY <4>2, Places
      <4>4. Cardinality(FailuresOf(l, x.sig) \cup {n + 1}) = Cardinality(FailuresOf(l, x.sig)) + 1
        BY <1>1, <4>1, Places
      <4> QED
        BY <3>3, <4>3, <4>4
    <3>5. Cardinality(FailuresOf(l, x.sig)) + 1 <= Cardinality(FailuresOf(m, x.sig))
      BY <3>4
    <3>6. o.failures <= Cardinality(FailuresOf(m, x.sig))
      <4>1. CASE o.failures = 1
        BY <2>5, <3>5, <4>1
      <4>2. CASE x.sig = s.failed /\ s.failedAt = o.generation /\ o.failures = s.failures + 1
        <5>1. s.failures <= Cardinality(FailuresOf(l, x.sig))
          BY <1>1, <2>1, <4>2 DEF FailuresSeen
        <5> QED
          BY <1>2, <2>5, <3>5, <4>2, <5>1
      <4> QED
        BY <2>7, <4>1, <4>2
    <3> QED
      BY <1>2, <2>1, <2>7, <3>6 DEF FailuresSeen
  <2> QED
    BY <1>3, <2>6, <2>7
<1> QED
  BY <1>5, <1>6

LEMMA TrackedOn ==
  ASSUME NEW s, NEW l, Tracked(s, l), NEW x \in Actions, x.failing => x.act \in Checks
  PROVE  Tracked(Observed(s, x), Append(l, x))
<1>1. s \in Stalls /\ l \in Seq(Actions)
  BY DEF Tracked
<1>2. Observed(s, x) \in Stalls
  BY <1>1, ObservedIs
<1>3. Append(l, x) \in Seq(Actions)
  BY <1>1, Logged
<1> QED
  BY <1>2, <1>3, RunStays, EditsStay, FailuresStay DEF Tracked

(* What a reason claims, the log bears out.                                 *)
LEMMA ReasonHolds ==
  ASSUME NEW s, NEW l, Tracked(s, l), NEW x \in Actions, x.failing => x.act \in Checks
  PROVE  Claimed(Reason(Observed(s, x), x), Append(l, x))
<1> DEFINE o == Observed(s, x)
           m == Append(l, x)
           n == Len(l)
<1>1. /\ o \in Stalls /\ m \in Seq(Actions) /\ RunSeen(o, m)
      /\ EditsSeen(o, m) /\ FailuresSeen(o, m)
  BY TrackedOn DEF Tracked
<1>2. s \in Stalls /\ l \in Seq(Actions) /\ n \in Nat
  BY DEF Tracked
<1>3. /\ o.last = x.sig
      /\ \/ x.failing => o.repeat >= MaxRepeats
         \/ o.failed = x.sig /\ o.failedAt = o.generation
  BY <1>2, ObservedIs
<1>4. Len(m) = n + 1 /\ DOMAIN m = 1..n + 1 /\ m[Len(m)] = x
  BY <1>2, Logged
<1>5. o.repeat \in Nat /\ o.edits \in Nat /\ o.failures \in Nat
  BY <1>1 DEF Stalls
<1> HIDE DEF o, m, n
<1>6. Reason(o, x) = "repeated" => Repeated(m)
  <2> SUFFICES ASSUME o.repeat >= MaxRepeats PROVE Repeated(m)
    BY <1>5 DEF Reason
  <2>1. ASSUME NEW i \in DOMAIN m, i > Len(m) - MaxRepeats PROVE m[i].sig = x.sig
    <3>1. i > Len(m) - o.repeat
      BY <1>2, <1>4, <1>5, <2>1
    <3> QED
      BY <1>1, <1>3, <2>1, <3>1 DEF RunSeen
  <2> QED
    BY <1>4, <2>1 DEF Repeated
<1>7. Reason(o, x) = "failing" => Cardinality(FailuresOf(m, x.sig)) >= MaxRepeats
  <2> SUFFICES ASSUME x.failing, o.failures >= MaxRepeats, ~(o.repeat >= MaxRepeats)
               PROVE  Cardinality(FailuresOf(m, x.sig)) >= MaxRepeats
    BY DEF Reason
  <2>1. o.failed = x.sig /\ o.failedAt = o.generation
    BY <1>3
  <2>2. o.failures <= Cardinality(FailuresOf(m, x.sig))
    BY <1>1, <2>1 DEF FailuresSeen
  <2>3. FailuresOf(m, x.sig) \subseteq 1..n + 1 /\ n + 1 \in Nat
    BY <1>2, <1>4 DEF FailuresOf
  <2>4. Cardinality(FailuresOf(m, x.sig)) \in Nat
    BY <2>3, Places
  <2> QED
    BY <1>5, <2>2, <2>4
<1>8. Reason(o, x) = "unverified" =>
        \E i \in DOMAIN m : UnseenFrom(m, i) /\ Cardinality(EditsFrom(m, i)) >= MaxUnverified
  <2> SUFFICES ASSUME o.edits >= MaxUnverified
               PROVE  \E i \in DOMAIN m : /\ UnseenFrom(m, i)
                                          /\ Cardinality(EditsFrom(m, i)) >= MaxUnverified
    BY DEF Reason
  <2>1. PICK i \in 1..Len(m) + 1 :
          UnseenFrom(m, i) /\ o.edits <= Cardinality(EditsFrom(m, i))
    BY <1>1 DEF EditsSeen
  <2>2. EditsFrom(m, i) \subseteq 1..n + 1 /\ n + 1 \in Nat
    BY <1>2, <1>4, <2>1 DEF EditsFrom
  <2>3. Cardinality(EditsFrom(m, i)) \in Nat
    BY <2>2, Places
  <2>4. Cardinality(EditsFrom(m, i)) >= MaxUnverified /\ Cardinality(EditsFrom(m, i)) # 0
    BY <1>5, <2>1, <2>3
  <2>5. EditsFrom(m, i) # {}
    BY <2>4, FS_EmptySet
  <2>6. i \in DOMAIN m
    BY <1>2, <1>4, <2>1, <2>5 DEF EditsFrom
  <2> QED
    BY <2>1, <2>4, <2>6
<1> QED
  BY <1>4, <1>6, <1>7, <1>8 DEF Claimed, o, m

LEMMA NothingTracked ==
  ASSUME NEW s \in Stalls, s.repeat = 0, s.edits = 0, s.failures = 0, s.failedAt = 0
  PROVE  Tracked(s, <<>>)
<1>1. <<>> \in Seq(Actions) /\ Len(<<>>) = 0 /\ DOMAIN <<>> = {}
  OBVIOUS
<1>2. RunSeen(s, <<>>)
  BY <1>1 DEF RunSeen
<1>3. UnseenFrom(<<>>, 1) /\ EditsFrom(<<>>, 1) = {}
  BY <1>1 DEF UnseenFrom, EditsFrom
<1>4. Cardinality(EditsFrom(<<>>, 1)) = 0
  BY <1>3, FS_EmptySet
<1>5. EditsSeen(s, <<>>)
  BY <1>1, <1>3, <1>4 DEF EditsSeen
<1>6. FailuresOf(<<>>, s.failed) = {}
  BY <1>1 DEF FailuresOf
<1>7. Cardinality(FailuresOf(<<>>, s.failed)) = 0
  BY <1>6, FS_EmptySet
<1>8. FailuresSeen(s, <<>>)
  BY <1>7 DEF FailuresSeen, Stalls
<1> QED
  BY <1>1, <1>2, <1>5, <1>8 DEF Tracked

(* While the turn may still be told to stop, the counters are tracked.      *)
Watched ==
  /\ stall \in Stalls
  /\ pc \in {"top", "compacting", "asking"} \/ (pc \in {"tools", "running"} /\ reason = "none")
       => Tracked(stall, log)

LEMMA NoStallTracked ==
  /\ NoStall \in Stalls /\ Tracked(NoStall, <<>>)
  /\ \A s \in Stalls : Checkpoint(s) \in Stalls /\ Tracked(Checkpoint(s), <<>>)
<1>1. <<>> \in Sigs
  BY DEF Sigs
<1>2. /\ NoStall \in Stalls /\ NoStall.repeat = 0 /\ NoStall.edits = 0
      /\ NoStall.failures = 0 /\ NoStall.failedAt = 0
  BY <1>1 DEF NoStall, Stalls
<1>3. ASSUME NEW s \in Stalls
      PROVE  /\ Checkpoint(s) \in Stalls
             /\ Checkpoint(s).repeat = 0 /\ Checkpoint(s).edits = 0
             /\ Checkpoint(s).failures = 0 /\ Checkpoint(s).failedAt = 0
  BY <1>2 DEF Checkpoint, Stalls
<1> QED
  BY <1>2, <1>3, NothingTracked

(* How a call that ends is observed, and what of the next state matters.    *)
LEMMA CallEnds ==
  ASSUME Counted,
         CutCall \/ MalformedCall \/ Defer \/ ToolFails
           \/ (\E nonzero \in BOOLEAN : ToolReturns(nonzero))
  PROVE  /\ pc \in {"tools", "running"} /\ pc' = "tools"
         /\ \E x \in Actions :
              /\ x.failing => x.act \in Checks
              /\ \/ Observe(x)
                 \/ /\ log' = Append(log, x) /\ stall' = Observed(stall, x)
                    /\ reason' = reason
<1>1. batch # <<>> /\ batch \in Seq(CallRecords)
  BY DEF CutCall, MalformedCall, Defer, ToolFails, ToolReturns, AtCall, Counted
<1>2. Call.act \in Acts
  BY <1>1, TakeCall DEF Call, CallRecords
<1>3. Raw(Call.act) \in Sigs /\ Parsed(Call.act) \in Sigs
  BY <1>2 DEF Raw, Parsed, Sigs
<1>4. \A sig \in Sigs, error \in BOOLEAN, failing \in BOOLEAN :
        /\ Action(Call.act, sig, error, failing) \in Actions
        /\ Action(Call.act, sig, error, failing).failing = failing
        /\ Action(Call.act, sig, error, failing).act = Call.act
  BY <1>2 DEF Action, Actions
<1>5. pc \in {"tools", "running"} /\ pc' = "tools"
  BY DEF CutCall, MalformedCall, Defer, ToolFails, ToolReturns, AtCall, NextCall
<1>6. CASE CutCall \/ MalformedCall
  <2>1. Observe(Action(Call.act, Raw(Call.act), TRUE, FALSE))
    BY <1>6 DEF CutCall, MalformedCall
  <2> QED
    BY <1>3, <1>4, <1>5, <2>1
<1>7. CASE Defer
  <2> DEFINE x == Action(Call.act, Parsed(Call.act), TRUE, FALSE)
  <2>1. log' = Append(log, x) /\ stall' = Observed(stall, x) /\ reason' = reason
    BY <1>7 DEF Defer
  <2>2. x \in Actions /\ ~x.failing
    BY <1>3, <1>4
  <2> QED
    BY <1>5, <2>1, <2>2
<1>8. CASE ToolFails
  <2> DEFINE failing == Call.act \in Checks
             x == Action(Call.act, Parsed(Call.act), TRUE, failing)
  <2>1. Observe(x)
    BY <1>8 DEF ToolFails
  <2>2. failing \in BOOLEAN /\ (failing => Call.act \in Checks)
    OBVIOUS
  <2> HIDE DEF failing
  <2>3. x \in Actions /\ (x.failing => Call.act \in Checks) /\ x.act = Call.act
    BY <1>3, <1>4, <2>2
  <2> QED
    BY <1>5, <2>1, <2>3
<1>9. CASE \E nonzero \in BOOLEAN : ToolReturns(nonzero)
  <2>1. PICK nonzero \in BOOLEAN : ToolReturns(nonzero)
    BY <1>9
  <2> DEFINE x == Action(Call.act, Parsed(Call.act), FALSE, nonzero /\ Call.act \in Checks)
  <2>2. Observe(x)
    BY <2>1 DEF ToolReturns
  <2>3. x \in Actions /\ (x.failing => x.act \in Checks)
    BY <1>3, <1>4
  <2> QED
    BY <1>5, <2>2, <2>3
<1> QED
  BY <1>6, <1>7, <1>8, <1>9

LEMMA WatchedStep == Counted /\ Watched /\ [Next]_vars => Watched'
<1> SUFFICES ASSUME Counted, Watched, [Next]_vars PROVE Watched'
  OBVIOUS
<1>0. stall \in Stalls
  BY DEF Watched
<1>1. CASE CutCall \/ MalformedCall \/ Defer \/ ToolFails
           \/ (\E nonzero \in BOOLEAN : ToolReturns(nonzero))
  <2>1. /\ pc \in {"tools", "running"} /\ pc' = "tools"
        /\ \E x \in Actions :
             /\ x.failing => x.act \in Checks
             /\ \/ Observe(x)
                \/ /\ log' = Append(log, x) /\ stall' = Observed(stall, x)
                   /\ reason' = reason
    BY <1>1, CallEnds
  <2>2. PICK x \in Actions :
          /\ x.failing => x.act \in Checks
          /\ \/ Observe(x)
             \/ /\ log' = Append(log, x) /\ stall' = Observed(stall, x)
                /\ reason' = reason
    BY <2>1
  <2>3. stall' \in {stall, Observed(stall, x)}
    BY <2>2 DEF Observe
  <2>4. stall' \in Stalls
    BY <1>0, <2>3, ObservedIs
  <2>5. CASE reason = "none"
    <3>1. Tracked(stall, log)
      BY <2>1, <2>5 DEF Watched
    <3>2. log' = Append(log, x) /\ stall' = Observed(stall, x)
      BY <2>2, <2>5 DEF Observe
    <3>3. Tracked(Observed(stall, x), Append(log, x))
      BY <2>2, <3>1, TrackedOn
    <3> QED
      BY <2>4, <3>2, <3>3 DEF Watched
  <2>6. CASE reason # "none"
    <3>1. reason' = reason
      BY <2>2, <2>6 DEF Observe
    <3> QED
      BY <2>1, <2>4, <2>6, <3>1 DEF Watched
  <2> QED
    BY <2>5, <2>6
<1>2. CASE Settle
  <2>1. pc = "tools" /\ reason' = reason
    BY <1>2 DEF Settle
  <2>2. CASE pc' = "ended" /\ stall' = stall
    BY <1>0, <2>2 DEF Watched
  <2>3. CASE stall' = Checkpoint(stall) /\ log' = <<>>
    BY <1>0, <2>3, NoStallTracked DEF Watched
  <2>4. CASE reason = "none" /\ UNCHANGED <<stall, log>>
    BY <2>1, <2>4 DEF Watched
  <2> QED
    BY <1>2, <2>2, <2>3, <2>4 DEF Settle, End
<1>3. CASE \E past : Continue(past)
  <2>1. stall' = NoStall /\ log' = <<>>
    BY <1>3 DEF Continue
  <2> QED
    BY <2>1, NoStallTracked DEF Watched
<1>4. CASE ToolReply
  BY <1>4 DEF ToolReply, Watched
<1>5. CASE UNCHANGED vars \/ Abort \/ LimitReached \/ StopAtTop
           \/ (\E tooLong \in BOOLEAN : Iterate(tooLong)) \/ CompactTurn \/ CompactAborted
           \/ Overflow \/ RequestFails \/ FinalReply \/ PendingReply \/ StopAtCall
           \/ RunTool \/ ToolAborted
  <2>1. UNCHANGED <<stall, log, reason>>
    BY <1>5 DEF vars, watch, Abort, LimitReached, StopAtTop, Iterate, CompactTurn,
       CompactAborted, Overflow, RequestFails, FinalReply, PendingReply, StopAtCall, RunTool,
       ToolAborted
  <2>2. \/ pc' = "ended"
        \/ pc' = pc
        \/ /\ pc \in {"top", "compacting", "asking"}
           /\ pc' \in {"top", "compacting", "asking"}
        \/ pc = "tools" /\ pc' = "running"
    BY <1>5 DEF vars, Abort, LimitReached, StopAtTop, Iterate, CompactTurn, CompactAborted,
       Overflow, RequestFails, FinalReply, PendingReply, StopAtCall, RunTool, ToolAborted,
       AtCall, End
  <2> QED
    BY <2>1, <2>2 DEF Watched
<1> QED
  BY <1>1, <1>2, <1>3, <1>4, <1>5 DEF Next, Step, NextTurn, NextTurnCompacted

(* A stall is real: what its reason claims, repeated actions, a check that  *)
(* keeps failing, edits nobody looked at, is so in the actions observed     *)
(* since the last checkpoint.                                               *)
THEOREM StallsCorrect == Spec => StallsAreReal
<1> DEFINE Real == reason = "none" /\ reason' # "none" => Claimed(reason', log')
<1>1. Init => Counted /\ Watched
  BY CountedInit, NoStallTracked DEF Init, Watched
<1>2. Counted /\ Watched /\ [Next]_vars => Counted' /\ Watched'
  BY CountedStep, WatchedStep
<1>3. Counted /\ Watched /\ [Next]_vars => [Real]_vars
  <2> SUFFICES ASSUME Counted, Watched, [Next]_vars, reason = "none", reason' # "none"
               PROVE  Claimed(reason', log')
    OBVIOUS
  <2>1. CASE CutCall \/ MalformedCall \/ Defer \/ ToolFails
             \/ (\E nonzero \in BOOLEAN : ToolReturns(nonzero))
    <3>1. /\ pc \in {"tools", "running"} /\ pc' = "tools"
          /\ \E x \in Actions :
               /\ x.failing => x.act \in Checks
               /\ \/ Observe(x)
                  \/ /\ log' = Append(log, x) /\ stall' = Observed(stall, x)
                     /\ reason' = reason
      BY <2>1, CallEnds
    <3>2. PICK x \in Actions : (x.failing => x.act \in Checks) /\ Observe(x)
      BY <3>1
    <3>3. log' = Append(log, x) /\ reason' = Reason(Observed(stall, x), x)
      BY <3>2 DEF Observe
    <3>4. Tracked(stall, log)
      BY <3>1 DEF Watched
    <3> QED
      BY <3>2, <3>3, <3>4, ReasonHolds
  <2>2. CASE ~(CutCall \/ MalformedCall \/ Defer \/ ToolFails
               \/ (\E nonzero \in BOOLEAN : ToolReturns(nonzero)))
    <3>1. reason' = reason \/ reason' = "none"
      BY <2>2 DEF Next, Step, vars, watch, Abort, LimitReached, StopAtTop, Iterate, CompactTurn,
         CompactAborted, Overflow, RequestFails, FinalReply, PendingReply, ToolReply, StopAtCall,
         RunTool, ToolAborted, Settle, NextTurn, NextTurnCompacted, Continue
    <3> QED
      BY <3>1
  <2> QED
    BY <2>1, <2>2
<1> QED
  BY <1>1, <1>2, <1>3, PTL DEF Spec, StallsAreReal
=============================================================================
