--------------------------- MODULE DoorstepProofs ---------------------------
(***************************************************************************)
(* The safety of Doorstep, proved for every set of requests in flight and  *)
(* for every number of codes, cases and deaths of requests.                *)
(***************************************************************************)
EXTENDS Doorstep, FiniteSetTheorems, TLAPS

-----------------------------------------------------------------------------
(* Types: what a slot may hold, and how the three ways to write one keep   *)
(* it so.                                                                  *)

CodePCs == {"consume", "saveUsed"}
CasePCs == {"report", "leave", "unreport", "retry", "unretry"}

Fits(r) ==
    /\ r \in CallRecords
    /\ r.pc \in CodePCs => r.code \in Codes
    /\ r.pc \in CasePCs => r.case \in Cases

CallsFit ==
    /\ call \in [Calls -> CallRecords]
    /\ \A t \in Calls : Fits(call[t])

\* What TypeOK says of the rest.
DataFits ==
    /\ wf \in WorkflowStatus
    /\ otp \in [Codes -> OtpRecords]
    /\ handed \subseteq Kinds
    /\ case \in [Cases -> {"none", "REACHED", "CUSTOMER_UNREACHABLE", "CANCELLED", "RETRY"}]
    /\ isActive \in [Cases -> BOOLEAN]
    /\ rung \in [Cases -> BOOLEAN]
    /\ charges \in Nat
    /\ booked \subseteq {"delivered", "rto", "items"}
    /\ faults \in 0..MaxFaults

LEMMA TypeParts == TypeOK <=> DataFits /\ CallsFit
  BY DEF TypeOK, DataFits, CallsFit, Fits, CodePCs, CasePCs

LEMMA TypePartsNext == DataFits' /\ CallsFit' => TypeOK'
  BY DEF TypeOK, DataFits, CallsFit, Fits, CodePCs, CasePCs

LEMMA BoundsAreNat == MaxCodes \in Nat /\ MaxCases \in Nat /\ MaxFaults \in Nat
  BY DoorstepAssumption

LEMMA SlotType ==
  ASSUME CallsFit, NEW t \in Calls, NEW r, Fits(r), call' = [call EXCEPT ![t] = r]
  PROVE  CallsFit'
  BY DEF CallsFit, Fits

LEMMA IdleFits == Fits(Idle)
  BY BoundsAreNat DEF Fits, Idle, CallRecords, PCs, CodePCs, CasePCs, Codes, Cases

LEMMA ReturnType ==
  ASSUME CallsFit, NEW t \in Calls, Return(t)
  PROVE  CallsFit'
  BY SlotType, IdleFits DEF Return

LEMMA GotoType ==
  ASSUME CallsFit, NEW t \in Calls, NEW pc \in PCs, Goto(t, pc),
         pc \in CodePCs => call[t].code \in Codes,
         pc \in CasePCs => call[t].case \in Cases
  PROVE  CallsFit'
  <1> DEFINE r == [call[t] EXCEPT !.pc = pc]
  <1>1. call' = [call EXCEPT ![t] = r]
    BY DEF Goto, CallsFit
  <1>2. Fits(r)
    BY DEF CallsFit, Fits, CallRecords
  <1> QED
    BY <1>1, <1>2, SlotType

LEMMA SameType == ASSUME CallsFit, UNCHANGED call PROVE CallsFit'
  BY DEF CallsFit, Fits

LEMMA TypeInit == Init => TypeOK
  BY BoundsAreNat, IdleFits
  DEF Init, TypeOK, Fits, CodePCs, CasePCs, WorkflowStatus, Final, OtpRecords, NoOtp, Kinds

CodeStates == {"none", "open", "dead", "used", "deleted"}

LEMMA CodesType ==
  ASSUME otp \in [Codes -> OtpRecords]
  PROVE  /\ \A kind : Consumed(kind) \in [Codes -> OtpRecords]
         /\ \A k \in Codes : \A st \in CodeStates :
               [otp EXCEPT ![k].st = st] \in [Codes -> OtpRecords]
  <1>1. \A k \in Codes : \A st \in CodeStates : [otp[k] EXCEPT !.st = st] \in OtpRecords
    BY DEF OtpRecords, CodeStates
  <1>2. \A kind : Consumed(kind) \in [Codes -> OtpRecords]
    <2>1. "used" \in CodeStates
      BY DEF CodeStates
    <2> QED
      BY <1>1, <2>1 DEF Consumed
  <1>3. \A k \in Codes : \A st \in CodeStates :
           [otp EXCEPT ![k].st = st] \in [Codes -> OtpRecords]
    BY <1>1
  <1> QED
    BY <1>2, <1>3

\* A document that is looked up and found, and what the lookup does to it.
LEMMA LookupType ==
  ASSUME TypeOK, NEW t \in Calls, NEW k \in Codes, NEW pc \in CodePCs,
         \/ Mismatch(t, k)
         \/ k = call[t].code /\ otp[k].st = "open" /\ Goto(t, pc) /\ UNCHANGED otp
  PROVE  otp' \in [Codes -> OtpRecords] /\ CallsFit'
  <1>0. otp \in [Codes -> OtpRecords] /\ CallsFit
    BY TypeParts DEF DataFits
  <1>1. CASE Mismatch(t, k)
    BY <1>0, <1>1, CodesType, ReturnType DEF Mismatch, CodeStates
  <1>2. CASE k = call[t].code /\ Goto(t, pc) /\ UNCHANGED otp
    BY <1>0, <1>2, GotoType DEF CodePCs, CasePCs, PCs
  <1>3. \/ Mismatch(t, k)
        \/ k = call[t].code /\ Goto(t, pc) /\ UNCHANGED otp
    OBVIOUS
  <1> QED
    BY <1>1, <1>2, <1>3

LEMMA HandoffType ==
  ASSUME TypeOK, NEW t \in Calls, Handoff(t)
  PROVE  TypeOK'
  <1>0. DataFits /\ CallsFit /\ call[t] \in CallRecords /\ Fits(call[t])
    BY TypeParts DEF CallsFit
  <1>1. ASSUME RequestHandoffOtp(t) \/ GenerateDeliveryOtp(t)
        PROVE  TypeOK'
    <2>1. CallsFit'
      BY <1>0, <1>1, GotoType, ReturnType DEF RequestHandoffOtp, GenerateDeliveryOtp, PCs, CodePCs, CasePCs
    <2>2. DataFits'
      BY <1>0, <1>1 DEF RequestHandoffOtp, GenerateDeliveryOtp, DataFits, otpVars, caseVars
    <2> QED
      BY <2>1, <2>2, TypePartsNext
  <1>2. ASSUME Purge(t)
        PROVE  TypeOK'
    <2>1. CallsFit'
      BY <1>0, <1>2, GotoType, ReturnType DEF Purge, PCs, CodePCs, CasePCs
    <2>2. DataFits'
      BY <1>0, <1>2 DEF Purge, DataFits, caseVars, OtpRecords, Kinds
    <2> QED
      BY <2>1, <2>2, TypePartsNext
  <1>3. ASSUME Void(t)
        PROVE  TypeOK'
    <2>1. CallsFit'
      BY <1>0, <1>3, GotoType, ReturnType DEF Void, PCs, CodePCs, CasePCs
    <2>2. DataFits'
      BY <1>0, <1>3, CodesType DEF Void, DataFits, caseVars
    <2> QED
      BY <2>1, <2>2, TypePartsNext
  <1>4. ASSUME Issue(t)
        PROVE  TypeOK'
    <2>1. CallsFit'
      BY <1>0, <1>4, GotoType, ReturnType DEF Issue, PCs, CodePCs, CasePCs
    <2>2. DataFits'
      <3>1. \A k \in Codes : otp'[k] \in OtpRecords
        BY <1>0, <1>4 DEF Issue, DataFits, OtpRecords, Kinds
      <3>2. otp' \in [Codes -> OtpRecords]
        BY <1>4, <3>1 DEF Issue
      <3> QED
        BY <1>0, <1>4, <3>2 DEF Issue, DataFits, caseVars
    <2> QED
      BY <2>1, <2>2, TypePartsNext
  <1>5. ASSUME NEW code \in Entered, VerifyHandoffOtp(t, code) \/ ValidateDeliveryOtp(t, code)
        PROVE  TypeOK'
    <2>1. CallsFit'
      <3>1. PICK pc \in {"find", "findLatest"} :
                call' = [call EXCEPT ![t].pc = pc, ![t].code = code]
        BY <1>5 DEF VerifyHandoffOtp, ValidateDeliveryOtp
      <3>2. code \in 0..MaxCodes
        BY <1>5, BoundsAreNat DEF Entered, Issued, Codes
      <3> DEFINE r == [call[t] EXCEPT !.pc = pc, !.code = code]
      <3>3. Fits(r)
        BY <1>0, <3>2 DEF Fits, CallRecords, PCs, CodePCs, CasePCs
      <3>4. call' = [call EXCEPT ![t] = r]
        BY <1>0, <3>1 DEF CallsFit
      <3> QED
        BY <1>0, <3>3, <3>4, SlotType
    <2>2. DataFits'
      BY <1>0, <1>5 DEF VerifyHandoffOtp, ValidateDeliveryOtp, DataFits, otpVars, caseVars
    <2> QED
      BY <2>1, <2>2, TypePartsNext
  <1>6. ASSUME FindOtp(t)
        PROVE  TypeOK'
    <2>1. otp' \in [Codes -> OtpRecords] /\ CallsFit'
      <3>1. CASE Return(t) /\ UNCHANGED otp
        BY <1>0, <3>1, ReturnType DEF DataFits
      <3>2. CASE \E k \in Latest(Unconsumed) :
                    \/ Mismatch(t, k)
                    \/ k = call[t].code /\ otp[k].st = "open" /\ Goto(t, "consume") /\ UNCHANGED otp
        <4>1. Latest(Unconsumed) \subseteq Codes /\ "consume" \in CodePCs
          BY DEF Latest, Unconsumed, CodePCs
        <4> QED
          BY <3>2, <4>1, LookupType
      <3> QED
        BY <1>6, <3>1, <3>2 DEF FindOtp
    <2>2. DataFits'
      BY <1>0, <1>6, <2>1 DEF FindOtp, DataFits, caseVars
    <2> QED
      BY <2>1, <2>2, TypePartsNext
  <1>7. ASSUME ConsumeOtp(t)
        PROVE  TypeOK'
    <2>0. call[t].code \in Codes /\ call[t].pc = "consume"
      BY <1>0, <1>7 DEF ConsumeOtp, At, Fits, CodePCs
    <2>1. CallsFit'
      <3> DEFINE r == [call[t] EXCEPT !.pc = "deliver", !.code = 0]
      <3>1. Fits(r)
        <4>1. 0 \in 0..MaxCodes
          BY BoundsAreNat
        <4> QED
          BY <1>0, <4>1 DEF Fits, CallRecords, PCs, CodePCs, CasePCs
      <3>2. call' = [call EXCEPT ![t] = r]
        BY <1>0, <1>7 DEF ConsumeOtp, CallsFit
      <3> QED
        BY <1>0, <3>1, <3>2, SlotType
    <2>2. DataFits'
      <3>1. otp' \in [Codes -> OtpRecords]
        BY <1>0, <1>7, <2>0 DEF ConsumeOtp, DataFits, OtpRecords
      <3>2. handed' \subseteq Kinds
        BY <1>0, <1>7, <2>0 DEF ConsumeOtp, DataFits, OtpRecords
      <3> QED
        BY <1>0, <1>7, <3>1, <3>2 DEF ConsumeOtp, DataFits, caseVars
    <2> QED
      BY <2>1, <2>2, TypePartsNext
  <1>8. ASSUME Deliver(t) \/ SetDelivered(t) \/ Settle(t)
        PROVE  TypeOK'
    <2>1. CallsFit'
      BY <1>0, <1>8, GotoType, ReturnType DEF Deliver, SetDelivered, Settle, PCs, CodePCs, CasePCs
    <2>2. DataFits'
      BY <1>0, <1>8
      DEF Deliver, SetDelivered, Settle, DataFits, otpVars, caseVars, WorkflowStatus, Final
    <2> QED
      BY <2>1, <2>2, TypePartsNext
  <1>9. ASSUME FindLatestOtp(t)
        PROVE  TypeOK'
    <2>1. otp' \in [Codes -> OtpRecords] /\ CallsFit'
      <3>1. CASE Return(t) /\ UNCHANGED otp
        BY <1>0, <3>1, ReturnType DEF DataFits
      <3>2. CASE \E k \in Latest(DeliveryCodes) :
                    \/ Mismatch(t, k)
                    \/ k = call[t].code /\ otp[k].st = "open" /\ Goto(t, "saveUsed") /\ UNCHANGED otp
        <4>1. Latest(DeliveryCodes) \subseteq Codes /\ "saveUsed" \in CodePCs
          BY DEF Latest, DeliveryCodes, CodePCs
        <4> QED
          BY <3>2, <4>1, LookupType
      <3> QED
        BY <1>9, <3>1, <3>2 DEF FindLatestOtp
    <2>2. DataFits'
      BY <1>0, <1>9, <2>1 DEF FindLatestOtp, DataFits, caseVars
    <2> QED
      BY <2>1, <2>2, TypePartsNext
  <1>10. ASSUME SaveUsed(t)
        PROVE  TypeOK'
    <2>0. call[t].code \in Codes
      BY <1>0, <1>10 DEF SaveUsed, At, Fits, CodePCs
    <2>1. CallsFit'
      <3> DEFINE r == [call[t] EXCEPT !.pc = "setDelivered", !.code = 0]
      <3>1. Fits(r)
        <4>1. 0 \in 0..MaxCodes
          BY BoundsAreNat
        <4> QED
          BY <1>0, <4>1 DEF Fits, CallRecords, PCs, CodePCs, CasePCs
      <3>2. CASE call' = [call EXCEPT ![t].pc = "setDelivered", ![t].code = 0]
        <4>1. call' = [call EXCEPT ![t] = r]
          BY <1>0, <3>2 DEF CallsFit
        <4> QED
          BY <1>0, <3>1, <4>1, SlotType
      <3>3. CASE Return(t)
        BY <1>0, <3>3, ReturnType
      <3> QED
        BY <1>10, <3>2, <3>3 DEF SaveUsed
    <2>2. DataFits'
      <3>1. otp' \in [Codes -> OtpRecords]
        BY <1>0, <1>10, <2>0 DEF SaveUsed, DataFits, OtpRecords, otpVars
      <3>2. handed' \subseteq Kinds
        BY <1>0, <1>10, <2>0 DEF SaveUsed, DataFits, OtpRecords, otpVars
      <3> QED
        BY <1>0, <1>10, <3>1, <3>2 DEF SaveUsed, DataFits, caseVars
    <2> QED
      BY <2>1, <2>2, TypePartsNext
  <1> QED
    BY <1>1, <1>2, <1>3, <1>4, <1>5, <1>6, <1>7, <1>8, <1>9, <1>10 DEF Handoff

LEMMA RefusalType ==
  ASSUME TypeOK, NEW t \in Calls, Refusal(t)
  PROVE  TypeOK'
  <1>0. DataFits /\ CallsFit
    BY TypeParts
  <1>1. CallsFit'
    BY <1>0, GotoType DEF Refusal, MarkRto, SaveRto, BookRto, PCs, CodePCs, CasePCs
  <1>2. DataFits'
    BY <1>0
    DEF Refusal, MarkRto, SaveRto, BookRto, DataFits, otpVars, caseVars, WorkflowStatus, Final
  <1> QED
    BY <1>1, <1>2, TypePartsNext

\* A request that starts to work on a case.
LEMMA TakeCaseType ==
  ASSUME CallsFit, NEW t \in Calls, NEW c \in Cases, NEW pc \in CasePCs,
         call' = [call EXCEPT ![t].pc = pc, ![t].case = c]
  PROVE  CallsFit'
  <1> DEFINE r == [call[t] EXCEPT !.pc = pc, !.case = c]
  <1>0. c \in 0..MaxCases
    BY BoundsAreNat DEF Cases
  <1>1. Fits(r)
    BY <1>0 DEF CallsFit, Fits, CallRecords, PCs, CodePCs, CasePCs
  <1>2. call' = [call EXCEPT ![t] = r]
    BY DEF CallsFit
  <1> QED
    BY <1>1, <1>2, SlotType

LEMMA UnreachableType ==
  ASSUME TypeOK, NEW t \in Calls, Unreachable(t)
  PROVE  TypeOK'
  <1>0. DataFits /\ CallsFit /\ Fits(call[t])
    BY TypeParts DEF CallsFit
  <1>1. ASSUME ReachedLocation(t) \/ CreateCase(t)
        PROVE  TypeOK'
    <2>1. CallsFit'
      BY <1>0, <1>1, GotoType, ReturnType DEF ReachedLocation, CreateCase, PCs, CodePCs, CasePCs
    <2>2. DataFits'
      BY <1>0, <1>1 DEF ReachedLocation, CreateCase, DataFits, otpVars, caseVars
    <2> QED
      BY <2>1, <2>2, TypePartsNext
  <1>2. ASSUME NEW c \in Cases, MarkUnreachable(t, c) \/ AdminRetry(t, c)
        PROVE  TypeOK'
    <2>1. CallsFit'
      BY <1>0, <1>2, TakeCaseType DEF MarkUnreachable, AdminRetry, CasePCs
    <2>2. DataFits'
      BY <1>0, <1>2 DEF MarkUnreachable, AdminRetry, DataFits, otpVars, caseVars
    <2> QED
      BY <2>1, <2>2, TypePartsNext
  <1>3. ASSUME NEW c \in Cases, AdminCancel(t, c)
        PROVE  TypeOK'
    <2>1. CallsFit'
      BY <1>0, <1>3, GotoType DEF AdminCancel, PCs, CodePCs, CasePCs
    <2>2. DataFits'
      BY <1>0, <1>3 DEF AdminCancel, DataFits, otpVars, WorkflowStatus, Final
    <2> QED
      BY <2>1, <2>2, TypePartsNext
  <1>4. ASSUME ReportCase(t) \/ UndoReport(t) \/ UndoRetry(t)
        PROVE  TypeOK'
    <2>1. call[t].case \in Cases
      BY <1>0, <1>4 DEF ReportCase, UndoReport, UndoRetry, At, Fits, CasePCs
    <2>2. CallsFit'
      BY <1>0, <1>4, <2>1, GotoType, ReturnType
      DEF ReportCase, ClaimCase, UndoReport, UndoRetry, PCs, CodePCs, CasePCs
    <2>3. DataFits'
      BY <1>0, <1>4, <2>1
      DEF ReportCase, ClaimCase, UndoReport, UndoRetry, DataFits, otpVars
    <2> QED
      BY <2>2, <2>3, TypePartsNext
  <1>5. ASSUME LeaveDelivery(t) \/ RetryDelivery(t) \/ Restock(t)
        PROVE  TypeOK'
    <2>1. call[t].pc \in CasePCs => call[t].case \in Cases
      BY <1>0 DEF Fits
    <2>2. CallsFit'
      BY <1>0, <1>5, <2>1, GotoType, ReturnType
      DEF LeaveDelivery, RetryDelivery, Restock, At, PCs, CodePCs, CasePCs
    <2>3. DataFits'
      BY <1>0, <1>5
      DEF LeaveDelivery, RetryDelivery, Restock, DataFits, otpVars, caseVars, WorkflowStatus, Final
    <2> QED
      BY <2>2, <2>3, TypePartsNext
  <1> QED
    BY <1>1, <1>2, <1>3, <1>4, <1>5 DEF Unreachable

LEMMA OtherType ==
  ASSUME TypeOK,
         \/ \E t \in Calls : Crash(t)
         \/ \E k \in Codes : CodeExpires(k)
         \/ \E c \in Cases : RecordCallAttempt(c)
  PROVE  TypeOK'
  <1>0. DataFits /\ CallsFit
    BY TypeParts
  <1>1. ASSUME NEW t \in Calls, Crash(t)
        PROVE  TypeOK'
    <2>1. CallsFit'
      BY <1>0, <1>1, ReturnType DEF Crash
    <2>2. DataFits'
      BY <1>0, <1>1, BoundsAreNat DEF Crash, DataFits, otpVars, caseVars
    <2> QED
      BY <2>1, <2>2, TypePartsNext
  <1>2. ASSUME NEW k \in Codes, CodeExpires(k)
        PROVE  TypeOK'
    <2>1. CallsFit'
      BY <1>0, <1>2, SameType DEF CodeExpires
    <2>2. DataFits'
      BY <1>0, <1>2, CodesType DEF CodeExpires, DataFits, caseVars, CodeStates
    <2> QED
      BY <2>1, <2>2, TypePartsNext
  <1>3. ASSUME NEW c \in Cases, RecordCallAttempt(c)
        PROVE  TypeOK'
    <2>1. CallsFit'
      BY <1>0, <1>3, SameType DEF RecordCallAttempt
    <2>2. DataFits'
      BY <1>0, <1>3 DEF RecordCallAttempt, DataFits, otpVars
    <2> QED
      BY <2>1, <2>2, TypePartsNext
  <1> QED
    BY <1>1, <1>2, <1>3

LEMMA TypeStep == TypeOK /\ [Next]_vars => TypeOK'
  <1> SUFFICES ASSUME TypeOK, [Next]_vars PROVE TypeOK'
    OBVIOUS
  <1>1. CASE UNCHANGED vars
    BY <1>1, TypeParts, TypePartsNext, SameType DEF vars, otpVars, caseVars, DataFits
  <1>2. CASE Next
    BY <1>2, HandoffType, RefusalType, UnreachableType, OtherType DEF Next
  <1> QED
    BY <1>1, <1>2

\* Every variable of a trip keeps to its values: statuses, codes, cases and the
\* requests in flight, whatever their number.
THEOREM DoorstepTypeCorrect == Spec => []TypeOK
  BY TypeInit, TypeStep, PTL DEF Spec

-----------------------------------------------------------------------------
(* The status: what a step may write to it.                                *)

LEMMA HandoffStatus ==
  ASSUME NEW t \in Calls, Handoff(t)
  PROVE  \/ wf' = wf
         \/ wf = "OUT_FOR_DELIVERY" /\ At(t, "deliver") /\ wf' = "DELIVERED"
         \/ At(t, "setDelivered") /\ wf' = "DELIVERED"
  BY DEF Handoff, RequestHandoffOtp, Purge, GenerateDeliveryOtp, Void, Issue, VerifyHandoffOtp,
         ValidateDeliveryOtp, FindOtp, ConsumeOtp, Deliver, DeliverGuard, FindLatestOtp, SaveUsed,
         SetDelivered, Settle

LEMMA RefusalStatus ==
  ASSUME NEW t \in Calls, Refusal(t)
  PROVE  \/ wf' = wf
         \/ At(t, "saveRto") /\ wf' = "RTO"
  BY DEF Refusal, MarkRto, SaveRto, BookRto

LEMMA UnreachableStatus ==
  ASSUME NEW t \in Calls, Unreachable(t)
  PROVE  \/ wf' = wf
         \/ wf = "OUT_FOR_DELIVERY" /\ At(t, "leave") /\ wf' = "CUSTOMER_UNREACHABLE"
         \/ wf = "CUSTOMER_UNREACHABLE" /\ wf' \in {"CANCELLED", "OUT_FOR_DELIVERY"}
  BY DEF Unreachable, ReachedLocation, CreateCase, MarkUnreachable, AdminCancel, CancelGuard,
         AdminRetry, ReportCase, LeaveDelivery, UndoReport, Restock, RetryDelivery, UndoRetry

LEMMA OtherStatus ==
  ASSUME \/ \E t \in Calls : Crash(t)
         \/ \E k \in Codes : CodeExpires(k)
         \/ \E c \in Cases : RecordCallAttempt(c)
         \/ UNCHANGED vars
  PROVE  wf' = wf
  BY DEF Crash, CodeExpires, RecordCallAttempt, vars

LEMMA FinalStays ==
  ASSUME [Next]_vars, wf \in Final
  PROVE  wf' \in Final
  BY HandoffStatus, RefusalStatus, UnreachableStatus, OtherStatus DEF Next, Final

\* The two writes that do not look at the status move their request on.
LEMMA BlindMoves ==
  ASSUME TypeOK, NEW t \in Calls, SetDelivered(t) \/ SaveRto(t)
  PROVE  call'[t] # call[t]
  <1>1. call \in [Calls -> CallRecords]
    BY DEF TypeOK
  <1>2. call[t].pc \in {"setDelivered", "saveRto"} /\ call'[t].pc \in {"settle", "bookRto"}
    BY <1>1 DEF SetDelivered, SaveRto, At, Goto, CallRecords
  <1> QED
    BY <1>2

LEMMA BlindStep ==
  ASSUME TypeOK, [Next]_vars, wf' # wf, wf \in Final
  PROVE  \E t \in Calls : call'[t] # call[t] /\ call[t].pc \in {"setDelivered", "saveRto"}
  <1>1. PICK t \in Calls : Handoff(t) \/ Refusal(t) \/ Unreachable(t)
    BY OtherStatus DEF Next
  <1>2. SetDelivered(t) \/ SaveRto(t)
    <2>1. \/ At(t, "setDelivered") /\ Handoff(t)
          \/ At(t, "saveRto") /\ Refusal(t)
      BY <1>1, HandoffStatus, RefusalStatus, UnreachableStatus DEF Final
    <2> QED
      BY <2>1
      DEF At, Handoff, RequestHandoffOtp, Purge, GenerateDeliveryOtp, Void, Issue, VerifyHandoffOtp,
          ValidateDeliveryOtp, FindOtp, ConsumeOtp, Deliver, FindLatestOtp, SaveUsed, Settle,
          Refusal, MarkRto, BookRto
  <1>3. call[t].pc \in {"setDelivered", "saveRto"}
    BY <1>2 DEF SetDelivered, SaveRto, At
  <1> QED
    BY <1>2, <1>3, BlindMoves

\* A trip that ended stays ended but for the two writes that do not look at the
\* status: validateDeliveryOtp's and markOrderRto's.
THEOREM FinalUnlessBlindHolds == Spec => FinalUnlessBlind
  <1>1. TypeOK /\ [Next]_vars => [wf' # wf /\ wf \in Final =>
           \E t \in Calls : call'[t] # call[t] /\ call[t].pc \in {"setDelivered", "saveRto"}]_vars
    BY BlindStep
  <1> QED
    BY <1>1, DoorstepTypeCorrect, PTL DEF Spec, FinalUnlessBlind

-----------------------------------------------------------------------------
(* The requests in flight: a step moves one of them.                       *)

LEMMA OneMoves ==
  ASSUME TypeOK, NEW t \in Calls, Handoff(t) \/ Refusal(t) \/ Unreachable(t) \/ Crash(t)
  PROVE  \A u \in Calls \ {t} : call'[u] = call[u]
  <1>0. call \in [Calls -> CallRecords]
    BY DEF TypeOK
  <1>1. CASE Handoff(t)
    BY <1>0, <1>1
    DEF Handoff, RequestHandoffOtp, Purge, GenerateDeliveryOtp, Void, Issue, VerifyHandoffOtp,
        ValidateDeliveryOtp, FindOtp, Mismatch, ConsumeOtp, Deliver, FindLatestOtp, SaveUsed,
        SetDelivered, Settle, Goto, Return
  <1>2. CASE Refusal(t) \/ Crash(t)
    BY <1>0, <1>2 DEF Refusal, MarkRto, SaveRto, BookRto, Crash, Goto, Return
  <1>3. CASE Unreachable(t)
    BY <1>0, <1>3
    DEF Unreachable, ReachedLocation, CreateCase, MarkUnreachable, AdminCancel, AdminRetry,
        ReportCase, ClaimCase, LeaveDelivery, UndoReport, Restock, RetryDelivery, UndoRetry,
        Goto, Return
  <1> QED
    BY <1>1, <1>2, <1>3

-----------------------------------------------------------------------------
(* The charge and the returned items.                                      *)

\* A request that is about to return the items works on an order that ended.
RestockIsLate == \A t \in Calls : At(t, "restock") => wf \in Final

ChargeInv == ChargedOnce /\ RestockIsLate

\* Who charges, who returns the items, and who is about to.
LEMMA ChargeEffect ==
  ASSUME TypeOK, NEW t \in Calls, Handoff(t) \/ Refusal(t) \/ Unreachable(t) \/ Crash(t)
  PROVE  \/ /\ wf = "CUSTOMER_UNREACHABLE" /\ wf' = "CANCELLED"
            /\ charges' \in {charges, charges + 1} /\ UNCHANGED booked
         \/ /\ UNCHANGED charges
            /\ "items" \in booked' => "items" \in booked \/ At(t, "restock")
            /\ call'[t].pc # "restock"
  <1>0. call \in [Calls -> CallRecords] /\ Idle.pc # "restock"
    BY DEF TypeOK, Idle
  <1>1. CASE Handoff(t)
    <2> DEFINE Uncharged == /\ UNCHANGED charges
                            /\ "items" \in booked' => "items" \in booked
                            /\ call'[t].pc # "restock"
    <2>1. CASE RequestHandoffOtp(t) \/ Purge(t) \/ GenerateDeliveryOtp(t) \/ Void(t) \/ Issue(t)
      <3>1. Uncharged
        BY <1>0, <2>1
        DEF RequestHandoffOtp, Purge, GenerateDeliveryOtp, Void, Issue, Goto, Return, CallRecords
      <3> QED
        BY <3>1
    <2>2. CASE \E code \in Entered : VerifyHandoffOtp(t, code) \/ ValidateDeliveryOtp(t, code)
      <3>1. Uncharged
        BY <1>0, <2>2 DEF VerifyHandoffOtp, ValidateDeliveryOtp, CallRecords
      <3> QED
        BY <3>1
    <2>3. CASE FindOtp(t) \/ FindLatestOtp(t)
      <3>1. Uncharged
        BY <1>0, <2>3 DEF FindOtp, FindLatestOtp, Mismatch, Goto, Return, CallRecords
      <3> QED
        BY <3>1
    <2>4. CASE ConsumeOtp(t) \/ SaveUsed(t) \/ Settle(t)
      <3>1. Uncharged
        BY <1>0, <2>4 DEF ConsumeOtp, SaveUsed, Settle, Goto, Return, CallRecords
      <3> QED
        BY <3>1
    <2>5. CASE Deliver(t) \/ SetDelivered(t)
      <3>1. Uncharged
        BY <1>0, <2>5 DEF Deliver, SetDelivered, Goto, Return, CallRecords
      <3> QED
        BY <3>1
    <2> QED
      BY <1>1, <2>1, <2>2, <2>3, <2>4, <2>5 DEF Handoff
  <1>2. CASE Refusal(t) \/ Crash(t)
    BY <1>0, <1>2 DEF Refusal, MarkRto, SaveRto, BookRto, Crash, Goto, Return, CallRecords
  <1>3. CASE Unreachable(t)
    BY <1>0, <1>3
    DEF Unreachable, ReachedLocation, CreateCase, MarkUnreachable, AdminCancel, CancelGuard,
        AdminRetry, ReportCase, ClaimCase, LeaveDelivery, UndoReport, Restock, RetryDelivery,
        UndoRetry, Goto, Return, CallRecords
  <1> QED
    BY <1>1, <1>2, <1>3

LEMMA ChargeStep == TypeOK /\ ChargeInv /\ [Next]_vars => ChargeInv'
  <1> SUFFICES ASSUME TypeOK, ChargeInv, [Next]_vars PROVE ChargeInv'
    OBVIOUS
  <1> USE DEF ChargeInv, ChargedOnce, RestockIsLate, At
  <1>0. wf \in Final => wf' \in Final
    BY FinalStays
  <1>1. CASE UNCHANGED <<charges, booked, call>>
    BY <1>0, <1>1
  <1>2. ASSUME NEW t \in Calls, Handoff(t) \/ Refusal(t) \/ Unreachable(t) \/ Crash(t)
        PROVE  ChargeInv'
    <2>1. \A u \in Calls \ {t} : call'[u] = call[u]
      BY <1>2, OneMoves
    <2>2. CASE /\ wf = "CUSTOMER_UNREACHABLE" /\ wf' = "CANCELLED"
               /\ charges' \in {charges, charges + 1} /\ UNCHANGED booked
      <3>1. charges = 0
        BY <2>2 DEF TypeOK, Final
      <3> QED
        BY <2>2, <3>1 DEF Final
    <2>3. CASE /\ UNCHANGED charges
               /\ "items" \in booked' => "items" \in booked \/ At(t, "restock")
               /\ call'[t].pc # "restock"
      BY <1>0, <2>1, <2>3
    <2> QED
      BY <1>2, <2>2, <2>3, ChargeEffect
  <1> QED
    BY <1>1, <1>2 DEF Next, CodeExpires, RecordCallAttempt, vars

\* The customer is charged at most once, and an order that was charged for or whose
\* items went back stays out of delivery: adminCancelCase cancels order, case and charge
\* in one transaction, and no later write revives a cancelled order.
THEOREM ChargedOnceHolds == Spec => []ChargedOnce
  <1>1. Init => ChargeInv
    BY DEF Init, ChargeInv, ChargedOnce, RestockIsLate, At, Idle
  <1>2. ChargeInv => ChargedOnce
    BY DEF ChargeInv
  <1> QED
    BY <1>1, <1>2, ChargeStep, DoorstepTypeCorrect, PTL DEF Spec

-----------------------------------------------------------------------------
(* The codes and the delivery.                                             *)

AfterRto == {"bookRto", "voidDrop", "issueDrop"}

\* The documents are numbered as they are created.
CodesInOrder == \E n \in 0..MaxCodes : Issued = 1..n

\* A code for a returned order exists only when the order has ended.
DropsAreLate == \A k \in Codes : otp[k].kind = "return_drop" => wf \in Final

\* What a request that has got so far shows about the order and its codes.
Earned(r) ==
    /\ r.pc \in AfterRto => wf \in Final
    /\ r.pc = "consume" => r.code \in Issued
    /\ r.pc = "saveUsed" => r.code \in Issued /\ otp[r.code].kind = "delivery"
    /\ r.pc = "setDelivered" => "delivery" \in handed
    /\ r.pc = "deliver" => "delivery" \in handed \/ wf \in Final

CodeInv ==
    /\ CodesInOrder /\ DropsAreLate /\ DeliveredByCode
    /\ \A t \in Calls : Earned(call[t])

\* What no step takes back.
Grows ==
    /\ wf \in Final => wf' \in Final
    /\ handed \subseteq handed'
    /\ Issued \subseteq Issued'
    /\ \A k \in Issued : otp'[k].kind = otp[k].kind

LEMMA EarnedStays ==
  ASSUME Grows
  PROVE  \A r : Earned(r) => Earned(r)'
  BY DEF Grows, Earned

\* A step that makes no code.
OldCodes ==
    \A k \in Codes : /\ otp'[k].kind = otp[k].kind
                     /\ otp'[k].st = "none" <=> otp[k].st = "none"

LEMMA SetOld ==
  ASSUME TypeOK, NEW k \in Codes, otp[k].st # "none", NEW st, st # "none",
         otp' = [otp EXCEPT ![k].st = st]
  PROVE  OldCodes
  BY DEF TypeOK, OtpRecords, OldCodes

LEMMA ConsumedOld ==
  ASSUME TypeOK, NEW kind, otp' = Consumed(kind)
  PROVE  OldCodes
  <1>1. otp \in [Codes -> OtpRecords]
    BY DEF TypeOK
  <1> QED
    BY <1>1 DEF OldCodes, Consumed, Unconsumed, OtpRecords

LEMMA MismatchOld ==
  ASSUME TypeOK, NEW t \in Calls, NEW k \in Codes, Mismatch(t, k)
  PROVE  OldCodes
  <1>1. CASE UNCHANGED otp
    BY <1>1 DEF OldCodes
  <1>2. CASE otp' = [otp EXCEPT ![k].st = "dead"]
    BY <1>2, SetOld DEF Mismatch
  <1> QED
    BY <1>1, <1>2 DEF Mismatch

LEMMA CodesKept ==
  ASSUME TypeOK, CodeInv, NEW t \in Calls, Handoff(t), ~Issue(t)
  PROVE  OldCodes /\ handed \subseteq handed'
  <1>0. otp \in [Codes -> OtpRecords] /\ Earned(call[t])
    BY DEF TypeOK, CodeInv
  <1>1. CASE UNCHANGED <<otp, handed>>
    BY <1>1 DEF OldCodes
  <1>2. CASE Purge(t) \/ Void(t)
    <2>1. CASE Purge(t)
      BY <1>0, <2>1 DEF Purge, OldCodes, Unconsumed, OtpRecords
    <2>2. CASE Void(t)
      BY <2>2, ConsumedOld DEF Void
    <2> QED
      BY <1>2, <2>1, <2>2 DEF Purge, Void
  <1>3. CASE FindOtp(t) \/ FindLatestOtp(t)
    <2>1. Latest(Unconsumed) \subseteq Codes /\ Latest(DeliveryCodes) \subseteq Codes
      BY DEF Latest, Unconsumed, DeliveryCodes
    <2>2. UNCHANGED otp \/ \E k \in Codes : Mismatch(t, k)
      BY <1>3, <2>1 DEF FindOtp, FindLatestOtp
    <2>3. UNCHANGED otp => OldCodes
      BY DEF OldCodes
    <2> QED
      BY <1>3, <2>2, <2>3, MismatchOld DEF FindOtp, FindLatestOtp
  <1>4. CASE ConsumeOtp(t) \/ SaveUsed(t)
    <2>1. CASE otp' = [otp EXCEPT ![call[t].code].st = "used"]
      <3>1. call[t].code \in Codes /\ otp[call[t].code].st # "none"
        BY <1>0, <1>4 DEF ConsumeOtp, SaveUsed, At, Earned, Issued
      <3> QED
        BY <1>4, <2>1, <3>1, SetOld DEF ConsumeOtp, SaveUsed, otpVars
    <2>2. CASE UNCHANGED otp
      BY <1>4, <2>2 DEF OldCodes, ConsumeOtp, SaveUsed, otpVars
    <2>3. CASE ConsumeOtp(t)
      <3>1. call[t].code \in Codes /\ otp[call[t].code].st # "none"
        BY <1>0, <2>3 DEF ConsumeOtp, At, Earned, Issued
      <3> QED
        BY <1>0, <2>3, <3>1 DEF ConsumeOtp, OldCodes, OtpRecords
    <2> QED
      BY <1>4, <2>1, <2>2, <2>3 DEF SaveUsed, otpVars
  <1> QED
    BY <1>1, <1>2, <1>3, <1>4
    DEF Handoff, RequestHandoffOtp, GenerateDeliveryOtp, VerifyHandoffOtp, ValidateDeliveryOtp,
        Deliver, SetDelivered, Settle, otpVars

\* A new code gets the next number: no code that exists is overwritten.
LEMMA IssueNext ==
  ASSUME TypeOK, CodeInv, NEW t \in Calls, Issue(t)
  PROVE  /\ CodesInOrder'
         /\ Issued \subseteq Issued'
         /\ \A k \in Issued : otp'[k].kind = otp[k].kind
         /\ \A k \in Codes : otp'[k].kind = "return_drop" =>
                otp[k].kind = "return_drop" \/ At(t, "issueDrop")
  <1>0. otp \in [Codes -> OtpRecords]
    BY DEF TypeOK
  <1>1. PICK n \in 0..MaxCodes : Issued = 1..n
    BY DEF CodeInv, CodesInOrder
  <1>2. n \in Nat /\ Cardinality(Issued) = n
    BY <1>1, BoundsAreNat, FS_Interval
  <1>3. \A k \in Codes : k # n + 1 => otp'[k] = otp[k]
    BY <1>0, <1>2 DEF Issue
  <1>4. n + 1 \in Codes =>
           /\ otp'[n + 1].st = "open"
           /\ otp'[n + 1].kind = "return_drop" => At(t, "issueDrop")
    BY <1>2 DEF Issue, At
  <1>5. Issued' = IF n + 1 \in Codes THEN 1..(n + 1) ELSE 1..n
    <2>1. \A k \in Codes : k \in Issued' <=> k \in 1..n \/ k = n + 1
      BY <1>1, <1>3, <1>4 DEF Issued
    <2>2. Issued' \subseteq Codes
      BY DEF Issued
    <2>3. 1..n \subseteq Codes
      BY <1>2, BoundsAreNat DEF Codes
    <2>4. 1..(n + 1) = (1..n) \cup {n + 1}
      BY <1>2
    <2>5. Issued' = IF n + 1 \in Codes THEN (1..n) \cup {n + 1} ELSE 1..n
      BY <2>1, <2>2, <2>3
    <2> QED
      BY <2>4, <2>5
  <1>6. CodesInOrder'
    BY <1>1, <1>2, <1>5, BoundsAreNat DEF CodesInOrder, Codes
  <1>7. n + 1 \notin Issued
    BY <1>1, <1>2
  <1> QED
    BY <1>1, <1>2, <1>3, <1>4, <1>5, <1>6, <1>7 DEF Issued

LEMMA OldInOrder ==
  ASSUME OldCodes
  PROVE  Issued' = Issued /\ (CodesInOrder => CodesInOrder')
  <1>1. Issued' = Issued
    BY DEF OldCodes, Issued
  <1> QED
    BY <1>1 DEF CodesInOrder

LEMMA OtherOld ==
  ASSUME TypeOK,
         \/ \E t \in Calls : Refusal(t) \/ Unreachable(t) \/ Crash(t)
         \/ \E k \in Codes : CodeExpires(k)
         \/ \E c \in Cases : RecordCallAttempt(c)
         \/ UNCHANGED vars
  PROVE  OldCodes /\ UNCHANGED handed
  <1>1. CASE UNCHANGED otpVars
    BY <1>1 DEF otpVars, OldCodes
  <1>2. ASSUME NEW k \in Codes, CodeExpires(k)
        PROVE  OldCodes /\ UNCHANGED handed
    BY <1>2, SetOld DEF CodeExpires
  <1> QED
    BY <1>1, <1>2
    DEF Refusal, MarkRto, SaveRto, BookRto, Crash, RecordCallAttempt, vars,
        Unreachable, ReachedLocation, CreateCase, MarkUnreachable, AdminCancel, AdminRetry,
        ReportCase, LeaveDelivery, UndoReport, Restock, RetryDelivery, UndoRetry

LEMMA CodesGrow ==
  ASSUME TypeOK, CodeInv, [Next]_vars
  PROVE  Grows /\ CodesInOrder' /\ DropsAreLate'
  <1>0. wf \in Final => wf' \in Final
    BY FinalStays
  <1>1. CASE OldCodes /\ handed \subseteq handed'
    <2>1. Issued' = Issued /\ CodesInOrder'
      BY <1>1, OldInOrder DEF CodeInv
    <2>2. DropsAreLate'
      BY <1>0, <1>1 DEF CodeInv, DropsAreLate, OldCodes
    <2> QED
      BY <1>0, <1>1, <2>1, <2>2 DEF Grows, OldCodes, Issued
  <1>2. ASSUME NEW t \in Calls, Issue(t)
        PROVE  Grows /\ CodesInOrder' /\ DropsAreLate'
    <2>1. At(t, "issueDrop") => wf \in Final
      BY DEF CodeInv, Earned, AfterRto, At
    <2>2. wf' = wf /\ handed' = handed
      BY <1>2 DEF Issue
    <2>3. DropsAreLate'
      BY <1>2, <2>1, <2>2, IssueNext DEF CodeInv, DropsAreLate
    <2> QED
      BY <1>0, <1>2, <2>2, <2>3, IssueNext DEF Grows
  <1>3. \/ OldCodes /\ handed \subseteq handed'
        \/ \E t \in Calls : Issue(t)
    BY CodesKept, OtherOld DEF Next
  <1> QED
    BY <1>1, <1>2, <1>3

\* The request that moves has earned where it gets.
LEMMA MoverEarns ==
  ASSUME TypeOK, CodeInv, NEW t \in Calls,
         Handoff(t) \/ Refusal(t) \/ Unreachable(t) \/ Crash(t)
  PROVE  Earned(call[t])'
  <1>0. call \in [Calls -> CallRecords] /\ otp \in [Codes -> OtpRecords] /\ Earned(call[t])
    BY DEF TypeOK, CodeInv
  <1> DEFINE Watched == AfterRto \cup {"consume", "saveUsed", "setDelivered", "deliver"}
  <1>1. CASE call'[t].pc \notin Watched
    BY <1>1 DEF Earned, AfterRto
  <1>2. CASE Return(t)
    BY <1>0, <1>1, <1>2 DEF Return, Idle, AfterRto
  <1>3. CASE Unreachable(t) \/ Crash(t)
    BY <1>0, <1>1, <1>2, <1>3
    DEF Unreachable, ReachedLocation, CreateCase, MarkUnreachable, AdminCancel, AdminRetry,
        ReportCase, ClaimCase, LeaveDelivery, UndoReport, Restock, RetryDelivery, UndoRetry,
        Crash, Goto, CallRecords, AfterRto
  <1>4. CASE Refusal(t)
    <2>1. CASE MarkRto(t)
      BY <1>0, <1>1, <2>1 DEF MarkRto, Goto, CallRecords, AfterRto
    <2>2. CASE SaveRto(t)
      BY <1>0, <2>2 DEF SaveRto, Goto, CallRecords, Earned, AfterRto, Final
    <2>3. CASE BookRto(t)
      BY <1>0, <2>3 DEF BookRto, At, Goto, CallRecords, Earned, AfterRto
    <2> QED
      BY <1>4, <2>1, <2>2, <2>3 DEF Refusal
  <1>5. CASE Handoff(t)
    <2>1. CASE Void(t)
      BY <1>0, <2>1 DEF Void, At, Goto, CallRecords, Earned, AfterRto
    <2>2. CASE FindOtp(t)
      <3>1. Latest(Unconsumed) \subseteq Issued
        BY DEF Latest, Unconsumed, Issued
      <3>2. CASE Goto(t, "consume") /\ UNCHANGED otp /\ call[t].code \in Issued
        BY <1>0, <3>2 DEF Goto, CallRecords, Earned, AfterRto, Issued
      <3> QED
        BY <1>2, <2>2, <3>1, <3>2 DEF FindOtp, Mismatch
    <2>3. CASE ConsumeOtp(t)
      <3>1. call[t].code \in Codes
        BY <1>0, <2>3 DEF ConsumeOtp, At, Earned, Issued
      <3>2. otp[call[t].code].kind = "delivery" \/ wf \in Final
        BY <1>0, <3>1 DEF CodeInv, DropsAreLate, OtpRecords, Kinds
      <3> QED
        BY <1>0, <2>3, <3>2 DEF ConsumeOtp, CallRecords, Earned, AfterRto
    <2>4. CASE FindLatestOtp(t)
      <3>1. \A k \in Latest(DeliveryCodes) : k \in Issued /\ otp[k].kind = "delivery"
        BY DEF Latest, DeliveryCodes, Issued
      <3>2. CASE /\ Goto(t, "saveUsed") /\ UNCHANGED otp
                 /\ call[t].code \in Issued /\ otp[call[t].code].kind = "delivery"
        BY <1>0, <3>2 DEF Goto, CallRecords, Earned, AfterRto, Issued
      <3> QED
        BY <1>2, <2>4, <3>1, <3>2 DEF FindLatestOtp, Mismatch
    <2>5. CASE SaveUsed(t)
      BY <1>0, <1>2, <2>5 DEF SaveUsed, At, CallRecords, Earned, AfterRto
    <2> QED
      BY <1>0, <1>1, <1>2, <1>5, <2>1, <2>2, <2>3, <2>4, <2>5
      DEF Handoff, RequestHandoffOtp, Purge, GenerateDeliveryOtp, Issue, VerifyHandoffOtp,
          ValidateDeliveryOtp, Deliver, SetDelivered, Settle, Goto, CallRecords, AfterRto
  <1> QED
    BY <1>3, <1>4, <1>5

LEMMA DeliveryEarned ==
  ASSUME TypeOK, CodeInv, [Next]_vars
  PROVE  DeliveredByCode'
  <1>1. handed \subseteq handed'
    BY CodesGrow DEF Grows
  <1>2. ASSUME NEW t \in Calls,
               \/ wf = "OUT_FOR_DELIVERY" /\ At(t, "deliver")
               \/ At(t, "setDelivered")
        PROVE  "delivery" \in handed
    BY <1>2 DEF CodeInv, Earned, At, Final
  <1>3. wf' = "DELIVERED" => wf = "DELIVERED" \/ "delivery" \in handed
    BY <1>2, HandoffStatus, RefusalStatus, UnreachableStatus, OtherStatus DEF Next
  <1> QED
    BY <1>1, <1>3 DEF CodeInv, DeliveredByCode

LEMMA CodeStep == TypeOK /\ CodeInv /\ [Next]_vars => CodeInv'
  <1> SUFFICES ASSUME TypeOK, CodeInv, [Next]_vars PROVE CodeInv'
    OBVIOUS
  <1>1. Grows /\ CodesInOrder' /\ DropsAreLate' /\ DeliveredByCode'
    BY CodesGrow, DeliveryEarned
  <1>2. \A r : Earned(r) => Earned(r)'
    BY <1>1, EarnedStays
  <1>3. ASSUME NEW u \in Calls, call'[u] = call[u]
        PROVE  Earned(call[u])'
    BY <1>2, <1>3 DEF CodeInv, Earned
  <1>4. \A u \in Calls : Earned(call[u])'
    <2>1. CASE UNCHANGED call
      BY <1>3, <2>1
    <2>2. ASSUME NEW t \in Calls, Handoff(t) \/ Refusal(t) \/ Unreachable(t) \/ Crash(t)
          PROVE  \A u \in Calls : Earned(call[u])'
      BY <1>3, <2>2, OneMoves, MoverEarns
    <2> QED
      BY <2>1, <2>2 DEF Next, CodeExpires, RecordCallAttempt, vars
  <1> QED
    BY <1>1, <1>4 DEF CodeInv

LEMMA CodeInit == Init => CodeInv
  <1> SUFFICES ASSUME Init PROVE CodeInv
    OBVIOUS
  <1>1. Issued = {} /\ 0 \in 0..MaxCodes /\ {} = 1..0
    BY BoundsAreNat DEF Init, Issued, NoOtp
  <1> QED
    BY <1>1
    DEF Init, CodeInv, CodesInOrder, DropsAreLate, DeliveredByCode, Earned, AfterRto, NoOtp, Idle

\* An order is delivered only after a code made for its delivery was matched:
\* verifyHandoffOtpAndDeliver takes codes of any kind, but the code of a returned order
\* exists only when the order can no longer be delivered through it.
THEOREM DeliveredByCodeHolds == Spec => []DeliveredByCode
  <1>1. CodeInv => DeliveredByCode
    BY DEF CodeInv
  <1> QED
    BY <1>1, CodeInit, CodeStep, DoorstepTypeCorrect, PTL DEF Spec

-----------------------------------------------------------------------------
(* The report of an unreachable customer.                                  *)

Reporting(t, c) == call[t].pc \in {"leave", "unreport"} /\ call[t].case = c

Awaits(c) == case[c] \in {"CUSTOMER_UNREACHABLE", "RETRY"}

Claimed(c) == case[c] \notin {"none", "REACHED"}

\* One request at a time reports a case: it is the one that will undo the report.
OneReport ==
    \A c \in Cases : \A t, u \in Calls : Reporting(t, c) /\ Reporting(u, c) => t = u

\* Its case stays out of reach of other reports, and keeps waiting while the order
\* has not ended.
ReportStands ==
    \A t \in Calls : \A c \in Cases : Reporting(t, c) =>
        /\ Claimed(c)
        /\ At(t, "leave") => Awaits(c) \/ wf \in Final

\* An order that waits for an admin has a case that no request is about to undo.
ReportDone ==
    wf = "CUSTOMER_UNREACHABLE" =>
        \E c \in Cases : Awaits(c) /\ \A t \in Calls : ~Reporting(t, c)

CaseInv == OneReport /\ ReportStands /\ ReportDone

\* A step that neither starts, ends nor undoes a report.
Untouched ==
    /\ \A t \in Calls : \A c \in Cases :
          Reporting(t, c)' => Reporting(t, c) /\ (At(t, "leave")' => At(t, "leave"))
    /\ \A c \in Cases : /\ Claimed(c) => Claimed(c)'
                        /\ Awaits(c) => Awaits(c)' \/ wf' \in Final
    /\ wf' = "CUSTOMER_UNREACHABLE" => wf = "CUSTOMER_UNREACHABLE"
    /\ wf \in Final => wf' \in Final

LEMMA UntouchedKeeps ==
  ASSUME CaseInv, Untouched
  PROVE  CaseInv'
  <1>1. OneReport'
    BY DEF CaseInv, OneReport, Untouched
  <1>2. ReportStands'
    BY DEF CaseInv, ReportStands, Untouched
  <1>3. ReportDone'
    BY DEF CaseInv, ReportDone, Untouched, Final
  <1> QED
    BY <1>1, <1>2, <1>3 DEF CaseInv

\* Requests that move elsewhere.
LEMMA NoReport ==
  ASSUME TypeOK, NEW t \in Calls, \A u \in Calls \ {t} : call'[u] = call[u],
         call'[t].pc \notin {"leave", "unreport"}
  PROVE  \A u \in Calls : \A c \in Cases :
            Reporting(u, c)' => Reporting(u, c) /\ (At(u, "leave")' => At(u, "leave"))
  BY DEF TypeOK, Reporting, At

LEMMA ReportStep ==
  ASSUME TypeOK, CaseInv, NEW t \in Calls, ReportCase(t)
  PROVE  CaseInv'
  <1> DEFINE c == call[t].case
  <1>0. call \in [Calls -> CallRecords] /\ c \in Cases
    BY DEF TypeOK, ReportCase, At
  <1>1. \A u \in Calls \ {t} : call'[u] = call[u]
    BY OneMoves DEF Unreachable
  <1>2. CASE case[c] # "REACHED"
    <2>1. call'[t].pc \notin {"leave", "unreport"}
      BY <1>0, <1>2 DEF ReportCase, ClaimCase, Return, Idle
    <2>2. wf' = wf /\ case' = case
      BY <1>2 DEF ReportCase, ClaimCase
    <2> QED
      BY <1>1, <2>1, <2>2, NoReport, UntouchedKeeps DEF Untouched, Awaits, Claimed
  <1>3. CASE case[c] = "REACHED"
    <2>1. /\ wf' = wf
          /\ case' = [case EXCEPT ![c] = "CUSTOMER_UNREACHABLE"]
          /\ call'[t].pc = "leave" /\ call'[t].case = c
      BY <1>0, <1>3 DEF ReportCase, ClaimCase, Goto, CallRecords
    <2>2. \A u \in Calls : ~Reporting(u, c)
      BY <1>0, <1>3 DEF CaseInv, ReportStands, Claimed
    <2>3. \A u \in Calls : \A d \in Cases :
             Reporting(u, d)' <=> (u = t /\ d = c) \/ (u # t /\ Reporting(u, d))
      BY <1>1, <2>1 DEF Reporting
    <2>4. \A d \in Cases : case'[d] = IF d = c THEN "CUSTOMER_UNREACHABLE" ELSE case[d]
      BY <1>0, <2>1 DEF TypeOK
    <2>5. ~Reporting(t, c) /\ \A d \in Cases : ~Reporting(t, d)
      BY <2>2 DEF ReportCase, At, Reporting
    <2>6. OneReport'
      BY <2>2, <2>3 DEF CaseInv, OneReport
    <2>7. ReportStands'
      BY <1>1, <2>1, <2>3, <2>4, <2>5 DEF CaseInv, ReportStands, Claimed, Awaits, At
    <2>8. ReportDone'
      <3>1. \A d \in Cases : Awaits(d) => d # c /\ Awaits(d)'
        BY <1>3, <2>4 DEF Awaits
      <3> QED
        BY <2>1, <2>3, <3>1 DEF CaseInv, ReportDone
    <2> QED
      BY <2>6, <2>7, <2>8 DEF CaseInv
  <1> QED
    BY <1>2, <1>3

LEMMA LeaveStep ==
  ASSUME TypeOK, CaseInv, NEW t \in Calls, LeaveDelivery(t)
  PROVE  CaseInv'
  <1> DEFINE c == call[t].case
  <1>0. call \in [Calls -> CallRecords] /\ c \in Cases /\ Reporting(t, c) /\ At(t, "leave")
    BY DEF TypeOK, LeaveDelivery, At, Reporting
  <1>1. \A u \in Calls \ {t} : call'[u] = call[u]
    BY OneMoves DEF Unreachable
  <1>2. case' = case
    BY DEF LeaveDelivery, caseVars
  <1>3. \A u \in Calls \ {t} : ~Reporting(u, c)
    BY <1>0 DEF CaseInv, OneReport
  <1>4. CASE wf = "OUT_FOR_DELIVERY"
    <2>1. wf' = "CUSTOMER_UNREACHABLE" /\ call'[t].pc = "idle"
      BY <1>0, <1>4 DEF LeaveDelivery, Return, Idle
    <2>2. case'[c] \in {"CUSTOMER_UNREACHABLE", "RETRY"}
      BY <1>0, <1>2, <1>4 DEF CaseInv, ReportStands, Awaits, Final
    <2>3. \A u \in Calls : \A d \in Cases :
             Reporting(u, d)' => u # t /\ Reporting(u, d) /\ call'[u] = call[u]
      BY <1>1, <2>1 DEF Reporting
    <2>4. OneReport'
      BY <2>3 DEF CaseInv, OneReport
    <2>5. ReportStands'
      BY <1>2, <1>4, <2>1, <2>3 DEF CaseInv, ReportStands, Claimed, Awaits, Final, At
    <2>6. ReportDone'
      BY <1>0, <1>3, <2>2, <2>3 DEF ReportDone, Awaits
    <2> QED
      BY <2>4, <2>5, <2>6 DEF CaseInv
  <1>5. CASE wf # "OUT_FOR_DELIVERY"
    <2>1. wf' = wf /\ call'[t].pc = "unreport" /\ call'[t].case = c
      BY <1>0, <1>5 DEF LeaveDelivery, Goto, CallRecords
    <2>2. \A u \in Calls : \A d \in Cases : Reporting(u, d)' <=> Reporting(u, d)
      BY <1>0, <1>1, <2>1 DEF Reporting
    <2>3. \A u \in Calls : At(u, "leave")' => At(u, "leave")
      BY <1>0, <1>1 DEF At
    <2> QED
      BY <1>2, <2>1, <2>2, <2>3, UntouchedKeeps DEF Untouched, Claimed, Awaits
  <1> QED
    BY <1>4, <1>5

LEMMA UndoStep ==
  ASSUME TypeOK, CaseInv, NEW t \in Calls, UndoReport(t)
  PROVE  CaseInv'
  <1> DEFINE c == call[t].case
  <1>0. call \in [Calls -> CallRecords] /\ c \in Cases /\ Reporting(t, c)
    BY DEF TypeOK, UndoReport, At, Reporting
  <1>1. \A u \in Calls \ {t} : call'[u] = call[u]
    BY OneMoves DEF Unreachable
  <1>2. wf' = wf /\ call'[t].pc = "idle"
    BY <1>0 DEF UndoReport, Return, Idle
  <1>3. \A d \in Cases : case'[d] = IF d = c THEN "REACHED" ELSE case[d]
    BY <1>0 DEF TypeOK, UndoReport
  <1>4. \A u \in Calls : \A d \in Cases :
           Reporting(u, d)' => u # t /\ d # c /\ Reporting(u, d) /\ call'[u] = call[u]
    <2>1. \A u \in Calls \ {t} : ~Reporting(u, c)
      BY <1>0 DEF CaseInv, OneReport
    <2> QED
      BY <1>1, <1>2, <2>1 DEF Reporting
  <1>5. OneReport'
    BY <1>4 DEF CaseInv, OneReport
  <1>6. ReportStands'
    BY <1>2, <1>3, <1>4 DEF CaseInv, ReportStands, Claimed, Awaits, At
  <1>7. ReportDone'
    BY <1>0, <1>2, <1>3, <1>4 DEF CaseInv, ReportDone, Awaits
  <1> QED
    BY <1>5, <1>6, <1>7 DEF CaseInv

LEMMA UntouchedStep ==
  ASSUME TypeOK, [Next]_vars,
         ~\E t \in Calls : ReportCase(t) \/ LeaveDelivery(t) \/ UndoReport(t)
  PROVE  Untouched
  <1>0. call \in [Calls -> CallRecords] /\ wf \in WorkflowStatus
    BY DEF TypeOK
  <1>1. wf \in Final => wf' \in Final
    BY FinalStays
  <1>2. wf' = "CUSTOMER_UNREACHABLE" => wf = "CUSTOMER_UNREACHABLE"
    <2>1. ASSUME NEW t \in Calls, Unreachable(t), wf = "OUT_FOR_DELIVERY", At(t, "leave")
          PROVE  LeaveDelivery(t)
      BY <2>1
      DEF Unreachable, ReachedLocation, CreateCase, MarkUnreachable, AdminCancel, CancelGuard,
          AdminRetry, ReportCase, UndoReport, Restock, RetryDelivery, UndoRetry, At
    <2> QED
      BY <2>1, HandoffStatus, RefusalStatus, UnreachableStatus, OtherStatus DEF Next
  <1>3. \A c \in Cases : /\ Claimed(c) => Claimed(c)'
                         /\ Awaits(c) => Awaits(c)' \/ wf' \in Final
    <2>1. CASE UNCHANGED case
      BY <2>1 DEF Claimed, Awaits
    <2>2. ASSUME NEW t \in Calls, CreateCase(t)
          PROVE  \A c \in Cases : /\ Claimed(c) => Claimed(c)'
                                  /\ Awaits(c) => Awaits(c)'
      BY <2>2 DEF CreateCase, Claimed, Awaits, TypeOK
    <2>3. ASSUME NEW t \in Calls, NEW d \in Cases, AdminCancel(t, d) \/ AdminRetry(t, d)
          PROVE  \A c \in Cases : /\ Claimed(c) => Claimed(c)'
                                  /\ Awaits(c) => Awaits(c)' \/ wf' \in Final
      BY <2>3 DEF AdminCancel, AdminRetry, Claimed, Awaits, TypeOK, Final
    <2>4. ASSUME NEW t \in Calls, UndoRetry(t)
          PROVE  \A c \in Cases : /\ Claimed(c) => Claimed(c)'
                                  /\ Awaits(c) => Awaits(c)'
      BY <2>4 DEF UndoRetry, Claimed, Awaits, TypeOK
    <2>5. \/ UNCHANGED case
          \/ \E t \in Calls : CreateCase(t) \/ UndoRetry(t)
          \/ \E t \in Calls : \E d \in Cases : AdminCancel(t, d) \/ AdminRetry(t, d)
      BY DEF Next, vars, caseVars, Handoff, RequestHandoffOtp, Purge, GenerateDeliveryOtp, Void,
             Issue, VerifyHandoffOtp, ValidateDeliveryOtp, FindOtp, ConsumeOtp, Deliver,
             FindLatestOtp, SaveUsed, SetDelivered, Settle, Refusal, MarkRto, SaveRto, BookRto,
             Unreachable, ReachedLocation, MarkUnreachable, Restock, RetryDelivery, Crash,
             CodeExpires, RecordCallAttempt
    <2> QED
      BY <2>1, <2>2, <2>3, <2>4, <2>5
  <1>4. \A u \in Calls : \A c \in Cases :
           Reporting(u, c)' => Reporting(u, c) /\ (At(u, "leave")' => At(u, "leave"))
    <2>1. CASE UNCHANGED call
      BY <2>1 DEF Reporting, At
    <2>2. ASSUME NEW t \in Calls, Handoff(t) \/ Refusal(t) \/ Unreachable(t) \/ Crash(t)
          PROVE  /\ \A u \in Calls \ {t} : call'[u] = call[u]
                 /\ call'[t].pc \notin {"leave", "unreport"}
      <3>1. CASE Handoff(t)
        BY <1>0, <3>1
        DEF Handoff, RequestHandoffOtp, Purge, GenerateDeliveryOtp, Void, Issue, VerifyHandoffOtp,
            ValidateDeliveryOtp, FindOtp, Mismatch, ConsumeOtp, Deliver, FindLatestOtp, SaveUsed,
            SetDelivered, Settle, Goto, Return, Idle, CallRecords
      <3>2. CASE Refusal(t) \/ Crash(t)
        BY <1>0, <3>2
        DEF Refusal, MarkRto, SaveRto, BookRto, Crash, Goto, Return, Idle, CallRecords
      <3>3. CASE Unreachable(t)
        BY <1>0, <3>3
        DEF Unreachable, ReachedLocation, CreateCase, MarkUnreachable, AdminCancel, AdminRetry,
            Restock, RetryDelivery, UndoRetry, Goto, Return, Idle, CallRecords
      <3> QED
        BY <2>2, <3>1, <3>2, <3>3
    <2>3. ASSUME NEW t \in Calls, Handoff(t) \/ Refusal(t) \/ Unreachable(t) \/ Crash(t)
          PROVE  \A u \in Calls : \A c \in Cases :
                    Reporting(u, c)' => Reporting(u, c) /\ (At(u, "leave")' => At(u, "leave"))
      BY <2>2, <2>3, NoReport
    <2> QED
      BY <2>1, <2>3 DEF Next, CodeExpires, RecordCallAttempt, vars
  <1> QED
    BY <1>1, <1>2, <1>3, <1>4 DEF Untouched

LEMMA CaseStep == TypeOK /\ CaseInv /\ [Next]_vars => CaseInv'
  <1> SUFFICES ASSUME TypeOK, CaseInv, [Next]_vars PROVE CaseInv'
    OBVIOUS
  <1>1. CASE \E t \in Calls : ReportCase(t) \/ LeaveDelivery(t) \/ UndoReport(t)
    BY <1>1, ReportStep, LeaveStep, UndoStep
  <1>2. CASE ~\E t \in Calls : ReportCase(t) \/ LeaveDelivery(t) \/ UndoReport(t)
    BY <1>2, UntouchedStep, UntouchedKeeps
  <1> QED
    BY <1>1, <1>2

LEMMA CaseInit == Init => CaseInv
  BY DEF Init, CaseInv, OneReport, ReportStands, ReportDone, Reporting, Idle

\* An order that waits for an admin has a case that waits too or was decided upon:
\* markCustomerUnreachable claims the case before it moves the order, and the undoing of
\* a report that lost the order never takes the case of a report that won it.
THEOREM AwaitingHasReportHolds == Spec => []AwaitingHasReport
  <1>1. CaseInv => AwaitingHasReport
    BY DEF CaseInv, ReportDone, AwaitingHasReport, Awaits
  <1> QED
    BY <1>1, CaseInit, CaseStep, DoorstepTypeCorrect, PTL DEF Spec
=============================================================================
