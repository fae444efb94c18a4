----------------------------- MODULE Doorstep -----------------------------
(***************************************************************************)
(* The end of a trip: one order, out for delivery with its rider.          *)
(*                                                                         *)
(* The order is handed over against a code, through the workflow           *)
(* (orderWorkflowService.js) or through the older endpoints                *)
(* (deliveryController.js, deliveryOtpService.js); it comes back when it   *)
(* is refused at the door (markOrderRto); and it waits for an admin when   *)
(* the customer cannot be reached (customerUnreachableService.js).  The    *)
(* three share the order's status and some of them write it blindly.       *)
(***************************************************************************)
EXTENDS Integers, FiniteSets

CONSTANTS
    Calls,     \* slots for requests in flight in the API processes
    MaxCodes,  \* bound: OrderOtp documents
    MaxCases,  \* bound: CustomerUnreachableCase documents
    MaxFaults  \* bound: requests that die between two of their steps

ASSUME DoorstepAssumption ==
    MaxCodes \in Nat /\ MaxCases \in Nat /\ MaxFaults \in Nat

Codes == 1..MaxCodes
Cases == 1..MaxCases

VARIABLES
    wf,        \* Order.workflowStatus
    otp,       \* OrderOtp: [kind, st] of each code, numbered as they are created
    handed,    \* kinds of the codes that were matched (history)
    case,      \* CustomerUnreachableCase.status, numbered as they are created
    isActive,  \* CustomerUnreachableCase.isActive, which is unique among TRUE
    rung,      \* whether the calls and the waiting a report needs are done
    charges,   \* UnreachableCharge documents
    booked,    \* the bookings made: settlements, refunds, returned items
    call,      \* the requests in flight
    faults     \* requests that died

caseVars == <<case, isActive, rung>>
otpVars == <<otp, handed>>
vars == <<wf, otpVars, caseVars, charges, booked, call, faults>>

Final == {"DELIVERED", "CANCELLED", "RTO"}
WorkflowStatus == {"OUT_FOR_DELIVERY", "CUSTOMER_UNREACHABLE"} \cup Final

\* CUSTOMER_UNREACHABLE is not written to the legacy status.
StatusOutForDelivery == wf \in {"OUT_FOR_DELIVERY", "CUSTOMER_UNREACHABLE"}

Kinds == {"delivery", "return_drop"}

\* "dead" stands for expired or out of attempts, "used" for a consumedAt.
OtpRecords == [kind : Kinds, st : {"none", "open", "dead", "used", "deleted"}]
NoOtp == [kind |-> "delivery", st |-> "none"]

PCs == {"idle", "purge", "void", "issue", "find", "consume", "deliver",
        "findLatest", "saveUsed", "setDelivered", "settle",
        "saveRto", "bookRto", "voidDrop", "issueDrop",
        "open", "report", "leave", "unreport", "restock", "retry", "unretry"}

\* code: what the rider entered, then the document that matched it.
CallRecords == [pc : PCs, code : 0..MaxCodes, case : 0..MaxCases]
Idle == [pc |-> "idle", code |-> 0, case |-> 0]

TypeOK ==
    /\ wf \in WorkflowStatus
    /\ otp \in [Codes -> OtpRecords]
    /\ handed \subseteq Kinds
    /\ case \in [Cases -> {"none", "REACHED", "CUSTOMER_UNREACHABLE", "CANCELLED", "RETRY"}]
    /\ isActive \in [Cases -> BOOLEAN]
    /\ rung \in [Cases -> BOOLEAN]
    /\ charges \in Nat
    /\ booked \subseteq {"delivered", "rto", "items"}
    /\ call \in [Calls -> CallRecords]
    /\ \A t \in Calls :
          /\ call[t].pc \in {"consume", "saveUsed"} => call[t].code \in Codes
          /\ call[t].pc \in {"report", "leave", "unreport", "retry", "unretry"}
                => call[t].case \in Cases
    /\ faults \in 0..MaxFaults

Init ==
    /\ wf = "OUT_FOR_DELIVERY"
    /\ otp = [k \in Codes |-> NoOtp]
    /\ handed = {}
    /\ case = [c \in Cases |-> "none"]
    /\ isActive = [c \in Cases |-> FALSE]
    /\ rung = [c \in Cases |-> FALSE]
    /\ charges = 0
    /\ booked = {}
    /\ call = [t \in Calls |-> Idle]
    /\ faults = 0

At(t, pc) == call[t].pc = pc
Goto(t, pc) == call' = [call EXCEPT ![t].pc = pc]

Return(t) == call' = [call EXCEPT ![t] = Idle]

-----------------------------------------------------------------------------
(* Codes.                                                                  *)

Unconsumed == {k \in Codes : otp[k].st \in {"open", "dead"}}
Issued == {k \in Codes : otp[k].st # "none"}
Latest(S) == {k \in S : \A j \in S : j <= k}

\* requestHandoffOtpAtomic.
RequestHandoffOtp(t) ==
    /\ At(t, "idle")
    /\ wf = "OUT_FOR_DELIVERY"
    /\ Goto(t, "purge")
    /\ UNCHANGED <<wf, otpVars, caseVars, charges, booked, faults>>

\* It deletes the unconsumed codes of the order, whatever their kind.
Purge(t) ==
    /\ At(t, "purge")
    /\ otp' = [k \in Codes |-> IF k \in Unconsumed THEN [otp[k] EXCEPT !.st = "deleted"]
                               ELSE otp[k]]
    /\ Goto(t, "issue")
    /\ UNCHANGED <<wf, handed, caseVars, charges, booked, faults>>

\* generateDeliveryOtp looks at the rider, not at the status.
GenerateDeliveryOtp(t) ==
    /\ At(t, "idle")
    /\ Goto(t, "void")
    /\ UNCHANGED <<wf, otpVars, caseVars, charges, booked, faults>>

Consumed(kind) ==
    [k \in Codes |-> IF k \in Unconsumed /\ otp[k].kind = kind
                     THEN [otp[k] EXCEPT !.st = "used"] ELSE otp[k]]

Void(t) ==
    /\ \/ At(t, "void") /\ otp' = Consumed("delivery") /\ Goto(t, "issue")
       \/ At(t, "voidDrop") /\ otp' = Consumed("return_drop") /\ Goto(t, "issueDrop")
    /\ UNCHANGED <<wf, handed, caseVars, charges, booked, faults>>

\* The new code; a create that fails is reported and changes nothing.
Issue(t) ==
    /\ call[t].pc \in {"issue", "issueDrop"}
    /\ otp' = [k \in Codes |->
                  IF k = Cardinality(Issued) + 1
                  THEN [kind |-> IF At(t, "issue") THEN "delivery" ELSE "return_drop",
                        st |-> "open"]
                  ELSE otp[k]]
    /\ Return(t)
    /\ UNCHANGED <<wf, handed, caseVars, charges, booked, faults>>

CodeExpires(k) ==
    /\ otp[k].st = "open"
    /\ otp' = [otp EXCEPT ![k].st = "dead"]
    /\ UNCHANGED <<wf, handed, caseVars, charges, booked, call, faults>>

-----------------------------------------------------------------------------
(* verifyHandoffOtpAndDeliver.                                             *)

\* The rider enters a code someone was given, or a wrong one.
Entered == Issued \cup {0}

VerifyHandoffOtp(t, code) ==
    /\ At(t, "idle")
    /\ wf = "OUT_FOR_DELIVERY"
    /\ code \in Entered
    /\ call' = [call EXCEPT ![t].pc = "find", ![t].code = code]
    /\ UNCHANGED <<wf, otpVars, caseVars, charges, booked, faults>>

\* A document that does not match counts an attempt, which may be its last.
Mismatch(t, k) ==
    /\ k # call[t].code /\ otp[k].st = "open"
    /\ otp' \in {otp, [otp EXCEPT ![k].st = "dead"]}
    /\ Return(t)

\* The latest unconsumed code, of any kind.
FindOtp(t) ==
    /\ At(t, "find")
    /\ \/ /\ \A k \in Latest(Unconsumed) : otp[k].st # "open"
          /\ Return(t) /\ UNCHANGED otp
       \/ \E k \in Latest(Unconsumed) :
             \/ Mismatch(t, k)
             \/ k = call[t].code /\ otp[k].st = "open" /\ Goto(t, "consume") /\ UNCHANGED otp
    /\ UNCHANGED <<wf, handed, caseVars, charges, booked, faults>>

\* An updateOne by id: a code that was deleted meanwhile still counts.
ConsumeOtp(t) ==
    /\ At(t, "consume")
    /\ otp' = [otp EXCEPT ![call[t].code].st = IF @ = "deleted" THEN @ ELSE "used"]
    /\ handed' = handed \cup {otp[call[t].code].kind}
    /\ call' = [call EXCEPT ![t].pc = "deliver", ![t].code = 0]
    /\ UNCHANGED <<wf, caseVars, charges, booked, faults>>

\* Mutant of DeliverGuard: the update matches whatever the status.
DeliverAnyway == TRUE

DeliverGuard == wf = "OUT_FOR_DELIVERY"

Deliver(t) ==
    /\ At(t, "deliver")
    /\ \/ DeliverGuard /\ wf' = "DELIVERED" /\ Goto(t, "settle")
       \/ ~DeliverGuard /\ Return(t) /\ UNCHANGED wf
    /\ UNCHANGED <<otpVars, caseVars, charges, booked, faults>>

\* applyDeliveredSettlement; when it throws the order stays delivered.
Settle(t) ==
    /\ At(t, "settle")
    /\ booked' \in {booked, booked \cup {"delivered"}}
    /\ Return(t)
    /\ UNCHANGED <<wf, otpVars, caseVars, charges, faults>>

-----------------------------------------------------------------------------
(* validateDeliveryOtp, the older endpoint.                                *)

ValidateDeliveryOtp(t, code) ==
    /\ At(t, "idle")
    /\ code \in Entered
    /\ call' = [call EXCEPT ![t].pc = "findLatest", ![t].code = code]
    /\ UNCHANGED <<wf, otpVars, caseVars, charges, booked, faults>>

\* Mutant of DeliveryCodes: as in verifyHandoffOtpAndDeliver, any kind.
AnyCodes == {k \in Codes : otp[k].st \in {"open", "dead", "used"}}

DeliveryCodes == {k \in Codes : otp[k].st \in {"open", "dead", "used"} /\ otp[k].kind = "delivery"}

\* The latest delivery code, which may be consumed.
FindLatestOtp(t) ==
    /\ At(t, "findLatest")
    /\ \/ /\ \A k \in Latest(DeliveryCodes) : otp[k].st # "open"
          /\ Return(t) /\ UNCHANGED otp
       \/ \E k \in Latest(DeliveryCodes) :
             \/ Mismatch(t, k)
             \/ k = call[t].code /\ otp[k].st = "open" /\ Goto(t, "saveUsed") /\ UNCHANGED otp
    /\ UNCHANGED <<wf, handed, caseVars, charges, booked, faults>>

\* A save: it fails when the document is gone, not when it was consumed.
SaveUsed(t) ==
    /\ At(t, "saveUsed")
    /\ \/ /\ otp[call[t].code].st # "deleted"
          /\ otp' = [otp EXCEPT ![call[t].code].st = "used"]
          /\ handed' = handed \cup {otp[call[t].code].kind}
          /\ call' = [call EXCEPT ![t].pc = "setDelivered", ![t].code = 0]
       \/ /\ otp[call[t].code].st = "deleted"
          /\ Return(t)
          /\ UNCHANGED otpVars
    /\ UNCHANGED <<wf, caseVars, charges, booked, faults>>

\* Whatever the status is by now.
SetDelivered(t) ==
    /\ At(t, "setDelivered")
    /\ wf' = "DELIVERED"
    /\ Goto(t, "settle")
    /\ UNCHANGED <<otpVars, caseVars, charges, booked, faults>>

-----------------------------------------------------------------------------
(* markOrderRto: load, save, handleRtoFinance, generateReturnDropOtp.      *)

MarkRto(t) ==
    /\ At(t, "idle")
    /\ StatusOutForDelivery
    /\ Goto(t, "saveRto")
    /\ UNCHANGED <<wf, otpVars, caseVars, charges, booked, faults>>

SaveRto(t) ==
    /\ At(t, "saveRto")
    /\ wf' = "RTO"
    /\ Goto(t, "bookRto")
    /\ UNCHANGED <<otpVars, caseVars, charges, booked, faults>>

BookRto(t) ==
    /\ At(t, "bookRto")
    /\ booked' = booked \cup {"rto"}
    /\ Goto(t, "voidDrop")
    /\ UNCHANGED <<wf, otpVars, caseVars, charges, faults>>

-----------------------------------------------------------------------------
(* The customer cannot be reached: the rider.                              *)

ActiveCases == {c \in Cases : case[c] \in {"REACHED", "CUSTOMER_UNREACHABLE"}}

\* reachedCustomerLocation: an active case is returned as it is.
ReachedLocation(t) ==
    /\ At(t, "idle")
    /\ ActiveCases = {}
    /\ wf = "OUT_FOR_DELIVERY"
    /\ Goto(t, "open")
    /\ UNCHANGED <<wf, otpVars, caseVars, charges, booked, faults>>

\* The unique index lets one document be active.
CreateCase(t) ==
    /\ At(t, "open")
    /\ \/ /\ \A c \in Cases : ~isActive[c]
          /\ \E c \in Cases :
                /\ case[c] = "none" /\ \A d \in Cases : d < c => case[d] # "none"
                /\ case' = [case EXCEPT ![c] = "REACHED"]
                /\ isActive' = [isActive EXCEPT ![c] = TRUE]
       \/ /\ \/ \E c \in Cases : isActive[c]
             \/ \A c \in Cases : case[c] # "none"
          /\ UNCHANGED <<case, isActive>>
    /\ Return(t)
    /\ UNCHANGED <<wf, otpVars, rung, charges, booked, faults>>

\* recordCallAttempt, and the minutes that must pass.
RecordCallAttempt(c) ==
    /\ case[c] = "REACHED" /\ ~rung[c]
    /\ rung' = [rung EXCEPT ![c] = TRUE]
    /\ UNCHANGED <<wf, otpVars, case, isActive, charges, booked, call, faults>>

\* markCustomerUnreachable: the checks, then the case, then the order.
MarkUnreachable(t, c) ==
    /\ At(t, "idle")
    /\ case[c] = "REACHED" /\ rung[c]
    /\ wf = "OUT_FOR_DELIVERY"
    /\ call' = [call EXCEPT ![t].pc = "report", ![t].case = c]
    /\ UNCHANGED <<wf, otpVars, caseVars, charges, booked, faults>>

\* Mutant of ClaimCase: the order is moved first.
ClaimLater(t, c) ==
    /\ UNCHANGED case
    /\ Goto(t, "leave")

ClaimCase(t, c) ==
    \/ case[c] = "REACHED" /\ case' = [case EXCEPT ![c] = "CUSTOMER_UNREACHABLE"] /\ Goto(t, "leave")
    \/ case[c] # "REACHED" /\ Return(t) /\ UNCHANGED case

ReportCase(t) ==
    /\ At(t, "report")
    /\ ClaimCase(t, call[t].case)
    /\ UNCHANGED <<wf, otpVars, isActive, rung, charges, booked, faults>>

LeaveDelivery(t) ==
    /\ At(t, "leave")
    /\ \/ wf = "OUT_FOR_DELIVERY" /\ wf' = "CUSTOMER_UNREACHABLE" /\ Return(t)
       \/ wf # "OUT_FOR_DELIVERY" /\ Goto(t, "unreport") /\ UNCHANGED wf
    /\ UNCHANGED <<otpVars, caseVars, charges, booked, faults>>

UndoReport(t) ==
    /\ At(t, "unreport")
    /\ case' = [case EXCEPT ![call[t].case] = "REACHED"]
    /\ Return(t)
    /\ UNCHANGED <<wf, otpVars, isActive, rung, charges, booked, faults>>

-----------------------------------------------------------------------------
(* The customer cannot be reached: the admin.                              *)

\* Mutant of CancelGuard: the order is not looked at.
CancelCaseOnly(c) == case[c] \in {"CUSTOMER_UNREACHABLE", "CANCELLED"}

CancelGuard(c) == case[c] = "CUSTOMER_UNREACHABLE" /\ wf = "CUSTOMER_UNREACHABLE"

\* adminCancelCase: case, order and charge in one transaction, then the items.
AdminCancel(t, c) ==
    /\ At(t, "idle")
    /\ CancelGuard(c)
    /\ case' = [case EXCEPT ![c] = "CANCELLED"]
    /\ isActive' = [isActive EXCEPT ![c] = FALSE]
    /\ wf' = "CANCELLED"
    /\ charges' \in {charges, charges + 1}
    /\ Goto(t, "restock")
    /\ UNCHANGED <<otpVars, rung, booked, faults>>

\* compensateOrderCancellation.
Restock(t) ==
    /\ At(t, "restock")
    /\ booked' = booked \cup {"items"}
    /\ Return(t)
    /\ UNCHANGED <<wf, otpVars, caseVars, charges, faults>>

\* adminRetryCase: the case, then the order.
AdminRetry(t, c) ==
    /\ At(t, "idle")
    /\ case[c] = "CUSTOMER_UNREACHABLE"
    /\ case' = [case EXCEPT ![c] = "RETRY"]
    /\ isActive' = [isActive EXCEPT ![c] = FALSE]
    /\ call' = [call EXCEPT ![t].pc = "retry", ![t].case = c]
    /\ UNCHANGED <<wf, otpVars, rung, charges, booked, faults>>

RetryDelivery(t) ==
    /\ At(t, "retry")
    /\ \/ wf = "CUSTOMER_UNREACHABLE" /\ wf' = "OUT_FOR_DELIVERY" /\ Return(t)
       \/ wf # "CUSTOMER_UNREACHABLE" /\ Goto(t, "unretry") /\ UNCHANGED wf
    /\ UNCHANGED <<otpVars, caseVars, charges, booked, faults>>

\* The unique index refuses the write when another case is active by now.
UndoRetry(t) ==
    LET c == call[t].case IN
    /\ At(t, "unretry")
    /\ \/ /\ \A d \in Cases \ {c} : ~isActive[d]
          /\ case' = [case EXCEPT ![c] = "CUSTOMER_UNREACHABLE"]
          /\ isActive' = [isActive EXCEPT ![c] = TRUE]
       \/ /\ \E d \in Cases \ {c} : isActive[d]
          /\ UNCHANGED <<case, isActive>>
    /\ Return(t)
    /\ UNCHANGED <<wf, otpVars, rung, charges, booked, faults>>

\* A request throws, or its process dies, between two steps.
Crash(t) ==
    /\ ~At(t, "idle") /\ faults < MaxFaults
    /\ faults' = faults + 1
    /\ Return(t)
    /\ UNCHANGED <<wf, otpVars, caseVars, charges, booked>>

-----------------------------------------------------------------------------

Handoff(t) ==
    \/ RequestHandoffOtp(t) \/ Purge(t)
    \/ GenerateDeliveryOtp(t) \/ Void(t) \/ Issue(t)
    \/ \E code \in Entered : VerifyHandoffOtp(t, code) \/ ValidateDeliveryOtp(t, code)
    \/ FindOtp(t) \/ ConsumeOtp(t) \/ Deliver(t)
    \/ FindLatestOtp(t) \/ SaveUsed(t) \/ SetDelivered(t) \/ Settle(t)

Refusal(t) == MarkRto(t) \/ SaveRto(t) \/ BookRto(t)

Unreachable(t) ==
    \/ ReachedLocation(t) \/ CreateCase(t)
    \/ \E c \in Cases : MarkUnreachable(t, c) \/ AdminCancel(t, c) \/ AdminRetry(t, c)
    \/ ReportCase(t) \/ LeaveDelivery(t) \/ UndoReport(t)
    \/ Restock(t) \/ RetryDelivery(t) \/ UndoRetry(t)

Next ==
    \/ \E t \in Calls : Handoff(t) \/ Refusal(t) \/ Unreachable(t) \/ Crash(t)
    \/ \E k \in Codes : CodeExpires(k)
    \/ \E c \in Cases : RecordCallAttempt(c)

Spec == Init /\ [][Next]_vars

-----------------------------------------------------------------------------
(* Properties.                                                             *)

\* An order is delivered only after a code that was made for its delivery was
\* matched; the code that a seller gets for a refused order never does.
DeliveredByCode == wf = "DELIVERED" => "delivery" \in handed

\* An order that waits for an admin has a case that shows it as waiting or was
\* decided upon, also when reports, their undoing and the admin's decisions cross.
AwaitingHasReport ==
    wf = "CUSTOMER_UNREACHABLE" =>
        \E c \in Cases : case[c] \in {"CUSTOMER_UNREACHABLE", "RETRY"}

\* The customer is charged at most once for an order, and an order that was charged
\* for, or whose items went back, is never out for delivery again.
ChargedOnce ==
    /\ charges <= 1
    /\ charges = 1 \/ "items" \in booked => wf \in Final

\* An order that is delivered, cancelled or on its way back leaves that status only by
\* the two writes that do not look at it: validateDeliveryOtp's and markOrderRto's.
FinalUnlessBlind ==
    [][wf' # wf /\ wf \in Final =>
          \E t \in Calls : call'[t] # call[t] /\ call[t].pc \in {"setDelivered", "saveRto"}]_vars
=============================================================================
