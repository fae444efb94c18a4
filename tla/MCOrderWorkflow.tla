-------------------------- MODULE MCOrderWorkflow --------------------------
(* The instances of OrderWorkflow that TLC checks.                         *)
EXTENDS OrderWorkflow, TLC

\* Riders, requests and orders of one payment mode are interchangeable: no
\* action names one of them.
Symmetry == Permutations(Riders) \cup Permutations(Requests)
OrderSymmetry == Symmetry \cup Permutations(Orders)

\* Several orders whose searches are open, the state that one acceptance by the
\* seller and one broadcast bring each of them to: the start of the run on the
\* riders' limit.
OpenSearches ==
    /\ wf = [o \in Orders |-> "DELIVERY_SEARCH"]
    /\ status = [o \in Orders |-> "packed"]
    /\ paid = [o \in Orders |-> FALSE]
    /\ captured = [o \in Orders |-> FALSE]
    /\ rider = [o \in Orders |-> NoRider]
    /\ step = [o \in Orders |-> 0]
    /\ skippedBy = [o \in Orders |-> {}]
    /\ waitOver = [o \in Orders |-> FALSE]
    /\ graceOver = [o \in Orders |-> TRUE]
    /\ window = [o \in Orders |-> "open"]
    /\ attempt = [o \in Orders |-> 1]
    /\ gaveUp = [o \in Orders |-> FALSE]
    /\ marker = [o \in Orders |-> "none"]
    /\ job = [o \in Orders |-> "none"]
    /\ reservation = [o \in Orders |-> "HELD"]
    /\ released = [o \in Orders |-> 0]
    /\ revived = [o \in Orders |-> FALSE]
    /\ call = [t \in Threads |-> Idle]
    /\ faults = 0

LimitSpec == OpenSearches /\ [][Next]_vars

=============================================================================
