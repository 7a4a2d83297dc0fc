--------------------------- MODULE MCControlPlane ---------------------------
(* Instances of the ManagedControlPlane reconciler for TLC. *)
EXTENDS ControlPlaneProperties

\* A control plane at rest, Ready for its first generation at address a: the
\* state most runs pass through, and where a rolling update of the operator
\* adds a second process.
RestingAt(a) ==
    LET m == [NewMCP EXCEPT !.fin = TRUE, !.ready = "true", !.message = Ready,
                            !.cond = [verdict |-> Ready, gen |-> 1],
                            !.address = a, !.adminRef = TRUE]
    IN  /\ mcp = m
        /\ rendered = [c \in Components |-> {Inputs(c, m)}]
        /\ lb = a
        /\ adminCert = "issued"
        /\ informer = [o \in Operators |-> <<m>>]
        /\ svcSeen = [o \in Operators |-> a]
        /\ childEvent = [o \in Operators |-> FALSE]
        /\ queue = [o \in Operators |-> "none"]
        /\ pc = [o \in Operators |-> "idle"]
        /\ snap = [o \in Operators |-> NewMCP]
        /\ verdict = [o \in Operators |-> Unset]
        /\ fresh = [o \in Operators |-> FALSE]
        /\ observed = [o \in Operators |-> [verdict |-> Ready, gen |-> 1, heard |-> TRUE]]
        /\ faults = 0

AtRest == \E a \in Addresses : RestingAt(a)

SpecAtRest == AtRest /\ [][Next]_vars

FairSpecAtRest == SpecAtRest /\ Fairness
=============================================================================
