---------------------------- MODULE RecordStream ----------------------------
(***************************************************************************)
(* What the relay expects of an outbound codec that reads records off a    *)
(* polled socket: an abstract byte pipe that delivers what arrived, in     *)
(* order, whatever the polls in between, reports the end only once         *)
(* everything that arrived whole has been delivered, and fails only when   *)
(* the peer went away inside a record.                                     *)
(***************************************************************************)
EXTENDS Naturals

VARIABLES total,     \* payload units the peer sends over the connection
          strict,    \* an end inside a record is an error (not a clean end)
          arrived,   \* units whose whole record has reached the client
          delivered, \* units handed to the relay, -1 after a wrong one
          ended,     \* "no", or how the peer closed: "between" or "inside" records
          status     \* what the last read said: "open", "eof" or "error"

vars == <<total, strict, arrived, delivered, ended, status>>

Init ==
    /\ total \in Nat /\ strict \in BOOLEAN
    /\ arrived = 0 /\ delivered = 0
    /\ ended = "no" /\ status = "open"

Arrive ==
    /\ ended = "no" /\ arrived < total
    /\ arrived' \in arrived + 1 .. total
    /\ UNCHANGED <<total, strict, delivered, ended, status>>

Close ==
    /\ ended = "no"
    /\ ended' \in {"between", "inside"}
    /\ UNCHANGED <<total, strict, arrived, delivered, status>>

Deliver ==
    /\ status = "open"
    /\ delivered' \in delivered + 1 .. arrived
    /\ UNCHANGED <<total, strict, arrived, ended, status>>

\* A clean end: the mark of the peer or its close, never with data left over,
\* and for a strict codec never inside a record.
End ==
    /\ status = "open" /\ delivered = arrived
    /\ delivered = total \/ (ended # "no" /\ (strict => ended = "between"))
    /\ status' = "eof"
    /\ UNCHANGED <<total, strict, arrived, delivered, ended>>

Fail ==
    /\ status = "open" /\ strict /\ ended = "inside" /\ delivered = arrived
    /\ status' = "error"
    /\ UNCHANGED <<total, strict, arrived, delivered, ended>>

Next == Arrive \/ Close \/ Deliver \/ End \/ Fail

Spec == Init /\ [][Next]_vars
=============================================================================
