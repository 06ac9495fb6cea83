--------------------------- MODULE DeliveryPromise ---------------------------
(***************************************************************************)
(* What noise_pump_v2 (crates/common/src/delivery.rs) promises the two     *)
(* ends of an A2A session: Ok means delivered, in both directions. The     *)
(* pump's doc (lines 435-450) is the contract; the records, the FIN        *)
(* exchange and the clocks that keep it are in Delivery.                   *)
(***************************************************************************)
EXTENDS Integers

CONSTANT Side

VARIABLES
    offered,     \* records of its local input each side put on the path
    finished,    \* the side's input ended normally
    delivered,   \* records of the peer each side handed to its local side
    complete,    \* the side passed the peer's end of stream on
    verdict      \* what the side's pump returned

vars == <<offered, finished, delivered, complete, verdict>>

Other(s) == CHOOSE p \in Side : p # s

Init ==
    /\ offered = [s \in Side |-> 0]
    /\ finished = [s \in Side |-> FALSE]
    /\ delivered = [s \in Side |-> 0]
    /\ complete = [s \in Side |-> FALSE]
    /\ verdict = [s \in Side |-> "open"]

Offer(s) ==
    /\ ~finished[s] /\ verdict[s] = "open"
    /\ offered' = [offered EXCEPT ![s] = @ + 1]
    /\ UNCHANGED <<finished, delivered, complete, verdict>>

Finish(s) ==
    /\ ~finished[s] /\ verdict[s] = "open"
    /\ finished' = [finished EXCEPT ![s] = TRUE]
    /\ UNCHANGED <<offered, delivered, complete, verdict>>

(* Nothing is delivered that was not offered, and nothing after the end.   *)
Deliver(s) ==
    /\ verdict[s] = "open" /\ ~complete[s]
    /\ delivered[s] < offered[Other(s)]
    /\ delivered' = [delivered EXCEPT ![s] = @ + 1]
    /\ UNCHANGED <<offered, finished, complete, verdict>>

(* The end is passed on only behind everything the peer ever offered.      *)
Complete(s) ==
    /\ verdict[s] = "open" /\ ~complete[s]
    /\ finished[Other(s)] /\ delivered[s] = offered[Other(s)]
    /\ complete' = [complete EXCEPT ![s] = TRUE]
    /\ UNCHANGED <<offered, finished, delivered, verdict>>

(* A side may say Ok only when both directions are complete.               *)
Succeed(s) ==
    /\ verdict[s] = "open"
    /\ \A p \in Side : complete[p]
    /\ verdict' = [verdict EXCEPT ![s] = "ok"]
    /\ UNCHANGED <<offered, finished, delivered, complete>>

Fail(s) ==
    /\ verdict[s] = "open"
    /\ verdict' = [verdict EXCEPT ![s] = "failed"]
    /\ UNCHANGED <<offered, finished, delivered, complete>>

Next ==
    \E s \in Side :
        Offer(s) \/ Finish(s) \/ Deliver(s) \/ Complete(s) \/ Succeed(s) \/ Fail(s)

Spec == Init /\ [][Next]_vars
=============================================================================
