------------------------------ MODULE HubClient ------------------------------
(***************************************************************************)
(* What a SignalR hub connection promises the page that builds it: it is   *)
(* started once and settles; a stop while it connects makes the start      *)
(* fail; a stop while it is connected closes it, at once or after what the *)
(* transport has to finish; and what was invoked and not answered is       *)
(* rejected when the connection closes.                                    *)
(***************************************************************************)
EXTENDS Naturals

VARIABLES
    state,      \* "idle", "connecting", "stopping", "failed",
                \* "connected", "closing", "closed"
    pending     \* invocations and streams that are not over

vars == <<state, pending>>

Init == state = "idle" /\ pending = 0

Start == state = "idle" /\ state' = "connecting" /\ UNCHANGED pending

(* The start's promise is kept; its continuation may invoke at once. *)
Started == state = "connecting" /\ state' = "connected" /\ pending' \in {0, 1}

StartFails ==
    /\ state \in {"connecting", "stopping"}
    /\ state' = "failed"
    /\ UNCHANGED pending

StopStart == state = "connecting" /\ state' = "stopping" /\ UNCHANGED pending

(* stop() where the transport cannot close at once. *)
Stop == state = "connected" /\ state' = "closing" /\ UNCHANGED pending

(* stop() is done, or the connection is lost: the callbacks hear of it. *)
Close == state \in {"connected", "closing"} /\ state' = "closed" /\ pending' = 0

(* An invocation is made.  (One made in any other state is rejected at     *)
(* once and leaves nothing to wait for.)                                   *)
Invoke == state = "connected" /\ pending' = pending + 1 /\ UNCHANGED state

(* An invocation is answered or could not be sent. *)
Answer ==
    /\ state \in {"connected", "closing"}
    /\ pending > 0 /\ pending' = pending - 1
    /\ UNCHANGED state

Next == Start \/ Started \/ StartFails \/ StopStart \/ Stop \/ Close \/ Invoke \/ Answer

Spec == Init /\ [][Next]_vars
=============================================================================
