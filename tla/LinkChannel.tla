----------------------------- MODULE LinkChannel -----------------------------
(***************************************************************************)
(* What the link assist promises: one byte in transit each way. A byte     *)
(* that was taken in is handed on once, and is not overwritten before.     *)
(***************************************************************************)
CONSTANTS Bytes, Nothing

VARIABLES inbox,   \* from the host to the guest
          outbox   \* from the guest to the host

vars == <<inbox, outbox>>

Init == inbox = Nothing /\ outbox = Nothing

Deliver(b) == inbox = Nothing /\ inbox' = b /\ UNCHANGED outbox
Take       == inbox # Nothing /\ inbox' = Nothing /\ UNCHANGED outbox
Post(b)    == outbox = Nothing /\ outbox' = b /\ UNCHANGED inbox
Collect    == outbox # Nothing /\ outbox' = Nothing /\ UNCHANGED inbox

Next == Take \/ Collect \/ \E b \in Bytes : Deliver(b) \/ Post(b)

Spec == Init /\ [][Next]_vars
==============================================================================
