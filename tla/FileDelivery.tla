---------------------------- MODULE FileDelivery ----------------------------
(***************************************************************************)
(* What a folder transfer promises, without connections, messages, chunks  *)
(* or processes: files get stored at the receiver, the sender confirms the *)
(* ones it knows to be good, and only a sender that has confirmed all of   *)
(* them reports success.  FolderTransfer implements this specification.    *)
(***************************************************************************)
CONSTANT Files

VARIABLES
    good,         \* files of which the receiver has a faithful copy
    confirmed,    \* files the sender will not send again
    outcome       \* "running", "done" or "failed"

deliveryVars == <<good, confirmed, outcome>>

Init ==
    /\ good = {}
    /\ confirmed = {}
    /\ outcome = "running"

\* The receiver writes its copy of f, well or badly, even after the sender has
\* given up; it never touches the copy of a confirmed file.
Store(f) ==
    /\ f \notin confirmed
    /\ good' \in {good \cup {f}, good \ {f}}
    /\ UNCHANGED <<confirmed, outcome>>

Confirm(f) ==
    /\ outcome = "running"
    /\ f \in good
    /\ confirmed' = confirmed \cup {f}
    /\ UNCHANGED <<good, outcome>>

Succeed ==
    /\ outcome = "running"
    /\ confirmed = Files
    /\ outcome' = "done"
    /\ UNCHANGED <<good, confirmed>>

Fail ==
    /\ outcome = "running"
    /\ outcome' = "failed"
    /\ UNCHANGED <<good, confirmed>>

\* Another run of the sender may have forgotten confirmations, never invents
\* one.
Retry ==
    /\ outcome = "failed"
    /\ outcome' = "running"
    /\ confirmed' \subseteq confirmed
    /\ UNCHANGED good

Next ==
    \/ \E f \in Files : Store(f) \/ Confirm(f)
    \/ Succeed
    \/ Fail
    \/ Retry

Spec == Init /\ [][Next]_deliveryVars
=============================================================================
