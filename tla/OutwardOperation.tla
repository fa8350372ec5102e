--------------------------- MODULE OutwardOperation ---------------------------
(***************************************************************************)
(* What the outward-send ledger promises about an operation, without its   *)
(* rows, senders, drains and recovery: one call of the platform at most,   *)
(* entered only after the operation has durably left "fresh"; one final    *)
(* verdict, which never contradicts what the user sees.                    *)
(***************************************************************************)
EXTENDS Naturals

CONSTANT Op

VARIABLES
    status,   \* the durable verdict of each operation
    calls,    \* platform calls entered
    shown     \* operations whose message the user sees

vars == <<status, calls, shown>>

Init ==
    /\ status = [o \in Op |-> "fresh"]
    /\ calls = [o \in Op |-> 0]
    /\ shown = {}

\* The operation is marked uncertain before the platform is called.
Commence(o) ==
    /\ status[o] = "fresh"
    /\ status' = [status EXCEPT ![o] = "sending"]
    /\ UNCHANGED <<calls, shown>>

\* The call.  It may already have been given up as uncertain.
Call(o) ==
    /\ status[o] \in {"sending", "uncertain"}
    /\ calls[o] = 0
    /\ calls' = [calls EXCEPT ![o] = 1]
    /\ UNCHANGED <<status, shown>>

\* The platform shows the message, but never one it has refused.
Show(o) ==
    /\ calls[o] = 1
    /\ status[o] # "failed"
    /\ shown' = shown \cup {o}
    /\ UNCHANGED <<status, calls>>

\* The verdict: delivered and failed need the platform's answer.
Settle(o, verdict) ==
    /\ \/ verdict = "delivered" /\ status[o] = "sending" /\ o \in shown
       \/ verdict = "failed"    /\ status[o] = "sending" /\ calls[o] = 1
                                /\ o \notin shown
       \/ verdict = "uncertain" /\ status[o] \in {"fresh", "sending"}
    /\ status' = [status EXCEPT ![o] = verdict]
    /\ UNCHANGED <<calls, shown>>

Next ==
    \E o \in Op :
        \/ Commence(o) \/ Call(o) \/ Show(o)
        \/ \E verdict \in {"delivered", "failed", "uncertain"} : Settle(o, verdict)

Spec == Init /\ [][Next]_vars
=============================================================================
