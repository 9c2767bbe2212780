------------------------------- MODULE Serving -------------------------------
(***************************************************************************)
(* What a process of karydia promises to those who send it requests: while *)
(* it is up it may take them or lose them, but once it is asked to end it  *)
(* first finishes those it was working on, unless it is forced.            *)
(***************************************************************************)
CONSTANT Requests

VARIABLES
    request,   \* how far each request is
    phase,     \* how far the process is
    early      \* the requests it was working on when it was asked to end

vars == <<request, phase, early>>

Stages == {"unsent", "sent", "open", "over", "lost"}
Phases == {"up", "closing", "forced", "ended", "aborted"}

TypeOK ==
    /\ request \in [Requests -> Stages]
    /\ phase \in Phases
    /\ early \in SUBSET Requests

Open == {r \in Requests : request[r] = "open"}

Init ==
    /\ request = [r \in Requests |-> "unsent"]
    /\ phase = "up"
    /\ early = {}

Move(r, from, to) ==
    /\ request[r] = from
    /\ request' = [request EXCEPT ![r] = to]
    /\ UNCHANGED <<phase, early>>

Running == phase \in {"up", "closing", "forced"}

Send(r) == Move(r, "unsent", "sent")
Refuse(r) == Move(r, "sent", "lost")
Take(r) == Running /\ Move(r, "sent", "open")
Finish(r) == Running /\ Move(r, "open", "over")

Close ==
    /\ phase = "up"
    /\ phase' = "closing"
    /\ early' = Open
    /\ UNCHANGED request

\* The time for finishing is over.
Force ==
    /\ phase = "closing"
    /\ phase' = "forced"
    /\ UNCHANGED <<request, early>>

\* With the process go the requests it has not finished.
Lost == [r \in Requests |-> IF request[r] \in {"sent", "open"} THEN "lost" ELSE request[r]]

End ==
    /\ phase \in {"closing", "forced"}
    /\ phase = "closing" => early \cap Open = {}
    /\ phase' = "ended"
    /\ request' = Lost
    /\ UNCHANGED early

Abort ==
    /\ Running
    /\ phase' = "aborted"
    /\ request' = Lost
    /\ UNCHANGED early

Next ==
    \/ \E r \in Requests : Send(r) \/ Refuse(r) \/ Take(r) \/ Finish(r)
    \/ Close \/ Force \/ End \/ Abort

Spec == Init /\ [][Next]_vars
=============================================================================
