--------------------------- MODULE CommandPromise ---------------------------
(***************************************************************************)
(* What the command engine promises about each command, whatever handlers, *)
(* transports and crashes do underneath: success is shown only on the      *)
(* agent's word, failure only on its word or when the retries are used up, *)
(* retries are counted, and an accepted command never disappears.          *)
(* It does not promise that a shown outcome is the last one: handlers that *)
(* work on a stale row may reopen it.                                      *)
(***************************************************************************)
EXTENDS Naturals

CONSTANTS Cmds, MaxRetries

VARIABLES
    phase,      \* what the dashboard sees of each command
    tries,      \* retries used
    confirmed,  \* commands the agent has reported as done
    refused     \* commands the agent has reported as failed

pvars == <<phase, tries, confirmed, refused>>

Phases   == {"none", "open", "done", "failed"}
Accepted == {c \in Cmds : phase[c] # "none"}

PInit ==
    /\ phase = [c \in Cmds |-> "none"]
    /\ tries = [c \in Cmds |-> 0]
    /\ confirmed = {} /\ refused = {}

Accept(c) ==
    /\ c \notin Accepted
    /\ phase' = [phase EXCEPT ![c] = "open"]
    /\ UNCHANGED <<tries, confirmed, refused>>

(* The agent may only speak of a command that was accepted.                *)
Confirm(c) ==
    /\ c \in Accepted
    /\ confirmed' = confirmed \cup {c}
    /\ UNCHANGED <<phase, tries, refused>>

Refuse(c) ==
    /\ c \in Accepted
    /\ refused' = refused \cup {c}
    /\ UNCHANGED <<phase, tries, confirmed>>

Finish(c) ==
    /\ c \in confirmed
    /\ phase' = [phase EXCEPT ![c] = "done"]
    /\ UNCHANGED <<tries, confirmed, refused>>

GiveUp(c) ==
    /\ c \in Accepted
    /\ c \in refused \/ tries[c] = MaxRetries
    /\ phase' = [phase EXCEPT ![c] = "failed"]
    /\ UNCHANGED <<tries, confirmed, refused>>

Retry(c) ==
    /\ c \in Accepted /\ tries[c] < MaxRetries
    /\ tries' = [tries EXCEPT ![c] = @ + 1]
    /\ phase' = [phase EXCEPT ![c] = "open"]
    /\ UNCHANGED <<confirmed, refused>>

Reopen(c) ==
    /\ c \in Accepted
    /\ phase' = [phase EXCEPT ![c] = "open"]
    /\ UNCHANGED <<tries, confirmed, refused>>

PNext ==
    \E c \in Cmds :
        \/ Accept(c) \/ Confirm(c) \/ Refuse(c)
        \/ Finish(c) \/ GiveUp(c) \/ Retry(c) \/ Reopen(c)

PSpec == PInit /\ [][PNext]_pvars
=============================================================================
