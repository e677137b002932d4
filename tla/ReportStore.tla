----------------------------- MODULE ReportStore -----------------------------
(***************************************************************************)
(* What the agent promises about the reports it could not deliver, whatever *)
(* locks, lists and files do underneath: a set of reports in memory and one *)
(* that outlives the process.                                              *)
(*                                                                         *)
(* Reports are offered to the backend most urgent first and one at a time,   *)
(* again and again until they are accepted.  Only the least urgent gives    *)
(* way, only to a new one and only at the cap.  What is saved is what was    *)
(* held, never less by a process that has not yet restored what the last    *)
(* one saved.  A report taken before that costs the promise of the cap and   *)
(* of what was saved: mixed says so.                                        *)
(***************************************************************************)
EXTENDS Naturals, FiniteSets

CONSTANTS
    Reports,  \* records with a priority and a time
    Cap       \* how many are held at most

VARIABLES
    held,   \* the reports in memory
    saved,  \* those that outlive the process
    open,   \* what was saved has been restored
    sent,   \* the reports the backend has accepted
    gone,   \* those given up
    mixed   \* a report was taken before the saved ones were restored

storeVars == <<held, saved, open, sent, gone, mixed>>

NoLater(d, e) == d.prio < e.prio \/ (d.prio = e.prio /\ d.time <= e.time)

MostUrgent(S)  == {e \in S : \A d \in S : NoLater(e, d)}
LeastUrgent(S) == {e \in S : \A d \in S : NoLater(d, e)}

StoreInit ==
    /\ held = {} /\ saved = {} /\ open = FALSE
    /\ sent = {} /\ gone = {} /\ mixed = FALSE

(* A new report comes in.  At the cap the least urgent of the others goes; in  *)
(* a mixed list there may be another copy of it, which stays.               *)
Take(e) ==
    /\ e \in Reports \ (held \cup saved \cup sent \cup gone)
    /\ \E room \in {{}, LeastUrgent(held)}, left \in SUBSET LeastUrgent(held) :
         /\ mixed \/ left = {}
         /\ mixed \/ (room = {} <=> Cardinality(held) < Cap)
         /\ held' = (held \ room) \cup (left \cap room) \cup {e}
         /\ gone' = gone \cup room
    /\ saved' \in {saved, held'}
    /\ mixed' = (mixed \/ ~open)
    /\ UNCHANGED <<open, sent>>

Restore ==
    /\ ~open /\ open' = TRUE
    /\ mixed \/ held = {}
    /\ held' = held \cup saved
    /\ UNCHANGED <<saved, sent, gone, mixed>>

(* What was saved cannot be read: everything is given up.                   *)
Spoil ==
    /\ ~open /\ open' = TRUE
    /\ held' = {} /\ saved' = {} /\ gone' = gone \cup held \cup saved
    /\ UNCHANGED <<sent, mixed>>

(* The backend accepts the most urgent report; the answer may be lost.       *)
Send(e) ==
    /\ open /\ e \in MostUrgent(held)
    /\ sent' = sent \cup {e}
    /\ held' \in {held, held \ {e}}
    /\ UNCHANGED <<saved, open, gone, mixed>>

Save ==
    /\ open /\ saved' = held
    /\ UNCHANGED <<held, open, sent, gone, mixed>>

Die ==
    /\ held' = {} /\ open' = FALSE
    /\ UNCHANGED <<saved, sent, gone, mixed>>

StoreNext ==
    \/ \E e \in Reports : Take(e) \/ Send(e)
    \/ Restore \/ Spoil \/ Save \/ Die

StoreSpec == StoreInit /\ [][StoreNext]_storeVars
=============================================================================
