---------------------------- MODULE OfflineQueue ----------------------------
(***************************************************************************)
(* The agent's store-and-forward queue (OfflineQueue.kt): results and state *)
(* reports the backend could not take are kept in memory and in one file,   *)
(* and are sent again by every flush until the backend accepts them.        *)
(*                                                                         *)
(* The coroutines that add events, the one that reads the file at start and *)
(* the two that flush (poll loop and WebSocket onOpen) share a Mutex; a     *)
(* flush looks at isInitialized, queue and isFlushing before it takes it.   *)
(* The process may be killed at any point: the file is what remains.        *)
(***************************************************************************)
EXTENDS Naturals, FiniteSets, SequencesExt

CONSTANTS
    MaxItems,   \* OfflineQueue.MAX_ITEMS (20 in the code)
    Batch,      \* events a flush sends before it pauses (5 in the code)
    MaxEvents,  \* bound: events ever produced
    Kinds,      \* the priorities each event may have
    Flushers,   \* the coroutines that may call flushNetwork
    MaxKills,   \* bound: process deaths
    MaxFails,   \* bound: reads and writes of the file that fail
    MaxRefused  \* bound: events the backend comes to refuse for good

ASSUME OfflineQueueBounds ==
    /\ MaxItems \in Nat \ {0} /\ Batch \in Nat \ {0} /\ MaxEvents \in Nat
    /\ Kinds \in [1 .. MaxEvents -> SUBSET {2, 3}]
    /\ MaxKills \in Nat /\ MaxFails \in Nat /\ MaxRefused \in Nat
    /\ "free" \notin Flushers

VARIABLES
    calls,      \* events whose enqueue waits for the mutex
    queue,      \* the list in memory
    ready,      \* isInitialized
    starting,   \* init has launched its coroutine
    file,       \* the list in offline_queue.json
    mutex,      \* the flusher inside the mutex, or "free"
    pc,         \* where each flusher is
    isFlushing, \* the flag
    batchCount, \* events sent since the last pause
    clock,      \* events produced so far
    delivered,  \* events the backend has accepted
    dropped,    \* events given up: for the cap, or with a file set aside
    refused,    \* events the backend answers with an error from now on
    stored,     \* events that have been in the file
    early,      \* an event was added to the list before the file was read
    kills, fails

memory  == <<queue, ready, starting>>
flush   == <<mutex, pc, isFlushing, batchCount>>
outcome == <<delivered, dropped, refused>>
vars    == <<calls, memory, file, flush, clock, outcome, stored, early, kills, fails>>

PrioResult == 2     \* PRIO_RESULT
PrioState  == 3     \* PRIO_STATE

(* An event is known by its timestamp.  CommandHandler only reports EXECUTED *)
(* and FAILED, which are results: no event has PRIO_ACK.                    *)
Event == [time : 1 .. MaxEvents, prio : {PrioResult, PrioState}]

Init ==
    /\ calls = {} /\ queue = <<>> /\ ready = FALSE /\ starting = FALSE
    /\ file = <<>>
    /\ mutex = "free" /\ pc = [f \in Flushers |-> "idle"]
    /\ isFlushing = FALSE /\ batchCount = 0
    /\ clock = 0 /\ delivered = {} /\ dropped = {} /\ refused = {}
    /\ stored = {} /\ early = FALSE /\ kills = 0 /\ fails = 0

-----------------------------------------------------------------------------
(* sortQueue: by priority, then by age; equals keep their order.  An event's *)
(* place in the sorted list is the number of those that precede it.          *)
Before(d, e) == d.prio < e.prio \/ (d.prio = e.prio /\ d.time <= e.time)

Precedes(s, i, j) == IF i <= j THEN Before(s[i], s[j]) ELSE ~Before(s[j], s[i])
Place(s, i) == Cardinality({j \in DOMAIN s : Precedes(s, j, i)})
Sorted(s)   == [k \in DOMAIN s |-> s[CHOOSE i \in DOMAIN s : Place(s, i) = k]]

Insert(s, e) == Sorted(Append(s, e))

Merge(s, t) == Sorted(s \o t)

(* Mutant: the file is written in place, and a failed write empties it.     *)
WriteInPlace(s) ==
    \/ file' = s /\ stored' = stored \cup ToSet(s) /\ UNCHANGED fails
    \/ fails < MaxFails /\ fails' = fails + 1 /\ file' = <<>> /\ UNCHANGED stored

(* flushToDisk: a temporary file is renamed over the old one, or an I/O     *)
(* error is logged.                                                         *)
Write(s) ==
    \/ file' = s /\ stored' = stored \cup ToSet(s) /\ UNCHANGED fails
    \/ fails < MaxFails /\ fails' = fails + 1 /\ UNCHANGED <<file, stored>>

-----------------------------------------------------------------------------
(* A coroutine has an event to keep; it takes its timestamp, then waits.    *)
Call(p) ==
    /\ clock < MaxEvents /\ clock' = clock + 1
    /\ p \in Kinds[clock']
    /\ calls' = calls \cup {[time |-> clock + 1, prio |-> p]}
    /\ UNCHANGED <<memory, file, flush, outcome, stored, early, kills, fails>>

(* Mutant: without a state report the oldest event goes.                    *)
VictimsOldest ==
    LET states == {i \in DOMAIN queue : queue[i].prio = PrioState} IN
    IF Len(queue) < MaxItems THEN {}
    ELSE IF states = {} THEN {1}
    ELSE {i \in states : \A j \in states : j <= i}

(* Room is made at the cap: the newest state report goes, or, when there is  *)
(* none, the last event of the list.                                        *)
Victims ==
    LET states == {i \in DOMAIN queue : queue[i].prio = PrioState} IN
    IF Len(queue) < MaxItems THEN {}
    ELSE IF states = {} THEN {Len(queue)}
    ELSE {i \in states : \A j \in states : j <= i}

Enqueue(e) ==
    /\ e \in calls /\ mutex = "free"
    /\ calls' = calls \ {e}
    /\ LET kept == IF Victims = {} THEN queue
                   ELSE RemoveAt(queue, CHOOSE i \in Victims : TRUE) IN
         /\ queue' = Insert(kept, e)
         /\ Write(Insert(kept, e))
    /\ dropped' = dropped \cup {queue[i] : i \in Victims}
    /\ early' = (early \/ ~ready)
    /\ UNCHANGED <<ready, starting, flush, clock, delivered, refused, kills>>

(* The service's scope is cancelled while the caller waits.                 *)
Abandon(e) ==
    /\ e \in calls
    /\ calls' = calls \ {e}
    /\ UNCHANGED <<memory, file, flush, clock, outcome, stored, early, kills, fails>>

(* MDMForegroundService.onCreate calls init, which launches a coroutine;     *)
(* MDMWorker runs commands in the same process and never calls it.          *)
StartService ==
    /\ ~ready /\ ~starting
    /\ starting' = TRUE
    /\ UNCHANGED <<calls, queue, ready, file, flush, clock, outcome, stored, early,
                   kills, fails>>

InitLoad ==
    /\ starting /\ mutex = "free"
    /\ queue' = Merge(queue, file)
    /\ ready' = TRUE /\ starting' = FALSE
    /\ UNCHANGED <<calls, file, flush, clock, outcome, stored, early, kills, fails>>

(* The file cannot be read: it is set aside as .bad and the list cleared.    *)
InitBad ==
    /\ starting /\ mutex = "free" /\ file # <<>>
    /\ fails < MaxFails /\ fails' = fails + 1
    /\ dropped' = dropped \cup ToSet(file) \cup ToSet(queue)
    /\ file' = <<>> /\ queue' = <<>>
    /\ ready' = TRUE /\ starting' = FALSE
    /\ UNCHANGED <<calls, flush, clock, delivered, refused, stored, early, kills>>

-----------------------------------------------------------------------------
(* flushNetwork: the three tests are made without the mutex.                *)
FlushCheck(f) ==
    /\ pc[f] = "idle"
    /\ ready /\ queue # <<>> /\ ~isFlushing
    /\ pc' = [pc EXCEPT ![f] = "checked"]
    /\ UNCHANGED <<calls, memory, file, mutex, isFlushing, batchCount, clock, outcome,
                   stored, early, kills, fails>>

FlushFlag(f) ==
    /\ pc[f] = "checked"
    /\ isFlushing' = TRUE
    /\ pc' = [pc EXCEPT ![f] = "waiting"]
    /\ UNCHANGED <<calls, memory, file, mutex, batchCount, clock, outcome, stored,
                   early, kills, fails>>

(* Mutant: the flag is trusted to keep the other flusher out.              *)
FlushLockFree(f) ==
    /\ pc[f] = "waiting"
    /\ mutex' = f /\ batchCount' = 0
    /\ pc' = [pc EXCEPT ![f] = "sending"]
    /\ UNCHANGED <<calls, memory, file, isFlushing, clock, outcome, stored, early,
                   kills, fails>>

FlushLock(f) ==
    /\ pc[f] = "waiting" /\ mutex = "free"
    /\ mutex' = f /\ batchCount' = 0
    /\ pc' = [pc EXCEPT ![f] = "sending"]
    /\ UNCHANGED <<calls, memory, file, isFlushing, clock, outcome, stored, early,
                   kills, fails>>

Sending(f) == pc[f] = "sending" /\ queue # <<>> /\ batchCount < Batch

(* Mutant: an event leaves the list whatever the backend answered.         *)
FlushAcceptedAny(f) ==
    /\ Sending(f)
    /\ queue' = Tail(queue)
    /\ delivered' = delivered \cup ({Head(queue)} \ refused)
    /\ batchCount' = batchCount + 1
    /\ UNCHANGED <<calls, ready, starting, file, mutex, pc, isFlushing, clock, dropped,
                   refused, stored, early, kills, fails>>

(* The iterator removes what was accepted and stops at the first error, so   *)
(* the next event is always the head.                                       *)
FlushAccepted(f) ==
    /\ Sending(f)
    /\ Head(queue) \notin refused
    /\ queue' = Tail(queue)
    /\ delivered' = delivered \cup {Head(queue)}
    /\ batchCount' = batchCount + 1
    /\ UNCHANGED <<calls, ready, starting, file, mutex, pc, isFlushing, clock, dropped,
                   refused, stored, early, kills, fails>>

(* Refused, unreachable, or accepted with the answer lost; a cancellation    *)
(* is caught here too.                                                      *)
FlushError(f) ==
    /\ Sending(f)
    /\ pc' = [pc EXCEPT ![f] = "closing"]
    /\ delivered' \in {delivered, delivered \cup ({Head(queue)} \ refused)}
    /\ UNCHANGED <<calls, memory, file, mutex, isFlushing, batchCount, clock, dropped,
                   refused, stored, early, kills, fails>>

(* The pause of the rate limit.                                            *)
FlushPause(f) ==
    /\ pc[f] = "sending" /\ queue # <<>> /\ batchCount >= Batch
    /\ batchCount' = 0
    /\ UNCHANGED <<calls, memory, file, mutex, pc, isFlushing, clock, outcome, stored,
                   early, kills, fails>>

FlushDone(f) ==
    /\ pc[f] = "sending" /\ queue = <<>>
    /\ pc' = [pc EXCEPT ![f] = "closing"]
    /\ UNCHANGED <<calls, memory, file, mutex, isFlushing, batchCount, clock, outcome,
                   stored, early, kills, fails>>

(* Mutant: the flag is only reset after a flush that emptied the list.      *)
FlushCloseFlag(f) ==
    /\ pc[f] = "closing"
    /\ Write(queue)
    /\ mutex' = "free" /\ isFlushing' = (queue # <<>>)
    /\ pc' = [pc EXCEPT ![f] = "idle"]
    /\ UNCHANGED <<calls, memory, batchCount, clock, outcome, early, kills>>

FlushClose(f) ==
    /\ pc[f] = "closing"
    /\ Write(queue)
    /\ mutex' = "free" /\ isFlushing' = FALSE
    /\ pc' = [pc EXCEPT ![f] = "idle"]
    /\ UNCHANGED <<calls, memory, batchCount, clock, outcome, early, kills>>

(* The service is destroyed while the coroutine waits for the mutex or       *)
(* pauses: the flag and the mutex are left, and nothing is written.         *)
FlushCancel(f) ==
    /\ pc[f] = "waiting" \/ (pc[f] = "sending" /\ queue # <<>> /\ batchCount >= Batch)
    /\ mutex' = IF mutex = f THEN "free" ELSE mutex
    /\ isFlushing' = FALSE
    /\ pc' = [pc EXCEPT ![f] = "idle"]
    /\ UNCHANGED <<calls, memory, file, batchCount, clock, outcome, stored, early,
                   kills, fails>>

-----------------------------------------------------------------------------
(* The backend: the watchdog has failed the command meanwhile, and the       *)
(* acknowledgement of an EXECUTED result is answered 404 from now on.       *)
Refuse(e) ==
    /\ e \in ToSet(queue) \ (refused \cup delivered)
    /\ e.prio = PrioResult
    /\ Cardinality(refused) < MaxRefused
    /\ refused' = refused \cup {e}
    /\ UNCHANGED <<calls, memory, file, flush, clock, delivered, dropped, stored, early,
                   kills, fails>>

Kill ==
    /\ kills < MaxKills /\ kills' = kills + 1
    /\ calls' = {} /\ queue' = <<>> /\ ready' = FALSE /\ starting' = FALSE
    /\ mutex' = "free" /\ pc' = [f \in Flushers |-> "idle"]
    /\ isFlushing' = FALSE /\ batchCount' = 0
    /\ UNCHANGED <<file, clock, outcome, stored, early, fails>>

-----------------------------------------------------------------------------
Proceed(f) == FlushFlag(f) \/ FlushLock(f) \/ FlushPause(f) \/ FlushDone(f) \/ FlushClose(f)

Next ==
    \/ \E p \in {PrioResult, PrioState} : Call(p)
    \/ \E e \in calls : Enqueue(e) \/ Abandon(e)
    \/ StartService \/ InitLoad \/ InitBad
    \/ \E f \in Flushers :
         \/ FlushCheck(f) \/ Proceed(f)
         \/ FlushAccepted(f) \/ FlushError(f) \/ FlushCancel(f)
    \/ \E e \in ToSet(queue) : Refuse(e)
    \/ Kill

Spec == Init /\ [][Next]_vars

(* Android restarts the service (START_STICKY), the poll loop flushes every  *)
(* 30 seconds, coroutines proceed, the mutex is handed on, and a network that *)
(* keeps being tried is up at some of the tries, whichever flusher makes them.*)
Fairness ==
    /\ WF_vars(StartService \/ InitLoad)
    /\ WF_vars(\E f \in Flushers : FlushCheck(f))
    /\ \A f \in Flushers : WF_vars(Proceed(f) \/ FlushAccepted(f) \/ FlushError(f))
    /\ SF_vars(\E f \in Flushers : FlushLock(f))
    /\ SF_vars(\E f \in Flushers : FlushAccepted(f))

LiveSpec == Spec /\ Fairness

-----------------------------------------------------------------------------
(* Properties.                                                             *)

TypeOK ==
    /\ clock \in Nat /\ kills \in Nat /\ fails \in Nat
    /\ calls \subseteq Event /\ delivered \subseteq Event /\ dropped \subseteq Event
    /\ refused \subseteq Event /\ stored \subseteq Event
    /\ queue \in Seq(Event) /\ file \in Seq(Event)
    /\ ready \in BOOLEAN /\ starting \in BOOLEAN /\ isFlushing \in BOOLEAN
    /\ early \in BOOLEAN
    /\ mutex \in Flushers \cup {"free"}
    /\ pc \in [Flushers -> {"idle", "checked", "waiting", "sending", "closing"}]
    /\ batchCount \in 0 .. Batch

(* Two coroutines may both pass the unprotected test of isFlushing, yet at   *)
(* most one of them sends, and it is the one that holds the mutex.          *)
OneSender == \A f \in Flushers : pc[f] \in {"sending", "closing"} <=> mutex = f

(* Results go before state reports and old events before new ones, in        *)
(* whatever order they were added, merged from the file and removed.        *)
OldestResultFirst == \A i, j \in DOMAIN queue : i < j => Before(queue[i], queue[j])

(* When the file was read before any event was added, an event once written  *)
(* stays in the file until the backend has it or it is given up: neither a   *)
(* flush nor a failed write nor a death loses it (flushNetwork, flushToDisk). *)
StoredSurvives == early \/ stored \subseteq ToSet(file) \cup delivered \cup dropped

(* In the same case the list and the file keep the cap and hold no event twice.*)
ListBounded ==
    early \/ \A s \in {queue, file} : Len(s) <= MaxItems /\ IsInjective(s)

(* An event that waits for the mutex is new to the list and to the file, and   *)
(* has been neither accepted nor given up.                                   *)
Known == ToSet(queue) \cup ToSet(file) \cup delivered \cup dropped

CallsAreNew ==
    /\ \A e \in calls \cup Known : e.time <= clock
    /\ calls \cap Known = {}

(* Only a list that has been read is flushed.                                *)
OnlyReadIsFlushed ==
    /\ starting => ~ready
    /\ (\E f \in Flushers : pc[f] # "idle") => ready

(* Nothing is listed before the file is read, and from then on the file holds *)
(* only what the list holds or has lost for a reason.                        *)
FileIsBehind ==
    /\ ~early /\ ~ready => queue = <<>>
    /\ ~early /\ ready => ToSet(file) \subseteq ToSet(queue) \cup delivered \cup dropped

(* The inductive invariant.                                                  *)
IInv ==
    /\ TypeOK /\ OneSender /\ OldestResultFirst /\ StoredSurvives /\ ListBounded
    /\ CallsAreNew /\ OnlyReadIsFlushed /\ FileIsBehind

(* An event leaves the list when the backend has accepted it, when room is   *)
(* made, or with the process.                                               *)
OnlySettledLeaves ==
    [][ToSet(queue) \ ToSet(queue') \subseteq delivered' \cup dropped' \/ kills' # kills]_vars

(* The queue implements ReportStore: results go to the backend before state    *)
(* reports and old events before new ones; an event given up for room is the   *)
(* least urgent of the list, whichever of its two cases enqueue is in; and no   *)
(* file is written over by less than was read from it (enqueue, flushNetwork).  *)
Store == INSTANCE ReportStore WITH
    Reports <- Event, Cap <- MaxItems,
    held <- ToSet(queue), saved <- ToSet(file), open <- ready,
    sent <- delivered, gone <- dropped, mixed <- early

StoreKept == Store!StoreSpec

(* A stored event is delivered or given up, until the backend refuses some    *)
(* event for good: then the head may keep everything behind it waiting, for     *)
(* flushNetwork stops at any error.  A death costs only what was not in the file.*)
QueuedIsSettled ==
    <>[](stored \subseteq delivered \cup dropped \/ early \/ refused # {})
=============================================================================
