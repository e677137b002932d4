-------------------------- MODULE CommandAdmission --------------------------
(***************************************************************************)
(* How a command enters the queue of one device.                           *)
(*                                                                         *)
(* Two ways lead to command_queue.  The dispatcher                         *)
(* (backend/api/command_dispatcher.py) takes the device's asyncio.Lock,    *)
(* builds a key that contains the minute, looks for an open row with that  *)
(* key, counts the open rows against a limit and inserts.  The REST        *)
(* endpoints (backend/api/routes.py) insert at once, take no lock, count   *)
(* nothing and leave the key to add_command, which puts no time in it.     *)
(* Every `await` of the dispatcher lets other coroutines run, so its three *)
(* queries are three steps.                                                *)
(*                                                                         *)
(* Keys carry (action, minute) and minute NoTime for the keys of REST.  An *)
(* action here stands for an action with its payload, which are hashed     *)
(* together.  What happens to a row once it is in the queue is the subject *)
(* of CommandQueue; here a row is open (PENDING or DISPATCHED) or settled. *)
(* The limit of 1 for wipe_device and reboot_device is left out: the only  *)
(* caller of the dispatcher sends apply_* actions.                         *)
(***************************************************************************)
EXTENDS Naturals, Sequences, FiniteSets

CONSTANTS Actions,     \* what can be asked of the device
          Dispatches,  \* dispatch_command calls, reused once they return
          Limit,       \* MAX_QUEUE_PER_DEVICE
          MaxMinute    \* bound: minutes of the clock that are explored

ASSUME AdmissionAssumption ==
    /\ IsFiniteSet(Actions) /\ IsFiniteSet(Dispatches)
    /\ Limit \in Nat \ {0} /\ MaxMinute \in Nat \ {0}

VARIABLES row,      \* the rows of command_queue, by dedupe_key
          minute,   \* the clock, in minutes
          call,     \* dispatch_command calls: where each is, with its key
          lockLine, \* the device's asyncio.Lock: its holder, then the waiters
          answer    \* what REST last answered to a request for each action

vars == <<row, minute, call, lockLine, answer>>

NoTime  == 0
Key     == Actions \X (0 .. MaxMinute)
RestKey(a) == <<a, NoTime>>
Idle    == [at |-> "idle"]
Busy    == [at : {"waiting", "lookup", "count", "insert", "send"}, key : Key]

TypeOK ==
    /\ row \in [Key -> {"none", "open", "settled"}]
    /\ minute \in 1 .. MaxMinute
    /\ call \in [Dispatches -> Busy \cup {Idle}]
    /\ lockLine \in Seq(Dispatches)
    /\ answer \in [Actions -> {"none", "queued", "error"}]

Init ==
    /\ row = [k \in Key |-> "none"]
    /\ minute = 1
    /\ call = [d \in Dispatches |-> Idle]
    /\ lockLine = << >>
    /\ answer = [a \in Actions |-> "none"]

Open == {k \in Key : row[k] = "open"}

(***************************************************************************)
(* The dispatcher                                                          *)
(***************************************************************************)
\* `async with lock`: asyncio.Lock serves its waiters in the order they came.
Dispatch(d, a) ==
    /\ call[d] = Idle
    /\ call' = [call EXCEPT ![d] = [at |-> "waiting", key |-> <<a, minute>>]]
    /\ lockLine' = Append(lockLine, d)
    /\ UNCHANGED <<row, minute, answer>>

\* Mutant: the lock is not taken.
HoldsLockAlways(d) == TRUE

HoldsLock(d) == lockLine # << >> /\ Head(lockLine) = d

\* The key is built under the lock, with the minute of that moment.
Enter(d) ==
    /\ call[d].at = "waiting" /\ HoldsLock(d)
    /\ call' = [call EXCEPT ![d] = [at |-> "lookup", key |-> <<@.key[1], minute>>]]
    /\ UNCHANGED <<row, minute, lockLine, answer>>

Leave(d) ==
    /\ call' = [call EXCEPT ![d] = Idle]
    /\ lockLine' = Tail(lockLine)

\* Mutant: acquire() and release() around the body without try/finally: an
\* early return leaves the device locked.
LookupKeepsLock(d) ==
    /\ call[d].at = "lookup"
    /\ call' = IF row[call[d].key] = "open" THEN [call EXCEPT ![d] = Idle]
               ELSE [call EXCEPT ![d].at = "count"]
    /\ UNCHANGED <<row, minute, lockLine, answer>>

\* 1. An open row with the key: nothing is queued.  A settled one is not seen.
Lookup(d) ==
    /\ call[d].at = "lookup"
    /\ IF row[call[d].key] = "open"
       THEN Leave(d)
       ELSE /\ call' = [call EXCEPT ![d].at = "count"]
            /\ UNCHANGED lockLine
    /\ UNCHANGED <<row, minute, answer>>

\* 2. Backpressure: OverflowError when the device has Limit open rows.
Count(d) ==
    /\ call[d].at = "count"
    /\ IF Cardinality(Open) >= Limit
       THEN Leave(d)
       ELSE /\ call' = [call EXCEPT ![d].at = "insert"]
            /\ UNCHANGED lockLine
    /\ UNCHANGED <<row, minute, answer>>

(***************************************************************************)
(* add_command: the unique index on dedupe_key decides.  After a collision *)
(* the session is rolled back, which expires the device enqueue_command    *)
(* loaded first; reading its external_id then raises, so the row that was  *)
(* found is never returned.                                                *)
(***************************************************************************)
AddCommand(k) == row' = IF row[k] = "none" THEN [row EXCEPT ![k] = "open"] ELSE row

\* 3. enqueue_command, committed.  A collision raises and leaves.
Insert(d) ==
    /\ call[d].at = "insert"
    /\ AddCommand(call[d].key)
    /\ IF row[call[d].key] = "none"
       THEN call' = [call EXCEPT ![d].at = "send"] /\ UNCHANGED lockLine
       ELSE Leave(d)
    /\ UNCHANGED <<minute, answer>>

\* 4. The immediate send, still under the lock; what it does to the row is in
\* CommandQueue.  Its errors are caught.
Send(d) ==
    /\ call[d].at = "send"
    /\ Leave(d)
    /\ UNCHANGED <<row, minute, answer>>

\* A database error in any of the queries: `async with` releases the lock.
Raise(d) ==
    /\ call[d].at \in {"lookup", "count", "insert"}
    /\ Leave(d)
    /\ UNCHANGED <<row, minute, answer>>

(***************************************************************************)
(* REST, the device and the clock                                          *)
(***************************************************************************)
\* create_command, lock_device, reboot_device, wipe_device.
RestCreate(a) ==
    /\ AddCommand(RestKey(a))
    /\ answer' = [answer EXCEPT ![a] = IF row[RestKey(a)] = "none" THEN "queued" ELSE "error"]
    /\ UNCHANGED <<minute, call, lockLine>>

\* The device acknowledges, or the row fails: see CommandQueue.
Settle(k) ==
    /\ row[k] = "open"
    /\ row' = [row EXCEPT ![k] = "settled"]
    /\ UNCHANGED <<minute, call, lockLine, answer>>

Tick ==
    /\ minute < MaxMinute
    /\ minute' = minute + 1
    /\ UNCHANGED <<row, call, lockLine, answer>>

\* The server restarts: _device_locks and every call are memory.
Restart ==
    /\ call' = [d \in Dispatches |-> Idle]
    /\ lockLine' = << >>
    /\ UNCHANGED <<row, minute, answer>>

DispatchStep(d) == Enter(d) \/ Lookup(d) \/ Count(d) \/ Insert(d) \/ Send(d) \/ Raise(d)

Next ==
    \/ \E d \in Dispatches, a \in Actions : Dispatch(d, a)
    \/ \E d \in Dispatches : DispatchStep(d)
    \/ \E a \in Actions : RestCreate(a)
    \/ \E k \in Key : Settle(k)
    \/ Tick
    \/ Restart

Spec == Init /\ [][Next]_vars

\* The event loop resumes a coroutine whose query was answered.
FairSpec == Spec /\ \A d \in Dispatches : WF_vars(DispatchStep(d))

(***************************************************************************)
(* Properties                                                              *)
(***************************************************************************)
Inside     == {d \in Dispatches : call[d].at \in {"lookup", "count", "insert", "send"}}
Dispatched == {k \in Open : k[2] # NoTime}

\* The dispatcher never has more than Limit open rows in the queue, although
\* it counts in one transaction and inserts in a later one, and although the
\* process may be restarted between the two.
DispatcherIsBounded == Cardinality(Dispatched) <= Limit

\* The call past the lock is the head of the line, so there is one at most;
\* what it counted can only have shrunk by the time it inserts.
OneInside  == \A d \in Inside : HoldsLock(d)
CountHolds == \A d \in Dispatches : call[d].at = "insert" => Cardinality(Dispatched) < Limit

\* The inductive invariant behind DispatcherIsBounded: the lock carries what
\* was counted in one transaction over to the insert of the next.
IInv == TypeOK /\ OneInside /\ CountHolds /\ DispatcherIsBounded

\* Nobody is left behind at the lock of a device, whichever way the calls
\* before it ended: duplicate, overflow, collision or database error.
EveryDispatchReturns == \A d \in Dispatches : call[d] # Idle ~> call[d] = Idle

==============================================================================
