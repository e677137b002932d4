---------------------------- MODULE CommandQueue ----------------------------
(***************************************************************************)
(* The command_queue table of one device and the backend code that reads   *)
(* and writes the commands of its agent: the HTTP poll and the bootstrap   *)
(* fetch, the HTTP acknowledgement, the WebSocket result handler, the      *)
(* flush on reconnect, the dispatcher's immediate send, and the timeout    *)
(* watchdog.  The rows of the Android Management API are those of Amapi;   *)
(* a removal of the device, which deletes its rows, ends what is modelled. *)
(*                                                                         *)
(* Every handler works on objects it read in its own database session and  *)
(* writes them back by primary key.  transition_status commits once per    *)
(* transition (log_event commits), so a handler is a read followed by      *)
(* separate commits, and other handlers run in between.                    *)
(***************************************************************************)
EXTENDS Naturals, FiniteSets

CONSTANTS
    MaxCmds,     \* bound: rows ever inserted for the device
    Sessions,    \* bound: handlers in progress at the same time
    MaxRetries,  \* DeviceCommand.max_retries (3 in the code)
    MaxSends,    \* bound: physical sends counted by retry_count
    MaxFaults,   \* bound: process crashes and failed database sessions
    WsBound      \* FALSE: the code as shipped, where websocket_routes uses
                 \* Device and websockets uses utcnow without importing them
                 \* and every device handshake is rejected.
                 \* TRUE: the same code with the two names imported.

ASSUME BoundsAssumption ==
    /\ MaxCmds \in Nat /\ MaxRetries \in Nat
    /\ MaxSends \in Nat /\ MaxFaults \in Nat
    /\ WsBound \in BOOLEAN

VARIABLES
    row,      \* the table: status, attempts and retry_count of each command
    sess,     \* the handlers in progress, each with the rows it has read
    batch,    \* rows the watchdog has selected and not yet visited
    locked,   \* rows held by the watchdog's FOR UPDATE
    inbox,    \* commands handed to the agent and not yet run
    reports,  \* what the agent has reported, resent until it is accepted
    faults    \* faults so far

vars == <<row, sess, batch, locked, inbox, reports, faults>>

Cmds     == 1 .. MaxCmds      \* ids grow with created_at
Terminal == {"ACKED", "FAILED", "VERIFIED"}
Status   == {"ABSENT", "PENDING", "DISPATCHED", "EXECUTED"} \cup Terminal
Claims   == {"EXECUTED", "FAILED", "ACKED"}
Ops      == {"idle", "poll", "report", "flush", "dispatch"}

Row     == [status : Status, attempts : Nat, retries : Nat]
NoRow   == [status |-> "ABSENT", attempts |-> 0, retries |-> 0]
Session == [op : Ops, todo : SUBSET Cmds, done : SUBSET Cmds,
            claim : Claims, snap : [Cmds -> Row]]

Blank == [c \in Cmds |-> NoRow]
Idle  == [op |-> "idle", todo |-> {}, done |-> {}, claim |-> "ACKED",
          snap |-> Blank]

InStatus(S)   == {c \in Cmds : row[c].status \in S}
Snapshot(T)   == [c \in Cmds |-> IF c \in T THEN row[c] ELSE NoRow]
Oldest(T, c)  == c \in T /\ \A d \in T : c <= d

(* A session that has just read the rows T.                                *)
Reading(o, T, r) == [op |-> o, todo |-> T, done |-> {}, claim |-> r,
                     snap |-> Snapshot(T)]

Init ==
    /\ row     = Blank
    /\ sess    = [s \in Sessions |-> Idle]
    /\ batch   = {}
    /\ locked  = {}
    /\ inbox   = {}
    /\ reports = {}
    /\ faults  = 0

(* Mutant: a write that does not wait for the watchdog's locks.            *)
SetStatusUnlocked(c, st) == row' = [row EXCEPT ![c].status = st]

(* A handler's UPDATE of the status column; it waits for a row the         *)
(* watchdog has locked.                                                    *)
SetStatus(c, st) ==
    /\ c \notin locked
    /\ row' = [row EXCEPT ![c].status = st]

-----------------------------------------------------------------------------
(* Creation.                                                               *)

NextId(c) ==
    /\ row[c].status = "ABSENT"
    /\ \A d \in Cmds : d < c => row[d].status # "ABSENT"

(* enqueue_command from a REST route: the row waits for a poll.            *)
Enqueue(c) ==
    /\ NextId(c)
    /\ row' = [row EXCEPT ![c].status = "PENDING"]
    /\ UNCHANGED <<sess, batch, locked, inbox, reports, faults>>

(* dispatch_command: the row is inserted and, the device being online, the *)
(* same coroutine goes on to deliver it, holding the device's asyncio.Lock. *)
DispatchEnqueue(s, c) ==
    /\ WsBound
    /\ sess[s] = Idle
    /\ \A t \in Sessions : sess[t].op # "dispatch"
    /\ NextId(c)
    /\ row'  = [row EXCEPT ![c].status = "PENDING"]
    /\ sess' = [sess EXCEPT ![s] = [Idle EXCEPT !.op = "dispatch", !.todo = {c}]]
    /\ UNCHANGED <<batch, locked, inbox, reports, faults>>

(* An online device: db.get reads the row again.  The row is left to a poll *)
(* when the device is offline by now, or when the row is past DISPATCHED    *)
(* and transition_status raises.                                            *)
DispatchRead(s, c) ==
    /\ sess[s].op = "dispatch" /\ c \in sess[s].todo
    /\ sess[s].snap = Blank
    /\ \/ /\ row[c].status \in {"PENDING", "DISPATCHED"}
          /\ sess' = [sess EXCEPT ![s] = Reading("dispatch", {c}, "ACKED")]
       \/ sess' = [sess EXCEPT ![s] = Idle]
    /\ UNCHANGED <<row, batch, locked, inbox, reports, faults>>

DispatchCommit(s, c) ==
    /\ sess[s].op = "dispatch" /\ c \in sess[s].todo
    /\ sess[s].snap # Blank
    /\ IF sess[s].snap[c].status = "PENDING"
         THEN SetStatus(c, "DISPATCHED")
         ELSE UNCHANGED row
    /\ sess' = [sess EXCEPT ![s].todo = {}, ![s].done = {c}]
    /\ UNCHANGED <<batch, locked, inbox, reports, faults>>

(* send_command_to_device: the frame reaches the agent or the socket fails. *)
DispatchSend(s) ==
    /\ sess[s].op = "dispatch" /\ sess[s].todo = {}
    /\ sess' = [sess EXCEPT ![s] = Idle]
    /\ inbox' \in {inbox, inbox \cup sess[s].done}
    /\ UNCHANGED <<row, batch, locked, reports, faults>>

-----------------------------------------------------------------------------
(* Delivery.                                                               *)

(* MDMService.get_pending_commands, for GET /commands/pending and for GET   *)
(* /bootstrap: every PENDING row is read ...                                *)
PollRead(s) ==
    /\ sess[s] = Idle
    /\ InStatus({"PENDING"}) # {}
    /\ sess' = [sess EXCEPT ![s] =
                  [Idle EXCEPT !.op = "poll", !.todo = InStatus({"PENDING"})]]
    /\ UNCHANGED <<row, batch, locked, inbox, reports, faults>>

(* ... and moved to DISPATCHED, one commit per row.  The object still reads *)
(* PENDING, so the transition is allowed whatever the row has become.       *)
PollCommit(s, c) ==
    /\ sess[s].op = "poll" /\ Oldest(sess[s].todo, c)
    /\ SetStatus(c, "DISPATCHED")
    /\ sess' = [sess EXCEPT ![s].todo = @ \ {c}, ![s].done = @ \cup {c}]
    /\ UNCHANGED <<batch, locked, inbox, reports, faults>>

(* The rows are returned last.  The agent gets none of them when the        *)
(* response is lost, and when it was a bootstrap, whose commands it ignores. *)
PollReply(s) ==
    /\ sess[s].op = "poll"
    /\ sess[s].todo = {}
    /\ inbox' \in {inbox, inbox \cup sess[s].done}
    /\ sess' = [sess EXCEPT ![s] = Idle]
    /\ UNCHANGED <<row, batch, locked, reports, faults>>

(* _flush_pending_commands: what is PENDING or DISPATCHED is resent on      *)
(* reconnect, in creation order.                                            *)
FlushRead(s) ==
    /\ WsBound
    /\ sess[s] = Idle
    /\ InStatus({"PENDING", "DISPATCHED"}) # {}
    /\ sess' = [sess EXCEPT ![s] =
                  Reading("flush", InStatus({"PENDING", "DISPATCHED"}), "ACKED")]
    /\ UNCHANGED <<row, batch, locked, inbox, reports, faults>>

FlushAt(s, c) == sess[s].op = "flush" /\ Oldest(sess[s].todo, c)

FlushExpire(s, c) ==
    /\ FlushAt(s, c)
    /\ sess[s].snap[c].attempts >= MaxRetries
    /\ SetStatus(c, "FAILED")
    /\ sess' = [sess EXCEPT ![s].todo = @ \ {c}]
    /\ UNCHANGED <<batch, locked, inbox, reports, faults>>

(* The frame goes out before the row is updated; a socket error ends the    *)
(* flush.                                                                   *)
FlushSend(s, c) ==
    /\ FlushAt(s, c) /\ sess[s].done = {}
    /\ sess[s].snap[c].attempts < MaxRetries
    /\ sess[s].snap[c].retries < MaxSends
    /\ \/ /\ inbox' \in {inbox, inbox \cup {c}}
          /\ sess' = [sess EXCEPT ![s].done = {c}]
       \/ /\ inbox' = inbox
          /\ sess' = [sess EXCEPT ![s] = Idle]
    /\ UNCHANGED <<row, batch, locked, reports, faults>>

(* A PENDING row is moved first, in a commit of its own ...                 *)
FlushCommit(s, c) ==
    /\ FlushAt(s, c) /\ sess[s].done = {c}
    /\ sess[s].snap[c].status = "PENDING"
    /\ SetStatus(c, "DISPATCHED")
    /\ sess' = [sess EXCEPT ![s].snap[c].status = "DISPATCHED"]
    /\ UNCHANGED <<batch, locked, inbox, reports, faults>>

(* ... and the physical send is counted in the next one.                    *)
FlushCount(s, c) ==
    /\ FlushAt(s, c) /\ sess[s].done = {c}
    /\ sess[s].snap[c].status = "DISPATCHED"
    /\ c \notin locked
    /\ row'  = [row EXCEPT ![c].retries = sess[s].snap[c].retries + 1]
    /\ sess' = [sess EXCEPT ![s].todo = @ \ {c}, ![s].done = {}]
    /\ UNCHANGED <<batch, locked, inbox, reports, faults>>

FlushDone(s) ==
    /\ sess[s].op = "flush" /\ sess[s].todo = {}
    /\ sess' = [sess EXCEPT ![s] = Idle]
    /\ UNCHANGED <<row, batch, locked, inbox, reports, faults>>

-----------------------------------------------------------------------------
(* Results.                                                                *)

(* The pipeline of transition_status.                                      *)
Pipeline == [PENDING |-> "DISPATCHED", DISPATCHED |-> "EXECUTED", EXECUTED |-> "ACKED"]

(* The transitions each claim asks for, from the status the handler read.  *)
Wanted(r) == CASE r = "EXECUTED" -> DOMAIN Pipeline
               [] r = "ACKED"    -> {"PENDING", "EXECUTED"}
               [] r = "FAILED"   -> Status \ (Terminal \cup {"ABSENT"})

Target(r, old) == IF r = "FAILED" THEN "FAILED" ELSE Pipeline[old]

(* POST /commands/{id}/ack: a terminal row is only answered; an ACKED claim *)
(* on a DISPATCHED row changes nothing.                                     *)
AckRead(s, c, r) ==
    /\ sess[s] = Idle
    /\ <<c, r>> \in reports
    /\ row[c].status \in Wanted(r)
    /\ sess' = [sess EXCEPT ![s] = Reading("report", {c}, r)]
    /\ UNCHANGED <<row, batch, locked, inbox, reports, faults>>

(* cmd_result over the WebSocket: a success for a row that went back to     *)
(* PENDING is an invalid transition and the result is dropped.              *)
ResultRead(s, c, r) ==
    /\ WsBound
    /\ r \in {"EXECUTED", "FAILED"}
    /\ ~(r = "EXECUTED" /\ row[c].status = "PENDING")
    /\ AckRead(s, c, r)

(* One transition_status, one commit: EXECUTED and ACKED are two of them.   *)
ReportCommit(s, c) ==
    /\ sess[s].op = "report" /\ c \in sess[s].todo
    /\ LET r  == sess[s].claim
           st == Target(r, sess[s].snap[c].status) IN
         /\ SetStatus(c, st)
         /\ sess' = [sess EXCEPT ![s] =
                       IF st \in Terminal \/ r = "ACKED" THEN Idle
                       ELSE [@ EXCEPT !.snap[c].status = st]]
    /\ UNCHANGED <<batch, locked, inbox, reports, faults>>

-----------------------------------------------------------------------------
(* command_timeout_watchdog: one SELECT ... FOR UPDATE for the batch, then  *)
(* one commit per timed-out row.  The first commit releases every lock.     *)

WatchdogSelect ==
    /\ batch = {} /\ InStatus({"DISPATCHED"}) # {}
    /\ batch'  = InStatus({"DISPATCHED"})
    /\ locked' = InStatus({"DISPATCHED"})
    /\ UNCHANGED <<row, sess, inbox, reports, faults>>

(* Not timed out yet: closing the session after the last row unlocks.       *)
WatchdogSkip(c) ==
    /\ c \in batch
    /\ batch'  = batch \ {c}
    /\ locked' = IF batch' = {} THEN {} ELSE locked
    /\ UNCHANGED <<row, sess, inbox, reports, faults>>

(* Mutant: one retry too many.                                             *)
WatchdogRequeueOver(c) ==
    /\ c \in batch
    /\ row[c].attempts <= MaxRetries
    /\ row' = [row EXCEPT ![c].status = "PENDING", ![c].attempts = @ + 1]
    /\ batch'  = batch \ {c}
    /\ locked' = {}
    /\ UNCHANGED <<sess, inbox, reports, faults>>

(* Mutant: the retry is not counted.                                       *)
WatchdogRequeueUncounted(c) ==
    /\ c \in batch
    /\ row[c].attempts < MaxRetries
    /\ row' = [row EXCEPT ![c].status = "PENDING"]
    /\ batch'  = batch \ {c}
    /\ locked' = {}
    /\ UNCHANGED <<sess, inbox, reports, faults>>

WatchdogRequeue(c) ==
    /\ c \in batch
    /\ row[c].attempts < MaxRetries
    /\ row' = [row EXCEPT ![c].status = "PENDING", ![c].attempts = @ + 1]
    /\ batch'  = batch \ {c}
    /\ locked' = {}
    /\ UNCHANGED <<sess, inbox, reports, faults>>

(* Mutant: gives up one retry early.                                       *)
WatchdogExpireEarly(c) ==
    /\ c \in batch
    /\ row[c].attempts + 1 >= MaxRetries
    /\ row' = [row EXCEPT ![c].status = "FAILED"]
    /\ batch'  = batch \ {c}
    /\ locked' = {}
    /\ UNCHANGED <<sess, inbox, reports, faults>>

WatchdogExpire(c) ==
    /\ c \in batch
    /\ row[c].attempts >= MaxRetries
    /\ row' = [row EXCEPT ![c].status = "FAILED"]
    /\ batch'  = batch \ {c}
    /\ locked' = {}
    /\ UNCHANGED <<sess, inbox, reports, faults>>

-----------------------------------------------------------------------------
(* The agent runs what it was handed and reports; the protocol also has a   *)
(* transport acknowledgement, sent before the command is run.               *)

Run(c, r) ==
    /\ c \in inbox
    /\ inbox'   = IF r = "ACKED" THEN inbox ELSE inbox \ {c}
    /\ reports' = reports \cup {<<c, r>>}
    /\ UNCHANGED <<row, sess, batch, locked, faults>>

(* The process stops: no handler finishes, the table stays.                 *)
Crash ==
    /\ faults < MaxFaults
    /\ faults' = faults + 1
    /\ sess' = [s \in Sessions |-> Idle]
    /\ batch' = {} /\ locked' = {}
    /\ UNCHANGED <<row, inbox, reports>>

(* One handler's session fails: what it has committed stays.                *)
Abort(s) ==
    /\ faults < MaxFaults
    /\ sess[s] # Idle
    /\ faults' = faults + 1
    /\ sess' = [sess EXCEPT ![s] = Idle]
    /\ UNCHANGED <<row, batch, locked, inbox, reports>>

-----------------------------------------------------------------------------
(* The steps a handler takes once it has read its rows.                     *)
Continue(s) ==
    \/ PollReply(s) \/ DispatchSend(s) \/ FlushDone(s)
    \/ \E c \in Cmds :
         \/ PollCommit(s, c) \/ ReportCommit(s, c)
         \/ DispatchRead(s, c) \/ DispatchCommit(s, c)
         \/ FlushExpire(s, c) \/ FlushSend(s, c)
         \/ FlushCommit(s, c) \/ FlushCount(s, c)

Handler(s) ==
    \/ PollRead(s) \/ FlushRead(s) \/ Continue(s)
    \/ \E c \in Cmds : DispatchEnqueue(s, c)
    \/ \E c \in Cmds, r \in Claims : AckRead(s, c, r) \/ ResultRead(s, c, r)

Watchdog ==
    \/ WatchdogSelect
    \/ \E c \in Cmds : WatchdogSkip(c) \/ WatchdogRequeue(c) \/ WatchdogExpire(c)

Next ==
    \/ \E c \in Cmds : Enqueue(c)
    \/ \E s \in Sessions : Handler(s) \/ Abort(s)
    \/ Watchdog
    \/ \E c \in Cmds, r \in Claims : Run(c, r)
    \/ Crash

Spec == Init /\ [][Next]_vars

(* What the backend and a working agent keep doing: started handlers go on, *)
(* the agent polls, a report is resent until it is accepted, the watchdog   *)
(* sweeps, and a row left DISPATCHED is past its deadline in some sweep.     *)
Fairness ==
    /\ WF_vars(WatchdogSelect)
    /\ \A s \in Sessions : WF_vars(Continue(s)) /\ WF_vars(PollRead(s))
    /\ \A c \in Cmds :
         /\ WF_vars(WatchdogSkip(c))
         /\ SF_vars(WatchdogRequeue(c) \/ WatchdogExpire(c))
         /\ SF_vars(\E s \in Sessions, r \in Claims : AckRead(s, c, r))

LiveSpec == Spec /\ Fairness

-----------------------------------------------------------------------------
(* Properties.                                                             *)

TypeOK ==
    /\ row     \in [Cmds -> Row]
    /\ sess    \in [Sessions -> Session]
    /\ batch   \in SUBSET Cmds
    /\ locked  \in SUBSET Cmds
    /\ inbox   \in SUBSET Cmds
    /\ reports \in SUBSET (Cmds \X Claims)
    /\ faults  \in Nat

(* No row shows a success the agent has not reported: a transport           *)
(* acknowledgement, a redelivery or a stale handler never completes a       *)
(* command (ack_command, _handle_cmd_result, the two paths to ACKED).       *)
SuccessWasReported ==
    \A c \in Cmds :
        row[c].status \in {"EXECUTED", "ACKED"} => <<c, "EXECUTED">> \in reports

(* A command fails for a cause: the agent said so, or every retry was used  *)
(* (the watchdog and the flush are the only ones to give up).               *)
FailureHasCause ==
    \A c \in Cmds :
        row[c].status = "FAILED" =>
            \/ <<c, "FAILED">> \in reports
            \/ row[c].attempts >= MaxRetries

(* Neither outcome the dashboard shows is ever made up: no success without   *)
(* the agent's word, no failure without its refusal or all the retries.      *)
OutcomesHaveCause == SuccessWasReported /\ FailureHasCause

(* attempts never exceeds max_retries, although the watchdog increments the *)
(* value of an object it read before other handlers ran.                    *)
RetryBudget == \A c \in Cmds : row[c].attempts <= MaxRetries

(* FOR UPDATE does its work until the batch's first commit: while a row is  *)
(* locked it is still the DISPATCHED row the watchdog read.                 *)
LockedRowsFresh == \A c \in locked : row[c].status = "DISPATCHED"

(* A handler may be stale but it never writes without grounds: the rows it  *)
(* holds exist, the claim it applies was reported and still fits the status *)
(* it read, and the attempts it read are not above the true ones.           *)
Grounded(h) ==
    \A c \in h.todo \cup h.done :
        /\ row[c].status # "ABSENT"
        /\ h.op = "report" =>
              /\ <<c, h.claim>> \in reports
              /\ h.snap[c].status \in Wanted(h.claim)
              /\ h.snap[c].status = "EXECUTED" => <<c, "EXECUTED">> \in reports
        /\ h.op = "flush" => h.snap[c].attempts <= row[c].attempts

HandlersHaveGrounds == \A s \in Sessions : Grounded(sess[s])

(* Nothing outside the table refers to a command that was never created.    *)
OnlyRowsAreUsed ==
    \A c \in Cmds :
        c \in batch \cup inbox \/ (\E r \in Claims : <<c, r>> \in reports)
            => row[c].status # "ABSENT"

(* The inductive invariant: what a commit may write depends on the grounds  *)
(* of the handler that makes it.                                            *)
IInv ==
    /\ TypeOK
    /\ HandlersHaveGrounds
    /\ OnlyRowsAreUsed
    /\ SuccessWasReported
    /\ FailureHasCause
    /\ RetryBudget
    /\ LockedRowsFresh

(* A command that has been queued is settled in the end, and stays settled: *)
(* retries run out, crashes are finitely many, and a report is resent.      *)
EventuallySettled ==
    \A c \in Cmds :
        row[c].status # "ABSENT" ~> [](row[c].status \in Terminal)

(* The engine implements CommandPromise.  EXECUTED is still open: the       *)
(* dashboard is told of the command's end at ACKED.                         *)
Phase(st) == CASE st = "ABSENT" -> "none"
               [] st = "ACKED"  -> "done"
               [] st = "FAILED" -> "failed"
               [] OTHER         -> "open"

Promise == INSTANCE CommandPromise WITH
    phase     <- [c \in Cmds |-> Phase(row[c].status)],
    tries     <- [c \in Cmds |-> row[c].attempts],
    confirmed <- {c \in Cmds : <<c, "EXECUTED">> \in reports},
    refused   <- {c \in Cmds : <<c, "FAILED">> \in reports}

(* Every step of every handler is a step the promise allows, or none.       *)
PromiseKept == Promise!PSpec

=============================================================================
