----------------------------- MODULE Compliance -----------------------------
(***************************************************************************)
(* The policy enforcement loop of one device: drift_detector.py with its   *)
(* callers, the WebSocket receivers (state_report and cmd_result), the     *)
(* compliance watchdog and update_policy with _trigger_re_enforcement.     *)
(*                                                                         *)
(* Three parties write the device's policy_states row, each in a session   *)
(* of its own that reads the row and later writes back the columns whose   *)
(* value it changed: evaluations, one at a time under an asyncio.Lock; the *)
(* handlers of sub-command results, one at a time on each connection; and  *)
(* a policy update.  Nothing orders the three, and nothing orders the      *)
(* results of a replaced connection and of the one that replaced it.       *)
(*                                                                         *)
(* A configuration is one value per category; the value of a category is   *)
(* the policy version that set it, and 0 is "not in the report".  The      *)
(* device is external: it is what websocket_routes expects on the other    *)
(* end.  The agent in this repository answers over HTTP only and does not  *)
(* know the apply_* commands.                                              *)
(***************************************************************************)
EXTENDS Naturals, Sequences

CONSTANTS
    Cats,         \* the keys of DRIFT_CATEGORIES the policy sets
    Sockets,      \* connections of the device that may have a receiver at one time
    Updates,      \* the categories an update of the policy may change, a set of choices
    LoopLimit,    \* enforcement cycles before a failure blocks (3 in the code)
    RateLimit,    \* MAX_ENFORCEMENTS_PER_HOUR (10 in the code)
    MaxVersion,   \* bound: versions of the policy
    MaxLine,      \* bound: evaluations waiting for the lock
    MaxInbox,     \* bound: messages of the device not yet received
    MaxEvents     \* bound: failures, policy updates, reconnections, restarts and
                  \* checks somebody asks for, together

ASSUME ComplianceBounds ==
    /\ Updates \subseteq SUBSET Cats
    /\ LoopLimit \in Nat \ {0} /\ RateLimit \in Nat \ {0}
    /\ MaxVersion \in Nat \ {0} /\ MaxLine \in Nat \ {0} /\ MaxInbox \in Nat \ {0}
    /\ MaxEvents \in Nat

VARIABLES
    want,      \* the merged policy: its version and a value per category
    row,       \* policy_states
    rate,      \* enforcements of the last hour, in memory
    recent,    \* last_enforced_at is less than an hour ago
    line,      \* evaluate_compliance calls waiting for the device's lock
    ev,        \* the evaluation that holds it
    receiver,  \* of each connection: the receiver, and the result it is handling
    update,    \* update_policy and its trigger
    sent,      \* sub-commands dispatched and not yet run
    device,    \* the configuration on the device
    link,      \* the connection the device speaks on
    inbox,     \* of each connection: messages from the device, in order
    failing,   \* history: the categories whose last handled result was a failure
    overlapped, \* history: two results were once being handled at the same time
    events

tasks == <<line, ev, receiver, update>>
agent == <<sent, device, link, inbox, events>>
past  == <<failing, overlapped>>
vars  == <<want, row, rate, recent, tasks, agent, past>>

Config  == [Cats -> 0 .. MaxVersion]
Nothing == [c \in Cats |-> 0]
Status  == {"unknown", "compliant", "enforcing", "enforcing_partial",
            "failed_loop", "non_compliant"}

\* state_hash is the hash of a report, which equals no policy's hash, unless an
\* evaluation wrote the hash of the policy it found in force: synced is that
\* policy's version, or 0.
NoRow == [status |-> "none", reported |-> Nothing, synced |-> 0,
          failed |-> {}, count |-> 0]

Off      == [at |-> "off"]
Resting  == [at |-> "free"]

AllResting == [s \in Sockets |-> Resting]
NoMessages == [s \in Sockets |-> << >>]

Init ==
    /\ want = [version |-> 1, config |-> [c \in Cats |-> 1]]
    /\ row = NoRow /\ rate = 0 /\ recent = FALSE
    /\ line = << >> /\ ev = Off /\ receiver = AllResting /\ update = Off
    /\ sent = {} /\ device = Nothing /\ link \in Sockets /\ inbox = NoMessages
    /\ failing = {} /\ overlapped = FALSE /\ events = 0

Spend == events < MaxEvents /\ events' = events + 1

\* A session writes the columns whose value differs from what it loaded.
Commit(old, new) ==
    row' = [f \in DOMAIN row |-> IF new[f] # old[f] THEN new[f] ELSE row[f]]

\* The copy of a session that never writes the report: that part is left out.
Verdict == [row EXCEPT !.reported = Nothing, !.synced = 0]

\* detect_drift: the categories of the policy that are missing or differ.
Drift(config, reported) == {c \in Cats : config[c] # reported[c]}

(***************************************************************************)
(* evaluate_compliance                                                     *)
(***************************************************************************)
\* by: the connection whose receiver awaits the answer, or none.
Ask(report, by) ==
    Len(line) < MaxLine /\ line' = Append(line, [report |-> report, by |-> by])

\* A connection, an assignment, GET /compliance: nothing is reported.
Check ==
    /\ Spend
    /\ Ask(Nothing, {})
    /\ UNCHANGED <<want, row, rate, recent, ev, receiver, update, sent, device, link, inbox, past>>

\* compliance_watchdog: not blocked, and not enforced for an hour.
Watchdog ==
    /\ ~recent /\ row.status # "failed_loop"
    /\ Ask(Nothing, {})
    /\ UNCHANGED <<want, row, rate, recent, ev, receiver, update, agent, past>>

\* get_device_desired_state, in a session of its own, under the lock.
ReadDesired ==
    /\ ev = Off /\ line # << >>
    /\ ev' = [at |-> "desired", want |-> want, report |-> Head(line).report, by |-> Head(line).by]
    /\ line' = Tail(line)
    /\ UNCHANGED <<want, row, rate, recent, receiver, update, agent, past>>

ReadRow ==
    /\ ev.at = "desired"
    /\ ev' = [at |-> "read", want |-> ev.want, report |-> ev.report, by |-> ev.by, old |-> row]
    /\ UNCHANGED <<want, row, rate, recent, line, receiver, update, agent, past>>

\* The receiver awaits the evaluation of the report it passed on.
Released == [s \in Sockets |-> IF s \in ev.by THEN Resting ELSE receiver[s]]

Finish == ev' = Off /\ receiver' = Released

\* The row as the evaluation holds it, the report taken in.
Seen ==
    LET old == IF ev.old.status = "none" THEN [ev.old EXCEPT !.status = "unknown"]
               ELSE ev.old
    IN  IF ev.report = Nothing THEN old
        ELSE [old EXCEPT !.reported = ev.report, !.synced = 0]
InForce   == Seen.synced = ev.want.version
Drifted   == Drift(ev.want.config, Seen.reported)
Conforms  == InForce \/ Drifted = {}

\* 3 and 4. Same hash, or no category differs.
FindCompliant ==
    /\ ev.at = "read" /\ Conforms
    /\ Commit(ev.old, [Seen EXCEPT !.status = "compliant", !.synced = ev.want.version])
    /\ Finish
    /\ UNCHANGED <<want, rate, recent, line, update, agent, past>>

\* Mutant: one more than the limit.
BlockedLate == Seen.status = "failed_loop" \/ rate > RateLimit

\* 5 and 6. Blocked: the session ends without a commit, and the report with it.
Blocked == Seen.status = "failed_loop" \/ rate >= RateLimit
FindBlocked ==
    /\ ev.at = "read" /\ ~Conforms /\ Blocked
    /\ Finish
    /\ UNCHANGED <<want, row, rate, recent, line, update, agent, past>>

\* 7. The count is only compared with LoopLimit, so it may stop there.
Enforce ==
    /\ ev.at = "read" /\ ~Conforms /\ ~Blocked
    /\ Commit(ev.old, [Seen EXCEPT !.status = "enforcing",
                                   !.count = IF @ < LoopLimit THEN @ + 1 ELSE @])
    /\ rate' = rate + 1 /\ recent' = TRUE
    /\ ev' = [at |-> "dispatch", by |-> ev.by,
              todo |-> {[cat |-> c, value |-> ev.want.config[c]] : c \in Drifted}]
    /\ UNCHANGED <<want, line, receiver, update, agent, past>>

\* _dispatch_subcommands.  One is queued, or refused by an error or as a duplicate
\* of one already settled.  With the last one the call ends and releases the lock.
DispatchOne(s) ==
    /\ ev.at = "dispatch" /\ s \in ev.todo
    /\ IF ev.todo = {s} THEN Finish
       ELSE ev' = [ev EXCEPT !.todo = @ \ {s}] /\ UNCHANGED receiver
    /\ \/ sent' = sent \cup {s} /\ events' = events
       \/ Spend /\ sent' = sent
    /\ UNCHANGED <<want, row, rate, recent, line, update, device, link, inbox, past>>

\* OverflowError: the queue is full, and the rest is not dispatched.
DispatchAborts ==
    /\ ev.at = "dispatch" /\ Spend
    /\ Finish
    /\ UNCHANGED <<want, row, rate, recent, line, update, sent, device, link, inbox,
                   past>>

(***************************************************************************)
(* The receivers: one message at a time on each connection                 *)
(***************************************************************************)
HasNext(s, kind) == receiver[s] = Resting /\ inbox[s] # << >> /\ Head(inbox[s]).kind = kind
Taken(s) == inbox' = [inbox EXCEPT ![s] = Tail(@)]

ReceiveReport(s) ==
    /\ HasNext(s, "report")
    /\ Ask(Head(inbox[s]).state, {s})
    /\ receiver' = [receiver EXCEPT ![s] = [at |-> "waiting"]]
    /\ Taken(s)
    /\ UNCHANGED <<want, row, rate, recent, ev, update, sent, device, link, events, past>>

Handling(s) == receiver[s].at = "result"

\* handle_subcommand_result: the read; without a row there is nothing to do.
ReceiveResult(s) ==
    /\ HasNext(s, "result")
    /\ LET m == Head(inbox[s])
       IN  IF row.status = "none" THEN UNCHANGED <<receiver, overlapped>>
           ELSE /\ receiver' = [receiver EXCEPT ![s] =
                                  [at |-> "result", cat |-> m.cat, ok |-> m.ok, old |-> Verdict]]
                /\ overlapped' = (overlapped \/ \E t \in Sockets \ {s} : Handling(t))
    /\ Taken(s)
    /\ UNCHANGED <<want, row, rate, recent, line, ev, update, sent, device, link, events, failing>>

\* Mutant: any failure blocks.
FailureBlocks(old, c) ==
    [old EXCEPT !.failed = @ \cup {c}, !.status = "failed_loop"]

Failure(old, c) ==
    [old EXCEPT !.failed = @ \cup {c},
                !.status = IF old.count >= LoopLimit THEN "failed_loop" ELSE "enforcing_partial"]

\* Mutant: a success leaves the category among the failed ones.
SuccessKeeps(old, c) ==
    IF old.failed \ {c} = {} THEN [old EXCEPT !.status = "compliant"] ELSE old

Success(old, c) ==
    LET left == old.failed \ {c}
    IN  [old EXCEPT !.failed = left, !.status = IF left = {} THEN "compliant" ELSE @]

CommitResult(s) ==
    /\ Handling(s)
    /\ LET r == receiver[s]
       IN  /\ Commit(r.old, IF r.ok THEN Success(r.old, r.cat) ELSE Failure(r.old, r.cat))
           /\ failing' = IF r.ok THEN failing \ {r.cat} ELSE failing \cup {r.cat}
    /\ receiver' = [receiver EXCEPT ![s] = Resting]
    /\ UNCHANGED <<want, rate, recent, line, ev, update, agent, overlapped>>

(***************************************************************************)
(* update_policy                                                           *)
(***************************************************************************)
\* The version is raised in SQL and committed with the new configuration.
UpdatePolicy(C) ==
    /\ update = Off /\ want.version < MaxVersion /\ Spend
    /\ LET v == want.version + 1
       IN  want' = [version |-> v,
                    config  |-> [c \in Cats |-> IF c \in C THEN v ELSE want.config[c]]]
    /\ update' = [at |-> "trigger"]
    /\ UNCHANGED <<row, rate, recent, line, ev, receiver, sent, device, link, inbox, past>>

TriggerRead ==
    /\ update.at = "trigger"
    /\ update' = [at |-> "unlock", old |-> Verdict]
    /\ UNCHANGED <<want, row, rate, recent, line, ev, receiver, agent, past>>

Unlocked(old) == [old EXCEPT !.status = "non_compliant", !.failed = {}, !.count = 0]

TriggerUnlock ==
    /\ update.at = "unlock"
    /\ Commit(update.old, IF update.old.status = "failed_loop" THEN Unlocked(update.old)
                          ELSE update.old)
    /\ Ask(Nothing, {})
    /\ update' = Off
    /\ UNCHANGED <<want, rate, recent, ev, receiver, agent, past>>

(***************************************************************************)
(* The device, its connections, the hour and the process                   *)
(***************************************************************************)
Message(m) ==
    /\ Len(inbox[link]) < MaxInbox
    /\ inbox' = [inbox EXCEPT ![link] = Append(@, m)]

Apply(s) ==
    /\ Message([kind |-> "result", cat |-> s.cat, ok |-> TRUE])
    /\ sent' = sent \ {s}
    /\ device' = [device EXCEPT ![s.cat] = s.value]
    /\ UNCHANGED <<want, row, rate, recent, tasks, link, past, events>>

FailToApply(s) ==
    /\ Spend
    /\ Message([kind |-> "result", cat |-> s.cat, ok |-> FALSE])
    /\ sent' = sent \ {s}
    /\ UNCHANGED <<want, row, rate, recent, tasks, link, past, device>>

\* The command queue gives up on it: DEAD_LETTER.
GiveUp(s) ==
    /\ Spend
    /\ sent' = sent \ {s}
    /\ UNCHANGED <<want, row, rate, recent, tasks, link, past, device, inbox>>

\* The device reports its configuration, one report at a time.
Report ==
    /\ \A i \in 1 .. Len(inbox[link]) : inbox[link][i].kind # "report"
    /\ device # Nothing
    /\ Message([kind |-> "report", state |-> device])
    /\ UNCHANGED <<want, row, rate, recent, tasks, sent, device, link, events, past>>

\* The device connects again while the handler of its last connection still works:
\* connect_device closes the old socket and does not wait for its receiver.
Reconnect(s) ==
    /\ s # link /\ receiver[s] = Resting /\ inbox[s] = << >>
    /\ Spend
    /\ link' = s
    /\ UNCHANGED <<want, row, rate, recent, tasks, sent, device, inbox, past>>

\* A ping cannot be sent, and the receiver is cancelled where it stands: in a
\* result, or in an evaluation, which it awaits.
HangUp(s) ==
    /\ Spend
    /\ receiver' = [receiver EXCEPT ![s] = Resting]
    /\ inbox' = [inbox EXCEPT ![s] = << >>]
    /\ ev' = IF ev # Off /\ s \in ev.by THEN Off ELSE ev
    /\ \/ line' = line /\ \A i \in 1 .. Len(line) : s \notin line[i].by
       \/ \E i \in 1 .. Len(line) :
             /\ s \in line[i].by
             /\ line' = [j \in 1 .. Len(line) - 1 |-> line[IF j < i THEN j ELSE j + 1]]
    /\ UNCHANGED <<want, row, rate, recent, update, sent, device, link, past>>

\* Mutant: the timestamps are never pruned.
NeverExpire == FALSE /\ UNCHANGED vars

\* The oldest timestamp leaves the window; last_enforced_at is the youngest.
Expire ==
    /\ rate > 0 \/ recent
    /\ rate' = IF rate > 0 THEN rate - 1 ELSE 0
    /\ recent' = (recent /\ rate > 1)
    /\ UNCHANGED <<want, row, tasks, agent, past>>

\* Locks, timestamps and calls in progress are memory, and so is the socket.
Restart ==
    /\ Spend
    /\ rate' = 0 /\ line' = << >> /\ ev' = Off /\ receiver' = AllResting /\ update' = Off
    /\ inbox' = NoMessages
    /\ UNCHANGED <<want, row, recent, sent, device, link, past>>

-----------------------------------------------------------------------------
SubCommand == [cat : Cats, value : 1 .. MaxVersion]

Evaluate ==
    \/ ReadDesired \/ ReadRow \/ FindCompliant \/ FindBlocked \/ Enforce
    \/ \E s \in SubCommand : DispatchOne(s)
    \/ DispatchAborts
Receive(s) == ReceiveReport(s) \/ ReceiveResult(s) \/ CommitResult(s)
Trigger == TriggerRead \/ TriggerUnlock

Next ==
    \/ Check \/ Watchdog \/ Evaluate \/ Trigger
    \/ \E s \in Sockets : Receive(s) \/ Reconnect(s) \/ HangUp(s)
    \/ \E C \in Updates : UpdatePolicy(C)
    \/ \E s \in sent : Apply(s) \/ FailToApply(s) \/ GiveUp(s)
    \/ Report \/ Expire \/ Restart

Spec == Init /\ [][Next]_vars

\* The event loop runs what is ready, time passes (the hour, the watchdog's rounds),
\* and the device's reports come again and again, and a queued sub-command is retried
\* until it is run or given up.  The lock's line has no bound in the code, so a
\* call that MaxLine keeps out now and then gets in: strong fairness.
Fairness ==
    /\ WF_vars(Evaluate) /\ SF_vars(\E s \in Sockets : Receive(s))
    /\ WF_vars(Expire \/ Watchdog) /\ SF_vars(Report)
    /\ \A c \in Cats : SF_vars(\E s \in sent : s.cat = c /\ Apply(s))

LiveSpec == Spec /\ Fairness

-----------------------------------------------------------------------------
(***************************************************************************)
(* Properties                                                              *)
(***************************************************************************)
Want == [version : 1 .. MaxVersion, config : [Cats -> 1 .. MaxVersion]]
Row  == [status : Status \cup {"none"}, reported : Config, synced : 0 .. MaxVersion,
         failed : SUBSET Cats, count : 0 .. LoopLimit]

Awaited == [report : Config, by : SUBSET Sockets]
Evaluation ==
    {Off} \cup [at : {"desired"}, want : Want, report : Config, by : SUBSET Sockets]
          \cup [at : {"read"}, want : Want, report : Config, by : SUBSET Sockets, old : Row]
          \cup [at : {"dispatch"}, by : SUBSET Sockets, todo : SUBSET SubCommand]
Reception ==
    {Resting, [at |-> "waiting"]}
          \cup [at : {"result"}, cat : Cats, ok : BOOLEAN, old : Row]
PolicyUpdate == {Off, [at |-> "trigger"]} \cup [at : {"unlock"}, old : Row]
DeviceMessage == [kind : {"report"}, state : Config]
          \cup [kind : {"result"}, cat : Cats, ok : BOOLEAN]

\* The type invariant.  With it: the in-memory window never holds more than
\* MAX_ENFORCEMENTS_PER_HOUR timestamps, whoever asked for the evaluation.
TypeOK ==
    /\ want \in Want /\ row \in Row /\ rate \in 0 .. RateLimit /\ recent \in BOOLEAN
    /\ line \in Seq(Awaited) /\ inbox \in [Sockets -> Seq(DeviceMessage)]
    /\ ev \in Evaluation /\ receiver \in [Sockets -> Reception] /\ update \in PolicyUpdate
    /\ sent \subseteq SubCommand /\ device \in Config /\ link \in Sockets
    /\ failing \subseteq Cats /\ overlapped \in BOOLEAN
    /\ events \in 0 .. MaxEvents

\* A category is listed in failed_subcommands only while the last result handled
\* for it was a failure, whatever policy updates and evaluations wrote between a
\* result's read of the row and its commit: until the results of a connection and
\* of its successor overlap, when a category that was cleared may come back.
FailedListIsTrue == overlapped \/ row.failed \subseteq failing

\* Until a policy update resets the row, a device is blocked only after LoopLimit
\* enforcements, and, as long as no two results overlapped, with a failed category to
\* show for it: no commit of an evaluation or of a later result takes either away
\* and leaves the block.
BlockHasCause ==
    row.status = "failed_loop" /\ want.version = 1
        => row.count = LoopLimit /\ (overlapped \/ row.failed # {})

\* What makes the two inductive: results are handled one at a time or known not to
\* be; the copy a result was read from is as true as the row and misses nothing of
\* it; and before the first update no copy is behind in what it may write.
OneResult ==
    overlapped \/ \A s, t \in Sockets : Handling(s) /\ Handling(t) => s = t

CopyIsTrue ==
    overlapped \/ \A s \in Sockets : Handling(s) =>
        /\ row.failed \subseteq receiver[s].old.failed
        /\ receiver[s].old.failed \subseteq failing

CopiesKeepCause ==
    want.version = 1 =>
        /\ update = Off
        /\ ev.at = "read" => ev.old.count = row.count
        /\ \A s \in Sockets : Handling(s) => receiver[s].old.count <= row.count
        /\ overlapped \/ \A s \in Sockets : Handling(s) =>
              /\ receiver[s].old.failed = row.failed
              /\ row.status = "failed_loop" => receiver[s].old.status = "failed_loop"

IInv ==
    TypeOK /\ OneResult /\ FailedListIsTrue /\ CopyIsTrue /\ BlockHasCause /\ CopiesKeepCause

\* Once failures and updates stop, the device is blocked for good or reported
\* compliant for good with the configuration in force on it: a compliance
\* declared too early, a lost report and a stale command are all made good.
Converges ==
    <>[]\/ row.status = "failed_loop"
        \/ row.status = "compliant" /\ device = want.config

=============================================================================
