-------------------------------- MODULE Amapi --------------------------------
(***************************************************************************)
(* Devices managed through the Android Management API (AMAPI): the signup   *)
(* of an enterprise, synchronisation and removal of a device, commands sent  *)
(* as operations of Google's, and the poller that asks how they ended        *)
(* (android_management_routes.py, android_management_service.py,             *)
(* mdm_service.py, amapi_operation_poller.py), beside the command watchdog   *)
(* of main.py, which treats these commands like all others.                 *)
(*                                                                         *)
(* In this commit main.py comments the router and the poller out; they are   *)
(* modelled as mounted, and PollerOn says whether the poller runs.           *)
(* There is one device.  Enterprises are numbered as their signups are.      *)
(* What Google does is external: the variables that begin with g.           *)
(***************************************************************************)
EXTENDS Naturals

CONSTANTS
    MaxCmds,    \* bound: commands, each with a dedupe key of its own
    MaxCalls,   \* bound: requests to the backend under way at once
    PollerOn,   \* whether the poller runs
    MaxEnts,    \* bound: signups
    MaxRetries, \* max_retries of a command
    MaxFaults   \* bound: requests to Google that fail or whose answer is lost

ASSUME AmapiBounds ==
    /\ MaxCmds \in Nat /\ MaxCalls \in Nat /\ PollerOn \in BOOLEAN
    /\ MaxEnts \in Nat /\ MaxRetries \in Nat /\ MaxFaults \in Nat

Ents  == 1 .. MaxEnts
Cmds  == 1 .. MaxCmds
Calls == 1 .. MaxCalls

VARIABLES
    config,  \* android_management_config: signup_url_name, enterprise_name (0: none)
    local,   \* whether devices has the row with the external_id
    cmd,     \* command_queue: status, whether it has an operation_id, attempts
    late,    \* commands whose grace period in DISPATCHED is over
    ancient, \* commands older than STALE_TIMEOUT_HOURS
    call,    \* requests
    poll,    \* the poller: the copies it has still to treat, and what it was told
    watch,   \* the watchdog: the copies it has still to treat, and the rows locked
    gused,   \* signups with which an enterprise was created
    gtokens, \* enterprises with an enrollment token
    ghome,   \* the enterprise the device enrolled in (0: none)
    gdev,    \* whether the device is managed: "none", "on", "gone"
    gop,     \* the operation of each command
    sent,    \* history: how often each command was issued
    known,   \* history: whether the row was ever there
    faults

tables == <<config, local, cmd, late, ancient, known>>
google == <<gused, gtokens, ghome, gdev, gop, sent, faults>>
vars   == <<tables, call, poll, watch, google>>

Idle    == [at |-> "idle"]
AtRest  == [todo |-> {}, told |-> {}]
Awake   == [todo |-> {}, locked |-> {}]
NoCmd   == [st |-> "none", op |-> FALSE, tries |-> 0]
GoneCmd == [st |-> "gone", op |-> FALSE, tries |-> 0]

Init ==
    /\ config = [signup |-> 0, ent |-> 0]
    /\ local = FALSE /\ known = FALSE
    /\ cmd = [c \in Cmds |-> NoCmd]
    /\ late = {} /\ ancient = {}
    /\ call = [k \in Calls |-> Idle] /\ poll = AtRest /\ watch = Awake
    /\ gused = {} /\ gtokens = {} /\ ghome = 0 /\ gdev = "none"
    /\ gop = [c \in Cmds |-> "none"] /\ sent = [c \in Cmds |-> 0] /\ faults = 0

Row(c)  == cmd[c].st \notin {"none", "gone"}
New(k)  == call[k] = Idle /\ \A j \in Calls : j < k => call[j] # Idle
Step(k, r) == call' = [call EXCEPT ![k] = r]
Ends(k) == Step(k, Idle)
Fault   == faults < MaxFaults /\ faults' = faults + 1

(* The name the backend gives the device: under the enterprise it knows.     *)
Reached == config.ent # 0 /\ config.ent = ghome /\ gdev = "on"

-----------------------------------------------------------------------------
(* Signup and enrollment.                                                  *)

(* create_signup_url: the name Google gives replaces the one before.         *)
SignupUrl ==
    /\ config.signup < MaxEnts
    /\ config' = [config EXCEPT !.signup = @ + 1]
    /\ UNCHANGED <<local, cmd, late, ancient, known, call, poll, watch, google>>

(* signup_callback: Google creates one enterprise for a signup, and refuses   *)
(* another; a lost answer is an error of the request.                       *)
CallbackAsk(k) ==
    /\ New(k) /\ config.signup # 0 /\ config.signup \notin gused
    /\ gused' = gused \cup {config.signup}
    /\ \/ Step(k, [at |-> "created", ent |-> config.signup]) /\ UNCHANGED faults
       \/ Fault /\ UNCHANGED call
    /\ UNCHANGED <<tables, poll, watch, gtokens, ghome, gdev, gop, sent>>

CallbackCommit(k) ==
    /\ call[k].at = "created"
    /\ config' = [config EXCEPT !.ent = call[k].ent]
    /\ Ends(k)
    /\ UNCHANGED <<local, cmd, late, ancient, known, poll, watch, google>>

(* Tokens are kept until the one device has enrolled.                       *)
EnrollmentToken ==
    /\ config.ent # 0 /\ gdev = "none"
    /\ gtokens' = gtokens \cup {config.ent}
    /\ UNCHANGED <<tables, call, poll, watch, gused, ghome, gdev, gop, sent, faults>>

GoogleEnrolls(e) ==
    /\ e \in gtokens /\ gdev = "none"
    /\ ghome' = e /\ gdev' = "on" /\ gtokens' = {}
    /\ UNCHANGED <<tables, call, poll, watch, gused, gop, sent, faults>>

-----------------------------------------------------------------------------
(* Synchronisation: what Google lists is inserted or updated; what it does   *)
(* not list stays as it is.                                                *)

SyncList(k) ==
    /\ New(k) /\ config.ent # 0 /\ Reached
    /\ Step(k, [at |-> "listed"])
    /\ UNCHANGED <<tables, poll, watch, google>>

SyncCommit(k) ==
    /\ call[k].at = "listed"
    /\ local' = TRUE /\ known' = TRUE
    /\ Ends(k) /\ UNCHANGED <<config, cmd, late, ancient, poll, watch, google>>

-----------------------------------------------------------------------------
(* Removal: Google's device first, 404 is as good; an error ends the request. *)

RemoveBegin(k) ==
    /\ New(k) /\ local /\ config.ent # 0
    /\ Step(k, [at |-> "removing"])
    /\ UNCHANGED <<tables, poll, watch, google>>

(* Mutant: the row is deleted, then Google's device.                        *)
RemoveFirst(k) ==
    /\ call[k].at = "removing"
    /\ local' = FALSE /\ Step(k, [at |-> "removed"])
    /\ UNCHANGED <<config, cmd, late, ancient, known, poll, watch, google>>

RemoveGoogle(k) ==
    /\ call[k].at = "removing"
    /\ \/ Step(k, [at |-> "removed"]) /\ gdev' = (IF Reached THEN "gone" ELSE gdev) /\ UNCHANGED faults
       \/ Fault /\ Ends(k) /\ gdev' \in {gdev, IF Reached THEN "gone" ELSE gdev}
    /\ UNCHANGED <<tables, poll, watch, gused, gtokens, ghome, gop, sent>>

(* repo.remove: the commands and the device; it waits for locked rows.       *)
RemoveCommit(k) ==
    /\ call[k].at = "removed" /\ watch.locked = {}
    /\ local' = FALSE
    /\ cmd' = [c \in Cmds |-> IF Row(c) THEN GoneCmd ELSE cmd[c]]
    /\ late' = {} /\ ancient' = {}
    /\ Ends(k) /\ UNCHANGED <<config, known, poll, watch, google>>

-----------------------------------------------------------------------------
(* Commands.                                                               *)

(* Mutant: the row that is there is sent again.                             *)
SendAgain(k, c) ==
    /\ New(k) /\ local /\ cmd[c].st # "gone"
    /\ cmd' = [cmd EXCEPT ![c] = IF @.st = "none" THEN [@ EXCEPT !.st = "PENDING"] ELSE @]
    /\ Step(k, [at |-> "inserted", cmd |-> c])
    /\ UNCHANGED <<config, local, late, ancient, known, poll, watch, google>>

(* enqueue_command: add_command commits the row.  With the same key again it  *)
(* rolls back, which expires the device the service has loaded; reading its   *)
(* external_id then fails, so the row that is there is never sent again.     *)
SendInsert(k, c) ==
    /\ New(k) /\ local /\ cmd[c].st = "none" /\ \A d \in Cmds : d < c => cmd[d].st # "none"
    /\ cmd' = [cmd EXCEPT ![c].st = "PENDING"]
    /\ Step(k, [at |-> "inserted", cmd |-> c])
    /\ UNCHANGED <<config, local, late, ancient, known, poll, watch, google>>

(* send_command: accepted as an operation, refused (by Google, or because the *)
(* command's type has no counterpart there), or failed with the operation     *)
(* created or not.                                                         *)
SendAsk(k) ==
    /\ call[k].at = "inserted"
    /\ LET c == call[k].cmd
           issue == gop' = [gop EXCEPT ![c] = "running"] /\ sent' = [sent EXCEPT ![c] = @ + 1]
       IN  \/ Reached /\ issue /\ Step(k, [at |-> "accepted", cmd |-> c]) /\ UNCHANGED faults
           \/ Step(k, [at |-> "refused", cmd |-> c]) /\ UNCHANGED <<gop, sent, faults>>
           \/ /\ Fault /\ Step(k, [at |-> "refused", cmd |-> c])
              /\ (Reached /\ issue) \/ UNCHANGED <<gop, sent>>
    /\ UNCHANGED <<tables, poll, watch, gused, gtokens, ghome, gdev>>

(* The answer: DISPATCHED with its operation, or FAILED; nothing if the row   *)
(* is gone.                                                                *)
SendCommit(k) ==
    /\ call[k].at \in {"accepted", "refused"}
    /\ LET c == call[k].cmd
           ok == call[k].at = "accepted"
       IN  cmd' = IF Row(c) THEN [cmd EXCEPT ![c].st = IF ok THEN "DISPATCHED" ELSE "FAILED", ![c].op = ok]
                  ELSE cmd
    /\ Ends(k) /\ UNCHANGED <<config, local, late, ancient, known, poll, watch, google>>

GoogleRuns(c) ==
    /\ gop[c] = "running"
    /\ \E r \in {"done", "error"} : gop' = [gop EXCEPT ![c] = r]
    /\ UNCHANGED <<tables, call, poll, watch, gused, gtokens, ghome, gdev, sent, faults>>

-----------------------------------------------------------------------------
(* The poller: it reads the rows, then treats its copies one by one.         *)

Dispatched == {c \in Cmds : cmd[c].st = "DISPATCHED"}

PollRead ==
    /\ PollerOn /\ poll = AtRest
    /\ \E c \in Dispatched : cmd[c].op
    /\ poll' = [poll EXCEPT !.todo = {c \in Dispatched : cmd[c].op}]
    /\ UNCHANGED <<tables, call, watch, google>>

(* A row that is gone fails the flush, and the session with it: the rest of   *)
(* the cycle fails too.                                                    *)
PollSet(c, st) ==
    /\ c \notin watch.locked
    /\ IF Row(c) THEN /\ cmd' = [cmd EXCEPT ![c].st = st]
                      /\ poll' = [todo |-> poll.todo \ {c}, told |-> {}]
       ELSE poll' = AtRest /\ UNCHANGED cmd
    /\ UNCHANGED <<config, local, late, ancient, known, call, watch, google>>

PollStale(c) ==
    /\ poll.told = {} /\ c \in poll.todo \cap ancient
    /\ PollSet(c, "FAILED")

(* Mutant: the operation is taken to be done.                               *)
PollAskOnce(c) ==
    /\ poll.told = {} /\ c \in poll.todo \ ancient
    /\ poll' = [poll EXCEPT !.told = {<<c, IF gop[c] = "error" THEN "FAILED" ELSE "EXECUTED">>}]
    /\ UNCHANGED <<tables, call, watch, google>>

(* get_operation: an error, or an operation that runs, waits for the next     *)
(* cycle.                                                                  *)
PollAsk(c) ==
    /\ poll.told = {} /\ c \in poll.todo \ ancient
    /\ \/ /\ gop[c] \in {"done", "error"}
          /\ poll' = [poll EXCEPT !.told = {<<c, IF gop[c] = "error" THEN "FAILED" ELSE "EXECUTED">>}]
          /\ UNCHANGED faults
       \/ /\ (gop[c] = "running" /\ UNCHANGED faults) \/ Fault
          /\ poll' = [poll EXCEPT !.todo = @ \ {c}]
    /\ UNCHANGED <<tables, call, watch, gused, gtokens, ghome, gdev, gop, sent>>

PollWrite == \E t \in poll.told : PollSet(t[1], t[2])

-----------------------------------------------------------------------------
(* The watchdog: it reads and locks the rows, the first commit frees them     *)
(* all, and the others are treated from their copies.                       *)

GraceEnds(c) ==
    /\ c \in Dispatched \ late
    /\ late' = late \cup {c}
    /\ UNCHANGED <<config, local, cmd, ancient, known, call, poll, watch, google>>

(* Mutant: commands with an operation are left to the poller.               *)
WatchReadOthers ==
    /\ watch = Awake /\ \E c \in Dispatched \cap late : ~cmd[c].op
    /\ watch' = [todo |-> {c \in Dispatched \cap late : ~cmd[c].op}, locked |-> Dispatched]
    /\ UNCHANGED <<tables, call, poll, google>>

WatchRead ==
    /\ watch = Awake /\ Dispatched \cap late # {}
    /\ watch' = [todo |-> Dispatched \cap late, locked |-> Dispatched]
    /\ UNCHANGED <<tables, call, poll, google>>

(* A retry as long as there are any left.                                   *)
Visited(r) == IF r.tries < MaxRetries THEN [r EXCEPT !.st = "PENDING", !.tries = @ + 1]
              ELSE [r EXCEPT !.st = "FAILED"]

WatchVisit(c) ==
    /\ c \in watch.todo
    /\ IF Row(c) THEN /\ cmd' = [cmd EXCEPT ![c] = Visited(cmd[c])]
                      /\ watch' = [todo |-> watch.todo \ {c}, locked |-> {}]
       ELSE watch' = Awake /\ UNCHANGED cmd
    /\ late' = late \ {c}
    /\ UNCHANGED <<config, local, ancient, known, call, poll, google>>

-----------------------------------------------------------------------------
(* A request fails or is cancelled; the backend stops, for a day perhaps.    *)

Fail(k) ==
    /\ call[k] # Idle /\ Ends(k)
    /\ UNCHANGED <<tables, poll, watch, google>>

Restart ==
    /\ call' = [k \in Calls |-> Idle] /\ poll' = AtRest /\ watch' = Awake
    /\ \/ late' = Dispatched /\ ancient' = {c \in Cmds : Row(c)}
       \/ UNCHANGED <<late, ancient>>
    /\ Fault
    /\ UNCHANGED <<config, local, cmd, known, gused, gtokens, ghome, gdev, gop, sent>>

Backend(k) ==
    \/ CallbackCommit(k) \/ SyncCommit(k) \/ RemoveGoogle(k) \/ RemoveCommit(k)
    \/ SendAsk(k) \/ SendCommit(k)

Next ==
    \/ SignupUrl \/ EnrollmentToken \/ PollRead \/ PollWrite \/ WatchRead \/ Restart
    \/ \E e \in Ents : GoogleEnrolls(e)
    \/ \E k \in Calls : Backend(k) \/ CallbackAsk(k) \/ SyncList(k) \/ RemoveBegin(k) \/ Fail(k)
    \/ \E k \in Calls, c \in Cmds : SendInsert(k, c)
    \/ \E c \in Cmds : GoogleRuns(c) \/ PollStale(c) \/ PollAsk(c) \/ GraceEnds(c) \/ WatchVisit(c)

Spec == Init /\ [][Next]_vars

(* Time passes, and the watchdog's loop goes on.                            *)
LiveSpec ==
    /\ Spec /\ WF_vars(WatchRead)
    /\ \A c \in Cmds : WF_vars(GraceEnds(c)) /\ WF_vars(WatchVisit(c))

-----------------------------------------------------------------------------
(* Properties.                                                             *)

Statuses == {"none", "PENDING", "DISPATCHED", "EXECUTED", "FAILED", "gone"}

Command == [st : Statuses, op : BOOLEAN, tries : 0 .. MaxRetries]

Request ==
    [at : {"idle", "listed", "removing", "removed"}]
        \cup [at : {"created"}, ent : Ents]
        \cup [at : {"inserted", "accepted", "refused"}, cmd : Cmds]

TypeOK ==
    /\ config \in [signup : 0 .. MaxEnts, ent : 0 .. MaxEnts]
    /\ local \in BOOLEAN /\ known \in BOOLEAN
    /\ cmd \in [Cmds -> Command]
    /\ late \subseteq Cmds /\ ancient \subseteq Cmds
    /\ call \in [Calls -> Request]
    /\ poll \in [todo : SUBSET Cmds, told : SUBSET (Cmds \X {"EXECUTED", "FAILED"})]
    /\ watch \in [todo : SUBSET Cmds, locked : SUBSET Cmds]
    /\ gused \subseteq Ents /\ gtokens \subseteq Ents /\ ghome \in 0 .. MaxEnts
    /\ gdev \in {"none", "on", "gone"}
    /\ gop \in [Cmds -> {"none", "running", "done", "error"}]
    /\ sent \in [Cmds -> Nat]

(* The command rows are those of a device that is there (remove, at any step  *)
(* of a request, of the poller and of the watchdog).                        *)
Referential == \A c \in Cmds : Row(c) => local

(* A command says DISPATCHED only if Google accepted it, and EXECUTED only if *)
(* Google has done it, whatever copies the poller and the watchdog hold       *)
(* (_route_command_to_amapi, _poll_single_command).                         *)
Truthful ==
    \A c \in Cmds : /\ cmd[c].st = "DISPATCHED" => gop[c] # "none"
                    /\ cmd[c].st = "EXECUTED" => gop[c] = "done"

(* No command is issued twice: the watchdog's retries and repeated requests   *)
(* do not reach Google (command_timeout_watchdog, enqueue_command).          *)
SentOnce == \A c \in Cmds : sent[c] <= 1

(* The backend never forgets a device that Google still manages in the        *)
(* enterprise it knows: the removal asks Google first (remove_device).       *)
NeverUnmanaged == known /\ gdev = "on" /\ config.ent = ghome => local

(* What Google was asked once: a command has an operation when it was issued, *)
(* and the request that is about to issue it is the one that inserted it.     *)
AskedOnce ==
    /\ \A c \in Cmds : /\ gop[c] = "none" <=> sent[c] = 0
                       /\ cmd[c].st = "none" => sent[c] = 0
    /\ \A k \in Calls : call[k].at = "inserted" =>
          /\ cmd[call[k].cmd].st # "none" /\ sent[call[k].cmd] = 0
          /\ \A j \in Calls \ {k} : call[j].at = "inserted" => call[j].cmd # call[k].cmd

(* What is still to be written is true when it is: the answer a request has,   *)
(* and what the poller was told.                                            *)
AnswersAreTrue ==
    /\ \A k \in Calls : call[k].at = "accepted" => gop[call[k].cmd] # "none"
    /\ \A t \in poll.told : t[2] = "EXECUTED" => gop[t[1]] = "done"

(* An enterprise whose callback is not yet committed has no tokens, no device  *)
(* and no second callback: nobody comes back to the enterprise of a device.   *)
CallbacksAreNew ==
    /\ gtokens \subseteq gused /\ {config.ent, ghome} \subseteq gused \cup {0}
    /\ \A k \in Calls : call[k].at = "created" =>
          /\ call[k].ent \in gused \ gtokens /\ call[k].ent \notin {config.ent, ghome}
          /\ \A j \in Calls \ {k} : call[j].at = "created" => call[j].ent # call[k].ent

(* A row, or one to come, is that of a device that has enrolled; and a removal *)
(* that has been to Google has left nothing managed that the backend can reach. *)
DeviceIsKnown ==
    /\ gdev = "on" => ghome # 0
    /\ (local => known) /\ (known => gdev # "none")
    /\ \A k \in Calls :
          /\ call[k].at = "listed" => gdev # "none"
          /\ call[k].at \in {"removing", "removed"} => known
          /\ call[k].at = "removed" => ~(gdev = "on" /\ config.ent = ghome)

(* The inductive invariant.                                                  *)
IInv ==
    /\ TypeOK /\ Referential /\ SentOnce /\ Truthful /\ NeverUnmanaged
    /\ AskedOnce /\ AnswersAreTrue /\ CallbacksAreNew /\ DeviceIsKnown

(* No command stays DISPATCHED, whether the poller runs or not, and whatever  *)
(* Google answers (command_timeout_watchdog, amapi_operation_poller).        *)
Settles == \A c \in Cmds : cmd[c].st = "DISPATCHED" ~> cmd[c].st # "DISPATCHED"
=============================================================================
