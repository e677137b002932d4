------------------------------ MODULE Enrollment ------------------------------
(***************************************************************************)
(* How one device comes to be managed, and ceases to be: an enrolment token *)
(* in Redis (redis_service.py), the requests that use it or the fixed       *)
(* secret (routes.enroll_device, mdm_service.enroll_device), the two rows   *)
(* they write in two commits (devices, device_policies), and what runs      *)
(* beside them: removal of the device, updates of the profile, and the      *)
(* device's own policy sync.                                               *)
(*                                                                         *)
(* A step goes from one Redis call or database statement to the next.  A    *)
(* request is known by its number, and its number stands for the device     *)
(* token it makes.  The content of a profile is known by the number of      *)
(* updates it has had.                                                     *)
(***************************************************************************)
EXTENDS Naturals, FiniteSets

CONSTANTS
    MaxRequests, \* bound: enrolment requests the device ever sends
    Profiles,    \* the provisioning profiles
    MaxDevices,  \* bound: the largest max_devices of a batch token
    MaxEvents,   \* bound: profile updates, removals and restarts, together
    NamesBound   \* FALSE: the code as shipped, where enroll_device uses
                 \* metadata without defining it and sync_policy calls
                 \* RedisService.get, which is not there.
                 \* TRUE: the same code with both names defined.

ASSUME EnrollmentBounds ==
    /\ {MaxRequests, MaxDevices, MaxEvents} \subseteq Nat
    /\ MaxDevices > 0 /\ NamesBound \in BOOLEAN

Requests == 1 .. MaxRequests
Nobody   == 0
Remover  == MaxRequests + 1
Earlier  == MaxRequests + 2     \* the enrolment that found the device new
ASSUME NobodyIsNoProfile == Nobody \notin Profiles

VARIABLES
    token,    \* the hash enrollment_token:<token> in Redis
    issued,   \* generate: "no", "stored" or "given" to the admin
    pc,       \* where each request is
    mine,     \* what each request holds: see Blank
    dev,      \* the device's row: its key, whether policy_outdated
    pol,      \* its device_policies row: profile, and the content merged in it
    lock,     \* who holds the lock of the device_policies row
    content,  \* the number of updates each profile has had
    active,   \* the profiles with is_active
    edit,     \* the profile an update_profile has loaded, or Nobody
    removal,  \* remove_device: "no", "policies" or "device"
    sync,     \* sync_policy: "no", or it has read a row still "fresh", or "stale"
    held,     \* the device token the device keeps
    current,  \* the device has applied the policy row as it stands
    events,   \* profile updates, removals and restarts so far
    accepted, \* history: requests the token has admitted
    history   \* history: what has overlapped what

agent  == <<held, current>>
rows   == <<dev, pol, lock>>
redis  == <<token, issued, accepted>>
admin  == <<content, active, edit, removal>>
vars   == <<token, issued, pc, mine, dev, pol, lock, content, active, edit,
            removal, sync, held, current, events, accepted, history>>

NoDevice == [key |-> Nobody, outdated |-> FALSE]
NoPolicy == [profile |-> Nobody, static |-> 0, linked |-> 0]
NoToken  == [mode |-> "none", max |-> 0, used |-> FALSE, count |-> 0, profile |-> Nobody]

(* A request holds the profile it enrols under, its copies of the token and  *)
(* of the device row, and the contents it has read.                          *)
Blank ==
    [by |-> "none", profile |-> Nobody, token |-> NoToken, dev |-> NoDevice,
     static |-> 0, linked |-> 0]

Ended   == {"done", "refused", "failed", "lost"}
Service == {"service", "load", "upsert", "layers", "find", "update", "insert", "audit"}

(* The device is new, or was enrolled earlier and is up to date.             *)
Init ==
    /\ token = NoToken /\ issued = "no" /\ accepted = 0
    /\ pc = [r \in Requests |-> "idle"] /\ mine = [r \in Requests |-> Blank]
    /\ \/ dev = NoDevice /\ pol = NoPolicy /\ held = Nobody /\ current = FALSE
       \/ /\ dev = [NoDevice EXCEPT !.key = Earlier] /\ held = Earlier /\ current = TRUE
          /\ \E p \in Profiles : pol = [NoPolicy EXCEPT !.profile = p]
    /\ lock = Nobody
    /\ content = [p \in Profiles |-> 0] /\ active = Profiles
    /\ edit = Nobody /\ removal = "no" /\ sync = "no" /\ events = 0
    /\ history = [raced |-> FALSE, crossed |-> {}, outrun |-> {}, synced |-> FALSE,
                  writer |-> IF pol = NoPolicy THEN Nobody ELSE Earlier]

Go(r, p)      == pc' = [pc EXCEPT ![r] = p]
Keep(r, f, v) == mine' = [mine EXCEPT ![r][f] = v]

(* The handler answers an error: what it held is gone.                      *)
End(r, p) == Go(r, p) /\ mine' = [mine EXCEPT ![r] = Blank]

-----------------------------------------------------------------------------
(* The token.                                                              *)

(* POST /enrollment/generate, once its arguments have been accepted.         *)
Generate(mode, n, p) ==
    /\ issued = "no" /\ p \in active
    /\ mode = "single" => n = 1
    /\ token' = [mode |-> mode, max |-> n, used |-> FALSE, count |-> 0, profile |-> p]
    /\ issued' = "stored"
    /\ UNCHANGED <<pc, mine, rows, admin, sync, agent, events, accepted, history>>

(* The key gets its expiry and the audit entry is written; only then does    *)
(* the admin see the token.                                                *)
Give ==
    /\ issued = "stored"
    /\ issued' = "given"
    /\ UNCHANGED <<token, pc, mine, rows, admin, sync, agent, events, accepted, history>>

Expire ==
    /\ issued = "given" /\ token.mode \notin {"none", "bare"}
    /\ token' = NoToken
    /\ UNCHANGED <<issued, pc, mine, rows, admin, sync, agent, events, accepted, history>>

(* HSET on a key that has expired makes a new one, of that field alone.      *)
Hset(f, v) == token' = [token EXCEPT !.mode = IF @ = "none" THEN "bare" ELSE @, ![f] = v]

-----------------------------------------------------------------------------
(* POST /enroll: the credential.                                           *)

(* The device sends its next request, whether or not it has given up the     *)
(* last: with the token of the QR code, or with the fixed secret.            *)
Start(r, by) ==
    /\ pc[r] = "idle" /\ \A q \in Requests : q < r => pc[q] # "idle"
    /\ by = "token" => issued = "given"
    /\ Go(r, "check") /\ Keep(r, "by", by)
    /\ UNCHANGED <<redis, rows, admin, sync, agent, events, history>>

Validating == {r \in Requests : pc[r] \in {"first", "second"}}

(* validate_enrollment_token: HGETALL, and the checks on what it returned.   *)
ReadToken(r) ==
    /\ pc[r] = "check" /\ mine[r].by = "token"
    /\ token.mode # "none" /\ ~token.used
    /\ Keep(r, "token", token) /\ Go(r, "first")
    /\ history' = [history EXCEPT !.raced = @ \/ Validating # {}]
    /\ UNCHANGED <<redis, rows, admin, sync, agent, events>>

OneUse(t) == t.mode # "batch"   \* a key without its mode counts as single

(* Mutant: a batch token is full one use too late.                          *)
CountLate(t) == t.count + 1 > t.max

Full(t) == t.count + 1 >= t.max

(* The first HSET: the status of a single token, the count of a batch one.   *)
FirstHset(r) ==
    /\ pc[r] = "first"
    /\ IF OneUse(mine[r].token) THEN Hset("used", TRUE) ELSE Hset("count", mine[r].token.count + 1)
    /\ Go(r, "second")
    /\ UNCHANGED <<issued, accepted, mine, rows, admin, sync, agent, events, history>>

(* The second: the count of a single token, the status of a full batch one.  *)
(* A key that had lost its fields has no profile_id, and that is an error.   *)
SecondHset(r) ==
    /\ pc[r] = "second"
    /\ LET t == mine[r].token IN
         /\ CASE OneUse(t) -> Hset("count", 1)
              [] ~OneUse(t) /\ Full(t) -> Hset("used", TRUE)
              [] OTHER -> UNCHANGED token
         /\ IF t.mode = "bare"
            THEN End(r, "failed") /\ UNCHANGED accepted
            ELSE /\ Go(r, "service") /\ accepted' = accepted + 1
                 /\ mine' = [mine EXCEPT ![r].profile = t.profile, ![r].token = NoToken]
    /\ UNCHANGED <<issued, rows, admin, sync, agent, events, history>>

(* The fixed secret: the profile asked for, or one of the active ones.       *)
Resolve(r, p) ==
    /\ pc[r] = "check" /\ mine[r].by = "secret" /\ p \in active
    /\ Keep(r, "profile", p) /\ Go(r, "service")
    /\ UNCHANGED <<redis, rows, admin, sync, agent, events, history>>

(* No such token or a used one (403, audited); with the secret, no active    *)
(* profile (409), or not the one that was asked for (404).                   *)
Refuse(r) ==
    /\ pc[r] = "check"
    /\ IF mine[r].by = "token" THEN token.mode = "none" \/ token.used ELSE active # Profiles
    /\ End(r, "refused")
    /\ UNCHANGED <<redis, rows, admin, sync, agent, events, history>>

-----------------------------------------------------------------------------
(* enroll_device.                                                          *)

Enrolling == {r \in Requests : pc[r] \in Service}

(* The profile must be active (400 otherwise); its own fields are in hand.   *)
GetProfile(r) ==
    /\ pc[r] = "service"
    /\ IF mine[r].profile \notin active THEN End(r, "refused") /\ UNCHANGED history
       ELSE IF ~NamesBound THEN End(r, "failed") /\ UNCHANGED history
       ELSE /\ Keep(r, "static", content[mine[r].profile]) /\ Go(r, "load")
            /\ history' = [history EXCEPT !.crossed =
                             @ \cup IF Enrolling = {r} THEN {} ELSE Enrolling]
    /\ UNCHANGED <<redis, rows, admin, sync, agent, events>>

(* repo.get                                                                *)
LoadDevice(r) ==
    /\ pc[r] = "load"
    /\ Keep(r, "dev", dev) /\ Go(r, "upsert")
    /\ UNCHANGED <<redis, rows, admin, sync, agent, events, history>>

(* The session writes what differs from the copy it loaded: a flag that was  *)
(* down then is not lowered now.                                            *)
WriteDevice(r) ==
    [key |-> r, outdated |-> dev.outdated /\ ~mine[r].dev.outdated]

(* The first commit.  A device gone since is left alone (update_device       *)
(* returns None); one come since breaks the insert.                         *)
Upsert(r) ==
    /\ pc[r] = "upsert"
    /\ LET known == mine[r].dev # NoDevice IN
         /\ dev' = IF known = (dev # NoDevice) THEN WriteDevice(r) ELSE dev
         /\ IF ~known /\ dev # NoDevice THEN End(r, "failed")
            ELSE Go(r, "layers") /\ Keep(r, "dev", NoDevice)
    /\ UNCHANGED <<redis, pol, lock, admin, sync, agent, events, history>>

(* The global policies and those linked to the profile, read and merged.     *)
ReadLayers(r) ==
    /\ pc[r] = "layers"
    /\ Keep(r, "linked", content[mine[r].profile]) /\ Go(r, "find")
    /\ UNCHANGED <<redis, rows, admin, sync, agent, events, history>>

(* Mutant: the row is read without asking whether it is locked.             *)
FindAny(r) ==
    /\ pc[r] = "find"
    /\ IF pol # NoPolicy
       THEN lock' = r /\ Go(r, "update")
       ELSE Go(r, "insert") /\ UNCHANGED lock
    /\ UNCHANGED <<redis, mine, dev, pol, admin, sync, agent, events, history>>

(* SELECT .. FOR UPDATE SKIP LOCKED: a row another transaction holds is not  *)
(* seen, no more than one that is not there.                                *)
FindPolicy(r) ==
    /\ pc[r] = "find"
    /\ IF pol # NoPolicy /\ lock = Nobody
       THEN lock' = r /\ Go(r, "update")
       ELSE Go(r, "insert") /\ UNCHANGED lock
    /\ UNCHANGED <<redis, mine, dev, pol, admin, sync, agent, events, history>>

Merged(r) == [profile |-> mine[r].profile, static |-> mine[r].static, linked |-> mine[r].linked]

(* The row is another than the device, or a sync under way, has seen.        *)
Rewritten == current' = FALSE /\ sync' = IF sync = "no" THEN "no" ELSE "stale"

(* History: r's is the policy in the row, and no sync has been since.        *)
WrittenBy(r) == Rewritten /\ history' = [history EXCEPT !.writer = r, !.synced = FALSE]

(* Mutant: the configuration of a row that is there is not replaced.        *)
KeepsConfig(r) ==
    /\ pc[r] = "update"
    /\ pol' = [pol EXCEPT !.profile = mine[r].profile]
    /\ lock' = Nobody /\ Go(r, "audit") /\ WrittenBy(r)
    /\ UNCHANGED <<redis, mine, dev, admin, held, events>>

(* Every column is written.  The session leaves out those that equal the copy *)
(* it loaded with the device, which is another row only if a second request   *)
(* of the device has written meanwhile: see the README.                     *)
UpdatePolicy(r) ==
    /\ pc[r] = "update"
    /\ pol' = Merged(r) /\ lock' = Nobody /\ Go(r, "audit") /\ WrittenBy(r)
    /\ UNCHANGED <<redis, mine, dev, admin, held, events>>

(* The insert waits for whoever holds the old row.  It breaks when there is  *)
(* a row after all, and when the device it refers to has been removed.       *)
InsertPolicy(r) ==
    /\ pc[r] = "insert" /\ lock = Nobody
    /\ IF pol = NoPolicy /\ dev # NoDevice
       THEN pol' = Merged(r) /\ Go(r, "audit") /\ WrittenBy(r) /\ UNCHANGED mine
       ELSE End(r, "failed") /\ UNCHANGED <<pol, sync, current, history>>
    /\ UNCHANGED <<redis, dev, lock, admin, held, events>>

(* DEVICE_ENROLLED is written by the service and by the route, each in a     *)
(* commit of its own; then the device is told its token, or the reply is     *)
(* lost.                                                                   *)
Reply(r) ==
    /\ pc[r] = "audit"
    /\ Go(r, "done") /\ held' \in {held, r}
    /\ UNCHANGED <<redis, mine, rows, admin, sync, current, events, history>>

(* A statement fails, or validate_policy_structure does not like the merge:  *)
(* 500, and the open transaction is undone.                                 *)
Fail(r) ==
    /\ pc[r] \in Service \cup {"check", "first", "second"}
    /\ End(r, "failed") /\ lock' = IF lock = r THEN Nobody ELSE lock
    /\ UNCHANGED <<redis, dev, pol, admin, sync, agent, events, history>>

-----------------------------------------------------------------------------
(* What runs beside.                                                       *)

(* remove_device finds the device; remove deletes what refers to it, then    *)
(* the device, and commits.                                                *)
RemoveBegin ==
    /\ removal = "no" /\ dev # NoDevice /\ events < MaxEvents
    /\ removal' = "policies" /\ events' = events + 1
    /\ UNCHANGED <<redis, pc, mine, rows, content, active, edit, sync, agent, history>>

RemovePolicies ==
    /\ removal = "policies" /\ lock = Nobody
    /\ removal' = "device" /\ lock' = IF pol = NoPolicy THEN Nobody ELSE Remover
    /\ UNCHANGED <<redis, pc, mine, dev, pol, content, active, edit, sync, agent, events, history>>

(* A policy inserted since still refers to the device: nothing is removed.   *)
RemoveDevice ==
    /\ removal = "device"
    /\ removal' = "no"
    /\ IF lock = Remover \/ pol = NoPolicy
       THEN dev' = NoDevice /\ pol' = NoPolicy /\ Rewritten
       ELSE UNCHANGED <<dev, pol, sync, current>>
    /\ lock' = IF lock = Remover THEN Nobody ELSE lock
    /\ UNCHANGED <<redis, pc, mine, content, active, edit, held, events, history>>

(* update_profile loads an active profile; then the new fields, the links,   *)
(* the version and the marks of the profile's devices are one commit.        *)
EditBegin(p) ==
    /\ edit = Nobody /\ p \in active /\ events < MaxEvents
    /\ edit' = p /\ events' = events + 1
    /\ UNCHANGED <<redis, pc, mine, rows, content, active, removal, sync, agent, history>>

(* Mutant: the new version is committed and no device is marked.            *)
MarksNone(p) == dev

(* mark_profile_devices_outdated: the devices whose policy is of the profile *)
Marked(p) == [dev EXCEPT !.outdated = @ \/ pol.profile = p]

EditCommit(gone) ==
    /\ edit # Nobody
    /\ content' = [content EXCEPT ![edit] = @ + 1]
    /\ active' = IF gone THEN active \ {edit} ELSE active
    /\ dev' = Marked(edit) /\ edit' = Nobody
    /\ history' = [history EXCEPT !.outrun = @ \cup {r \in Enrolling : pc[r] \notin {"service", "audit"}}]
    /\ UNCHANGED <<redis, pc, mine, pol, lock, removal, sync, agent, events>>

(* get_current_device: the row with the hash of the token.                  *)
Known == held # Nobody /\ dev.key = held

(* Mutant: only a marked device is answered.                                *)
SyncIfMarked ==
    /\ NamesBound /\ Known /\ sync = "no" /\ pol # NoPolicy /\ dev.outdated
    /\ sync' = "fresh" /\ UNCHANGED current
    /\ UNCHANGED <<redis, pc, mine, rows, admin, held, events, history>>

(* sync_policy: the device asks with what it has applied, and is answered    *)
(* when that is not the policy row, or when it is marked.                   *)
SyncRead ==
    /\ NamesBound /\ Known /\ sync = "no" /\ pol # NoPolicy
    /\ IF dev.outdated
       THEN sync' = "fresh" /\ UNCHANGED current
       ELSE ~current /\ current' = TRUE /\ UNCHANGED sync
    /\ UNCHANGED <<redis, pc, mine, rows, admin, held, events, history>>

(* The mark is cleared in a commit of its own, before the answer.            *)
SyncClear ==
    /\ sync # "no"
    /\ dev' = [dev EXCEPT !.outdated = FALSE]
    /\ current' = (sync = "fresh") /\ sync' = "no"
    /\ history' = [history EXCEPT !.synced = TRUE]
    /\ UNCHANGED <<redis, pc, mine, pol, lock, admin, held, events>>

(* get_bootstrap_data                                                      *)
Bootstrap ==
    /\ Known /\ pol # NoPolicy /\ ~current
    /\ current' = TRUE
    /\ UNCHANGED <<redis, pc, mine, rows, admin, sync, held, events, history>>

Crash ==
    /\ events < MaxEvents /\ events' = events + 1
    /\ pc' = [r \in Requests |-> IF pc[r] \in Ended \cup {"idle"} THEN pc[r] ELSE "lost"]
    /\ mine' = [r \in Requests |-> IF pc'[r] = "lost" THEN Blank ELSE mine[r]]
    /\ lock' = Nobody /\ edit' = Nobody /\ removal' = "no" /\ sync' = "no"
    /\ UNCHANGED <<redis, dev, pol, content, active, agent, history>>

-----------------------------------------------------------------------------
Step(r) ==
    \/ ReadToken(r) \/ FirstHset(r) \/ SecondHset(r) \/ Refuse(r)
    \/ \E p \in Profiles : Resolve(r, p)
    \/ GetProfile(r) \/ LoadDevice(r) \/ Upsert(r) \/ ReadLayers(r)
    \/ FindPolicy(r) \/ UpdatePolicy(r) \/ InsertPolicy(r) \/ Reply(r)

Next ==
    \/ \E mode \in {"single", "batch"}, n \in 1 .. MaxDevices, p \in Profiles : Generate(mode, n, p)
    \/ Give \/ Expire
    \/ \E r \in Requests, by \in {"token", "secret"} : Start(r, by)
    \/ \E r \in Requests : Step(r) \/ Fail(r)
    \/ RemoveBegin \/ RemovePolicies \/ RemoveDevice
    \/ \E p \in Profiles : EditBegin(p)
    \/ \E gone \in BOOLEAN : EditCommit(gone)
    \/ SyncRead \/ SyncClear \/ Bootstrap \/ Crash

Spec == Init /\ [][Next]_vars

(* The event loop runs every handler that has begun; the device asks for its *)
(* policy at each sync interval for as long as it is known.                 *)
Fairness ==
    /\ \A r \in Requests : WF_vars(Step(r))
    /\ WF_vars(RemovePolicies) /\ WF_vars(RemoveDevice)
    /\ WF_vars(SyncRead) /\ WF_vars(SyncClear)

LiveSpec == Spec /\ Fairness

-----------------------------------------------------------------------------
(* Properties.                                                             *)

Token ==
    [mode : {"none", "bare"}, max : {0}, used : BOOLEAN, count : Nat, profile : {Nobody}]
        \cup [mode : {"single", "batch"}, max : 1 .. MaxDevices, used : BOOLEAN, count : Nat,
              profile : Profiles]

Device == [key : Requests \cup {Nobody, Earlier}, outdated : BOOLEAN]
Policy == [profile : Profiles, static : Nat, linked : Nat] \cup {NoPolicy}

Held ==
    [by : {"none", "token", "secret"}, profile : Profiles \cup {Nobody}, token : Token,
     dev : Device, static : Nat, linked : Nat]

History ==
    [raced : BOOLEAN, crossed : SUBSET Requests, outrun : SUBSET Requests, synced : BOOLEAN,
     writer : Requests \cup {Nobody, Earlier}]

(* A request in the service has a profile, and one that validates a token has *)
(* read one.                                                               *)
TypeOK ==
    /\ token \in Token /\ issued \in {"no", "stored", "given"} /\ accepted \in Nat
    /\ pc \in [Requests -> Ended \cup Service \cup {"idle", "check", "first", "second"}]
    /\ mine \in [Requests -> Held] /\ dev \in Device /\ pol \in Policy
    /\ lock \in Requests \cup {Nobody, Remover}
    /\ removal \in {"no", "policies", "device"} /\ edit \in Profiles \cup {Nobody}
    /\ active \subseteq Profiles /\ content \in [Profiles -> Nat]
    /\ sync \in {"no", "fresh", "stale"} /\ current \in BOOLEAN
    /\ held \in Requests \cup {Nobody, Earlier} /\ history \in History
    /\ \A r \in Requests : /\ pc[r] \in Service => mine[r].profile \in Profiles
                           /\ r \in Validating => mine[r].token.mode # "none"

(* The lock of the policy row is held by the request about to update it or   *)
(* the removal about to commit, over a row that is there; and a policy       *)
(* always belongs to a device.                                             *)
RowsHold ==
    /\ \A r \in Requests : (lock = r) = (pc[r] = "update")
    /\ lock = Remover => removal = "device"
    /\ lock # Nobody => pol # NoPolicy
    /\ pol # NoPolicy => dev # NoDevice
    /\ dev.key = Nobody => dev = NoDevice

(* As long as no two validations of the token overlap, it admits no more     *)
(* requests than max_devices, whatever fails between its two writes, and     *)
(* even if it expires under them (validate_enrollment_token).                *)
TokenBudget == (token.mode \in {"single", "batch"} /\ ~history.raced) => accepted <= token.max

(* A device that was told "success", and whose token is still the one in     *)
(* force, has the very policy its own request merged, unless another request *)
(* of the device was under way at the same time: no removal, failed retry or *)
(* profile update leaves one request's token beside another's policy.        *)
PolicyFollowsKey ==
    \A r \in Requests \ history.crossed :
        pc[r] = "done" /\ dev.key = r => pol = Merged(r)

(* A policy made from contents that have since been replaced is marked       *)
(* outdated, until a sync answers the mark; except when the update came      *)
(* between the reads of the enrolment and its commit.                        *)
StaleIsMarked ==
    LET w == history.writer IN
    (pol # NoPolicy /\ dev.key = w /\ w \notin history.outrun /\ ~history.synced)
        => /\ pol.static = pol.linked
           /\ pol.static = content[pol.profile] \/ dev.outdated

(* What a token that is still there owes to validations that do not overlap:  *)
(* it is as the one under way has read and written it, and one that is not    *)
(* used up has a use left, whatever failed before.                          *)
Real == token.mode \in {"single", "batch"}

HalfWritten(r) ==
    LET t == mine[r].token IN
    /\ accepted < token.max
    /\ pc[r] = "first" => t = token /\ ~token.used
    /\ pc[r] = "second" =>
          /\ t.mode = token.mode /\ t.max = token.max
          /\ IF t.mode = "batch" THEN ~token.used /\ token.count = t.count + 1 /\ accepted <= t.count
             ELSE token.used

BudgetLeft ==
    /\ issued = "no" => token = NoToken
    /\ issued # "given" =>
          /\ accepted = 0 /\ Validating = {}
          /\ \A r \in Requests : pc[r] = "check" => mine[r].by # "token"
    /\ token.mode = "single" => token.max = 1
    /\ ~history.raced => \A q, r \in Validating : q = r
    /\ Real /\ ~history.raced =>
          /\ ~token.used => accepted < token.max /\ (token.mode = "batch" => accepted <= token.count)
          /\ \A r \in Validating : HalfWritten(r)

(* Two requests that were under way at once are known to have been; while one *)
(* can still write the policy, the key is not that of an earlier one.         *)
Deep    == Service \ {"service"}
Writing == {"layers", "find", "update", "insert"}

KeyAndPolicy ==
    /\ \A q, r \in Requests : q # r /\ {pc[q], pc[r]} \subseteq Deep => q \in history.crossed
    /\ \A q, r \in Requests : pc[q] \in Writing /\ dev.key = r /\ pc[r] = "done" => r \in history.crossed
    /\ \A r \in Requests \ history.crossed : pc[r] = "audit" /\ dev.key = r => pol = Merged(r)

(* What a request has read of the profile is its content, unless an update     *)
(* has outrun it; and who has written the policy writes no more.             *)
ReadsAreFresh ==
    /\ history.writer \in Requests => pc[history.writer] \in Ended \cup {"audit"}
    /\ \A r \in Requests \ history.outrun :
          /\ pc[r] \in Deep \ {"audit"} => mine[r].static = content[mine[r].profile]
          /\ pc[r] \in {"find", "update", "insert"} => mine[r].linked = content[mine[r].profile]

(* The inductive invariant.                                                  *)
IInv ==
    /\ TypeOK /\ RowsHold /\ TokenBudget /\ PolicyFollowsKey /\ StaleIsMarked
    /\ BudgetLeft /\ KeyAndPolicy /\ ReadsAreFresh

(* A device that is known ends up with the policy of its row, whatever the   *)
(* removals, updates and further enrolments that came before.                *)
SyncConverges == <>[](Known => current)
=============================================================================
