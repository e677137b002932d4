------------------------------- MODULE Policies -------------------------------
(***************************************************************************)
(* The policies of one device: policy_routes.py (create, update, delete,    *)
(* assign, unassign) and the evaluation each of them asks for, which reads  *)
(* the policies in force (drift_detector.get_device_desired_state).         *)
(*                                                                         *)
(* A request is known by its number, and its number stands for the content  *)
(* it writes.  A request works in a session of its own: it loads the row,   *)
(* and writes the columns it has changed.  What an evaluation does with the *)
(* policies it found is in Compliance; how they are merged is in            *)
(* PolicyMerge, and what is so written in PolicyEvaluation.                 *)
(*                                                                         *)
(* Where Compliance has a name too, the one here speaks of policies, so that *)
(* ComplianceProofs can extend both.                                        *)
(***************************************************************************)
EXTENDS Naturals, FiniteSets

CONSTANTS
    Ids,       \* the policies there may be
    Linked,    \* those linked to the device's profile
    MaxCalls   \* bound: requests of the administrators

ASSUME PoliciesBounds == Linked \subseteq Ids /\ MaxCalls \in Nat \ {0}

Calls == 1 .. MaxCalls

VARIABLES
    policies, \* the rows: whether it is there, is_active, version and content
    direct,   \* the policies assigned to the device
    call,     \* the requests: see Idle
    asked,    \* evaluations waiting for the device's lock
    reading,  \* the one that holds it, and the policies it has read
    seen,     \* the policies the last evaluation found
    history   \* the versions given, and what has gone wrong

policyVars == <<policies, direct, call, asked, reading, seen, history>>

NoPolicy     == [is |-> FALSE, on |-> FALSE, version |-> 0, body |-> 0]
FirstVersion == [is |-> TRUE, on |-> TRUE, version |-> 1, body |-> 0]
Idle         == [at |-> "idle", pol |-> 0, old |-> NoPolicy, got |-> 0, met |-> 0]
NotReading   == [at |-> "off", found |-> {}]

Named(p, r) == <<p, r.version, r.body>>
Active(ps)  == {Named(p, policies[p]) : p \in {q \in ps : policies[q].is /\ policies[q].on}}
Now         == Active(Linked \cup direct)

(* The linked policies are there from the start; the device has met them.    *)
PolicyInit ==
    /\ policies = [p \in Ids |-> IF p \in Linked THEN FirstVersion ELSE NoPolicy]
    /\ direct = {} /\ call = [c \in Calls |-> Idle] /\ asked = 0 /\ reading = NotReading
    /\ seen = Now
    /\ history = [named |-> Now, missed |-> FALSE, crowd |-> FALSE]

Go(c, at)   == call' = [call EXCEPT ![c].at = at]
Load(c, p, at) ==
    /\ call[c] = Idle /\ \A d \in Calls : d < c => call[d] # Idle
    /\ call' = [call EXCEPT ![c] = [Idle EXCEPT !.at = at, !.pol = p, !.old = policies[p]]]
    /\ UNCHANGED <<policies, direct, asked, reading, seen, history>>

(* The request is done, or has failed.                                      *)
End(c) == call' = [call EXCEPT ![c] = [Idle EXCEPT !.at = "ended"]]

-----------------------------------------------------------------------------
(* create_policy: a config that validates gets a row of its own.             *)
Create(p) ==
    /\ policies[p] = NoPolicy
    /\ policies' = [policies EXCEPT ![p] = FirstVersion]
    /\ history' = [history EXCEPT !.named = @ \cup {Named(p, policies'[p])}]
    /\ UNCHANGED <<direct, call, asked, reading, seen>>

(* update_policy                                                           *)
LoadForUpdate(c, p) == policies[p].is /\ Load(c, p, "loaded")

(* Mutant: the next version is reckoned from the copy.                      *)
BumpCopy(c) == call[c].old.version + 1

(* SET version = version + 1 RETURNING version                              *)
Bumped(c) == policies[call[c].pol].version + 1

Updating(p) == {c \in Calls : call[c].pol = p /\ call[c].at \in {"loaded", "bumped"}}

(* increment_policy_version: the fields set so far are flushed, the version  *)
(* goes up, and both are committed.  A policy deleted meanwhile is an error. *)
Bump(c, on) ==
    /\ call[c].at = "loaded"
    /\ LET p == call[c].pol IN
         IF ~policies[p].is THEN End(c) /\ UNCHANGED <<policies, history>>
         ELSE /\ policies' = [policies EXCEPT ![p] =
                    [is |-> TRUE, version |-> Bumped(c), body |-> c,
                     on |-> IF on = call[c].old.on THEN @.on ELSE on]]
              /\ call' = [d \in Calls |->
                    IF d = c THEN [call[c] EXCEPT !.at = "bumped", !.got = Bumped(c)]
                    ELSE IF d \in Updating(p) THEN [call[d] EXCEPT !.met = @ + 1] ELSE call[d]]
              /\ history' = [history EXCEPT !.named = @ \cup {Named(p, policies'[p])},
                                            !.crowd = @ \/ \E d \in Calls : call'[d].met > 1]
    /\ UNCHANGED <<direct, asked, reading, seen>>

(* Mutant: what the session holds is written whether it has changed or not.  *)
WriteAlways(c) ==
    /\ call[c].at = "bumped"
    /\ LET p == call[c].pol IN
         IF ~policies[p].is THEN End(c) /\ UNCHANGED <<policies, history>>
         ELSE /\ policies' = [policies EXCEPT ![p].version = call[c].got]
              /\ history' = [history EXCEPT !.named = @ \cup {Named(p, policies'[p])}]
              /\ Go(c, "trigger")
    /\ UNCHANGED <<direct, asked, reading, seen>>

(* policy.version = new_version, which the session writes when it is not the *)
(* value it holds already, one more than it loaded; then the audit entry.    *)
Write(c) ==
    /\ call[c].at = "bumped"
    /\ LET p == call[c].pol IN
         IF ~policies[p].is THEN End(c) /\ UNCHANGED <<policies, history>>
         ELSE /\ policies' = IF call[c].got = call[c].old.version + 1 THEN policies
                             ELSE [policies EXCEPT ![p].version = call[c].got]
              /\ history' = [history EXCEPT !.named = @ \cup {Named(p, policies'[p])}]
              /\ Go(c, "trigger")
    /\ UNCHANGED <<direct, asked, reading, seen>>

(* _trigger_re_enforcement: the device is evaluated when the policy is       *)
(* linked to its profile or assigned to it.                                 *)
TriggerReEnforcement(c) ==
    /\ call[c].at = "trigger"
    /\ asked' = IF call[c].pol \in Linked \cup direct THEN asked + 1 ELSE asked
    /\ End(c)
    /\ UNCHANGED <<policies, direct, reading, seen, history>>

(* delete_policy: neither linked nor assigned when it looked; an assignment  *)
(* made since still refers to the policy, and the deletion breaks.           *)
LoadForDelete(c, p) == policies[p].is /\ p \notin Linked \cup direct /\ Load(c, p, "unused")

Delete(c) ==
    /\ call[c].at = "unused"
    /\ policies' = IF call[c].pol \in direct THEN policies
                   ELSE [policies EXCEPT ![call[c].pol].is = FALSE]
    /\ End(c)
    /\ UNCHANGED <<direct, asked, reading, seen, history>>

(* assign_policy_to_device: the policy is there and not assigned; at the     *)
(* insert the database asks again, of both.                                 *)
LoadForAssign(c, p) == policies[p].is /\ p \notin direct /\ Load(c, p, "free")

(* Mutant: the evaluation is forgotten.                                     *)
AssignQuietly(c) ==
    /\ call[c].at = "free"
    /\ IF policies[call[c].pol].is THEN direct' = direct \cup {call[c].pol} ELSE UNCHANGED direct
    /\ End(c)
    /\ UNCHANGED <<policies, asked, reading, seen, history>>

(* Mutant: the database does not ask.                                       *)
AssignAnyway(c) ==
    /\ call[c].at = "free"
    /\ direct' = direct \cup {call[c].pol} /\ Go(c, "evaluate")
    /\ UNCHANGED <<policies, asked, reading, seen, history>>

Assign(c) ==
    /\ call[c].at = "free"
    /\ IF policies[call[c].pol].is /\ call[c].pol \notin direct
       THEN direct' = direct \cup {call[c].pol} /\ Go(c, "evaluate")
       ELSE End(c) /\ UNCHANGED direct
    /\ UNCHANGED <<policies, asked, reading, seen, history>>

(* unassign_policy_from_device                                             *)
LoadForUnassign(c, p) == p \in direct /\ Load(c, p, "assigned")

Unassign(c) ==
    /\ call[c].at = "assigned"
    /\ direct' = direct \ {call[c].pol} /\ Go(c, "evaluate")
    /\ UNCHANGED <<policies, asked, reading, seen, history>>

AskEvaluation(c) ==
    /\ call[c].at = "evaluate"
    /\ asked' = asked + 1 /\ End(c)
    /\ UNCHANGED <<policies, direct, reading, seen, history>>

(* A statement fails, an audit entry is not written or the backend restarts: *)
(* what was committed stays, and nothing is evaluated for it.                *)
Fail(c) ==
    /\ call[c].at \notin {"idle", "ended"}
    /\ End(c)
    /\ history' = [history EXCEPT !.missed = @ \/ call[c].at \in {"bumped", "trigger", "evaluate"}]
    /\ UNCHANGED <<policies, direct, asked, reading, seen>>

-----------------------------------------------------------------------------
(* The evaluation, one at a time under the device's lock.                    *)

(* The policies of the profile, in force at the first query ..              *)
ReadLinked ==
    /\ reading = NotReading /\ asked > 0
    /\ asked' = asked - 1 /\ reading' = [at |-> "direct", found |-> Active(Linked)]
    /\ UNCHANGED <<policies, direct, call, seen, history>>

(* .. then the assigned ones; a policy found twice is the one found first.    *)
Both == reading.found \cup {f \in Active(direct) : \A g \in reading.found : g[1] # f[1]}

ReadDirect ==
    /\ reading.at = "direct"
    /\ reading' = [at |-> "write", found |-> Both]
    /\ UNCHANGED <<policies, direct, call, asked, seen, history>>

(* The row of the device is written, or it is left as it is because nothing  *)
(* has changed.                                                            *)
Conclude ==
    /\ reading.at = "write"
    /\ seen' = reading.found /\ reading' = NotReading
    /\ UNCHANGED <<policies, direct, call, asked, history>>

Step(c) ==
    \/ \E on \in BOOLEAN : Bump(c, on)
    \/ Write(c) \/ TriggerReEnforcement(c)
    \/ Delete(c) \/ Assign(c) \/ Unassign(c) \/ AskEvaluation(c)

PolicyNext ==
    \/ \E p \in Ids : Create(p)
    \/ \E c \in Calls, p \in Ids : \/ LoadForUpdate(c, p) \/ LoadForDelete(c, p)
                                   \/ LoadForAssign(c, p) \/ LoadForUnassign(c, p)
    \/ \E c \in Calls : Step(c) \/ Fail(c)
    \/ ReadLinked \/ ReadDirect \/ Conclude

PolicySpec == PolicyInit /\ [][PolicyNext]_policyVars

(* The event loop runs the evaluations asked for and the requests begun.     *)
PolicyLiveSpec ==
    /\ PolicySpec /\ \A c \in Calls : WF_policyVars(Step(c))
    /\ WF_policyVars(ReadLinked) /\ WF_policyVars(ReadDirect) /\ WF_policyVars(Conclude)

-----------------------------------------------------------------------------
(* Properties.                                                             *)

PolicyRow  == [is : BOOLEAN, on : BOOLEAN, version : Nat, body : Calls \cup {0}]
Naming     == Ids \X Nat \X (Calls \cup {0})
Phases     == {"idle", "ended", "loaded", "bumped", "trigger", "unused", "free", "assigned",
               "evaluate"}
PolicyCall == [at : Phases, pol : Ids \cup {0}, old : PolicyRow, got : Nat, met : Nat]

(* The type invariant; with it, a request under way is about some policy.    *)
PolicyTypeOK ==
    /\ policies \in [Ids -> PolicyRow] /\ direct \in SUBSET Ids /\ asked \in Nat
    /\ call \in [Calls -> PolicyCall]
    /\ \A c \in Calls : call[c].at \notin {"idle", "ended"} => call[c].pol \in Ids
    /\ reading \in [at : {"off", "direct", "write"}, found : SUBSET Naming]
    /\ seen \in SUBSET Naming
    /\ history \in [named : SUBSET Naming, missed : BOOLEAN, crowd : BOOLEAN]

(* What is assigned, linked or being evaluated for has a row: a deletion     *)
(* that found the policy unused never takes one that has come into use since *)
(* (delete_policy against assign_policy_to_device).                         *)
InUseExists ==
    /\ \A p \in Linked \cup direct : policies[p].is
    /\ \A c \in Calls : call[c].at = "unused" => call[c].pol \notin Linked

(* A version of a policy never names two contents, as long as no update was  *)
(* passed by two others between its reading and its last write               *)
(* (increment_policy_version, update_policy).                               *)
VersionNamesContent ==
    ~history.crowd => \A f, g \in history.named : f[1] = g[1] /\ f[2] = g[2] => f[3] = g[3]

(* In the same case the version in the row is the highest ever given and names *)
(* the content beside it.                                                    *)
HighestIsCurrent ==
    ~history.crowd =>
        \A f \in history.named :
            LET r == policies[f[1]]
            IN  f[2] >= 1 /\ f[2] <= r.version /\ (f[2] = r.version => f[3] = r.body)

(* And an update knows how far its copy is behind: by the updates it has met,  *)
(* one at most, and by its own once that is made.                            *)
CopiesAreCounted ==
    ~history.crowd =>
        \A c \in Calls :
            LET r == policies[call[c].pol]
                old == call[c].old.version
            IN  /\ call[c].met <= 1
                /\ call[c].at = "loaded" => old >= 1 /\ r.version = old + call[c].met
                /\ call[c].at = "bumped" =>
                      /\ old >= 1 /\ r.version = old + 1 + call[c].met
                      /\ old + 1 <= call[c].got /\ call[c].got <= r.version

(* A row that is there has a version.                                        *)
RowsHaveVersions ==
    ~history.crowd => \A p \in Ids : policies[p].is => policies[p].version >= 1

(* The inductive invariant.                                                  *)
PolicyInv ==
    /\ PolicyTypeOK /\ InUseExists /\ RowsHaveVersions
    /\ VersionNamesContent /\ HighestIsCurrent /\ CopiesAreCounted

(* In the same case a version once in force is never written over by a lower   *)
(* one: not by the second write of an update that others have overtaken        *)
(* (update_policy), nor by a policy made anew after a deletion.               *)
VersionsRise ==
    [][history'.crowd \/ \A p \in Ids : policies'[p].version >= policies[p].version]_policyVars

(* Once the administrators have done, the device's last evaluation has seen    *)
(* what they committed last, unless a request failed half way: no order of     *)
(* updates, assignments and evaluations under way loses the last word.         *)
Settles == <>[](history.missed \/ seen = Now)
=============================================================================
