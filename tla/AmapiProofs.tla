------------------------------ MODULE AmapiProofs ------------------------------
(***************************************************************************)
(* For any number of commands, requests, enterprises, retries and faults at  *)
(* Google, with the poller or without: the bridge issues no command twice,    *)
(* says of none what Google has not done, and forgets no device that Google   *)
(* still manages in the enterprise the backend knows.                        *)
(***************************************************************************)
EXTENDS Amapi, TLAPS

\* What a request holds depends on where it is.
LEMMA RequestFields ==
    ASSUME NEW q \in Request
    PROVE  /\ q.at \in {"idle", "listed", "removing", "removed", "created", "inserted",
                        "accepted", "refused"}
           /\ q.at = "created" => q.ent \in Ents
           /\ q.at \in {"inserted", "accepted", "refused"} => q.cmd \in Cmds
BY DEF Request

LEMMA Requests ==
    /\ Idle \in Request /\ Idle.at = "idle"
    /\ \A at \in {"listed", "removing", "removed"} : [at |-> at] \in Request
    /\ \A e \in Ents : [at |-> "created", ent |-> e] \in Request
    /\ \A at \in {"inserted", "accepted", "refused"}, c \in Cmds : [at |-> at, cmd |-> c] \in Request
BY DEF Request, Idle

\* A request's step changes that request and no other.
LEMMA StepChanges ==
    ASSUME call \in [Calls -> Request], NEW k \in Calls, NEW r \in Request, Step(k, r)
    PROVE  /\ call' \in [Calls -> Request] /\ call'[k] = r
           /\ \A j \in Calls \ {k} : call'[j] = call[j]
BY DEF Step

LEMMA InitIInv == Init => IInv
<1> SUFFICES ASSUME Init PROVE IInv
  OBVIOUS
<1>1. \A k \in Calls : call[k] = Idle /\ call[k].at = "idle"
  BY Requests DEF Init
<1>2. TypeOK
  <2>1. cmd \in [Cmds -> Command]
    BY AmapiBounds DEF Init, Command, Statuses, NoCmd
  <2>2. call \in [Calls -> Request]
    BY Requests DEF Init
  <2>3. poll \in [todo : SUBSET Cmds, told : SUBSET (Cmds \X {"EXECUTED", "FAILED"})]
    BY DEF Init, AtRest
  <2>4. watch \in [todo : SUBSET Cmds, locked : SUBSET Cmds]
    BY DEF Init, Awake
  <2>5. config \in [signup : 0 .. MaxEnts, ent : 0 .. MaxEnts] /\ ghome \in 0 .. MaxEnts
    BY AmapiBounds DEF Init
  <2> QED
    BY <2>1, <2>2, <2>3, <2>4, <2>5 DEF Init, TypeOK
<1>3. Referential /\ SentOnce /\ Truthful /\ NeverUnmanaged
  BY DEF Init, Referential, SentOnce, Truthful, NeverUnmanaged, Row, NoCmd
<1>4. AskedOnce /\ AnswersAreTrue
  BY <1>1 DEF Init, AskedOnce, AnswersAreTrue, AtRest
<1>5. CallbacksAreNew /\ DeviceIsKnown
  BY <1>1 DEF Init, CallbacksAreNew, DeviceIsKnown
<1> QED
  BY <1>2, <1>3, <1>4, <1>5 DEF IInv

-----------------------------------------------------------------------------
(* Types.                                                                  *)

\* A command row stays one under what the backend writes to it.
LEMMA RowTypes ==
    ASSUME cmd \in [Cmds -> Command], NEW c \in Cmds
    PROVE  /\ \A st \in Statuses : [cmd EXCEPT ![c].st = st] \in [Cmds -> Command]
           /\ \A st \in Statuses, ok \in BOOLEAN :
                 [cmd EXCEPT ![c].st = st, ![c].op = ok] \in [Cmds -> Command]
BY DEF Command

LEMMA NoRowTypes == NoCmd \in Command /\ GoneCmd \in Command
BY AmapiBounds DEF NoCmd, GoneCmd, Command, Statuses

LEMMA RequestsType ==
    ASSUME TypeOK, NEW k \in Calls,
           Backend(k) \/ CallbackAsk(k) \/ SyncList(k) \/ RemoveBegin(k) \/ Fail(k)
    PROVE  TypeOK'
<1>0. call[k] \in Request
  BY DEF TypeOK
<1>1. CASE CallbackCommit(k)
  <2>1. call[k].ent \in 0 .. MaxEnts
    BY <1>0, <1>1, RequestFields, AmapiBounds DEF CallbackCommit, Ents
  <2> QED
    BY <1>1, <2>1, Requests, StepChanges DEF CallbackCommit, Ends, TypeOK, google
<1>2. CASE SyncCommit(k)
  BY <1>2, Requests, StepChanges DEF SyncCommit, Ends, TypeOK, google
<1>3. CASE RemoveGoogle(k)
  <2>1. call' \in [Calls -> Request]
    BY <1>3, Requests, StepChanges DEF RemoveGoogle, Ends, TypeOK
  <2> QED
    BY <1>3, <2>1 DEF RemoveGoogle, TypeOK, tables
<1>4. CASE RemoveCommit(k)
  <2>1. cmd' \in [Cmds -> Command]
    BY <1>4, NoRowTypes DEF RemoveCommit, TypeOK
  <2>2. call' \in [Calls -> Request]
    BY <1>4, Requests, StepChanges DEF RemoveCommit, Ends, TypeOK
  <2> QED
    BY <1>4, <2>1, <2>2 DEF RemoveCommit, TypeOK, google
<1>5. CASE SendAsk(k)
  <2>1. call[k].cmd \in Cmds
    BY <1>0, <1>5, RequestFields DEF SendAsk
  <2>2. call' \in [Calls -> Request]
    BY <1>5, <2>1, Requests, StepChanges DEF SendAsk, TypeOK
  <2>3. gop' \in [Cmds -> {"none", "running", "done", "error"}] /\ sent' \in [Cmds -> Nat]
    BY <1>5, <2>1 DEF SendAsk, TypeOK
  <2> QED
    BY <1>5, <2>2, <2>3 DEF SendAsk, TypeOK, tables
<1>6. CASE SendCommit(k)
  <2>1. call[k].cmd \in Cmds
    BY <1>0, <1>6, RequestFields DEF SendCommit
  <2>2. call' \in [Calls -> Request]
    BY <1>6, Requests, StepChanges DEF SendCommit, Ends, TypeOK
  <2>3. cmd' \in [Cmds -> Command]
    BY <1>6, <2>1, RowTypes DEF SendCommit, TypeOK, Statuses
  <2> QED
    BY <1>6, <2>2, <2>3 DEF SendCommit, TypeOK, google
<1>7. CASE CallbackAsk(k)
  <2>1. config.signup \in Ents
    BY <1>7, AmapiBounds DEF CallbackAsk, TypeOK, Ents
  <2>2. call' \in [Calls -> Request]
    BY <1>7, <2>1, Requests, StepChanges DEF CallbackAsk, TypeOK
  <2> QED
    BY <1>7, <2>1, <2>2 DEF CallbackAsk, TypeOK, tables
<1>8. CASE SyncList(k) \/ RemoveBegin(k) \/ Fail(k)
  BY <1>8, Requests, StepChanges DEF SyncList, RemoveBegin, Fail, Ends, TypeOK, tables, google
<1> QED
  BY <1>1, <1>2, <1>3, <1>4, <1>5, <1>6, <1>7, <1>8 DEF Backend

LEMMA PollSetType ==
    ASSUME TypeOK, NEW c \in Cmds, NEW st \in Statuses, PollSet(c, st)
    PROVE  TypeOK'
<1>1. cmd' \in [Cmds -> Command]
  <2>1. [cmd EXCEPT ![c].st = st] \in [Cmds -> Command]
    BY RowTypes DEF TypeOK
  <2> QED
    BY <2>1 DEF PollSet, TypeOK
<1>2. poll' \in [todo : SUBSET Cmds, told : SUBSET (Cmds \X {"EXECUTED", "FAILED"})]
  BY DEF PollSet, TypeOK, AtRest
<1> QED
  BY <1>1, <1>2 DEF PollSet, TypeOK, google

\* What the poller was told names a command and a status.
LEMMA ToldFields ==
    ASSUME TypeOK, NEW t \in poll.told
    PROVE  t = <<t[1], t[2]>> /\ t[1] \in Cmds /\ t[2] \in {"EXECUTED", "FAILED"}
BY DEF TypeOK

\* What the watchdog makes of a row is a row.
LEMMA VisitedType ==
    ASSUME NEW r \in Command
    PROVE  Visited(r) \in Command /\ Visited(r).st \in {"PENDING", "FAILED"}
<1>1. CASE r.tries < MaxRetries
  <2>1. r.tries + 1 \in 0 .. MaxRetries
    BY <1>1, AmapiBounds DEF Command
  <2> QED
    BY <1>1, <2>1 DEF Visited, Command, Statuses
<1>2. CASE ~(r.tries < MaxRetries)
  BY <1>2 DEF Visited, Command, Statuses
<1> QED
  BY <1>1, <1>2

LEMMA TypeStep == TypeOK /\ [Next]_vars => TypeOK'
<1> SUFFICES ASSUME TypeOK, [Next]_vars PROVE TypeOK'
  OBVIOUS
<1>1. CASE SignupUrl \/ EnrollmentToken
  <2>1. CASE SignupUrl
    <3>1. config.signup + 1 \in 0 .. MaxEnts
      BY <2>1, AmapiBounds DEF SignupUrl, TypeOK
    <3> QED
      BY <2>1, <3>1 DEF SignupUrl, TypeOK, google
  <2>2. CASE EnrollmentToken
    <3>1. config.ent \in Ents
      BY <2>2, AmapiBounds DEF EnrollmentToken, TypeOK, Ents
    <3> QED
      BY <2>2, <3>1 DEF EnrollmentToken, TypeOK, tables
  <2> QED
    BY <1>1, <2>1, <2>2
<1>2. CASE PollRead
  BY <1>2 DEF PollRead, TypeOK, AtRest, Dispatched, tables, google
<1>3. CASE PollWrite
  <2>1. PICK t \in poll.told : PollSet(t[1], t[2])
    BY <1>3 DEF PollWrite
  <2>2. t[1] \in Cmds /\ t[2] \in Statuses
    BY ToldFields DEF Statuses
  <2> QED
    BY <2>1, <2>2, PollSetType
<1>4. CASE WatchRead
  BY <1>4 DEF WatchRead, TypeOK, Dispatched, tables, google
<1>5. CASE Restart
  BY <1>5, Requests DEF Restart, TypeOK, AtRest, Awake, Dispatched
<1>6. ASSUME NEW e \in Ents, GoogleEnrolls(e) PROVE TypeOK'
  BY <1>6, AmapiBounds DEF GoogleEnrolls, TypeOK, Ents, tables
<1>7. ASSUME NEW k \in Calls, NEW c \in Cmds, SendInsert(k, c) PROVE TypeOK'
  <2>1. cmd' \in [Cmds -> Command]
    BY <1>7, RowTypes DEF SendInsert, TypeOK, Statuses
  <2>2. call' \in [Calls -> Request]
    BY <1>7, Requests, StepChanges DEF SendInsert, TypeOK
  <2> QED
    BY <1>7, <2>1, <2>2 DEF SendInsert, TypeOK, google
<1>8. ASSUME NEW c \in Cmds, GoogleRuns(c) PROVE TypeOK'
  BY <1>8 DEF GoogleRuns, TypeOK, tables
<1>9. ASSUME NEW c \in Cmds, PollStale(c) PROVE TypeOK'
  BY <1>9, PollSetType DEF PollStale, Statuses
<1>10. ASSUME NEW c \in Cmds, PollAsk(c) PROVE TypeOK'
  <2>1. poll' \in [todo : SUBSET Cmds, told : SUBSET (Cmds \X {"EXECUTED", "FAILED"})]
    BY <1>10 DEF PollAsk, TypeOK
  <2> QED
    BY <1>10, <2>1 DEF PollAsk, TypeOK, tables
<1>11. ASSUME NEW c \in Cmds, GraceEnds(c) PROVE TypeOK'
  BY <1>11 DEF GraceEnds, TypeOK, Dispatched, google
<1>12. ASSUME NEW c \in Cmds, WatchVisit(c) PROVE TypeOK'
  <2>1. Visited(cmd[c]) \in Command
    BY VisitedType DEF TypeOK
  <2>2. cmd' \in [Cmds -> Command]
    BY <1>12, <2>1 DEF WatchVisit, TypeOK
  <2>3. watch' \in [todo : SUBSET Cmds, locked : SUBSET Cmds]
    BY <1>12 DEF WatchVisit, TypeOK, Awake
  <2> QED
    BY <1>12, <2>2, <2>3 DEF WatchVisit, TypeOK, google
<1>13. CASE UNCHANGED vars
  BY <1>13 DEF vars, tables, google, TypeOK
<1> QED
  BY <1>1, <1>2, <1>3, <1>4, <1>5, <1>6, <1>7, <1>8, <1>9, <1>10, <1>11, <1>12, <1>13,
     RequestsType DEF Next
-----------------------------------------------------------------------------
(* What the removal and the enrollment leave.                              *)

LEMMA ReferentialStep == TypeOK /\ Referential /\ [Next]_vars => Referential'
<1> SUFFICES ASSUME TypeOK, Referential, [Next]_vars PROVE Referential'
  OBVIOUS
<1>1. CASE UNCHANGED <<cmd, local>>
  BY <1>1 DEF Referential, Row
<1>2. ASSUME NEW k \in Calls, SyncCommit(k) PROVE Referential'
  BY <1>2 DEF SyncCommit, Referential, Row
<1>3. ASSUME NEW k \in Calls, RemoveCommit(k) PROVE Referential'
  <2>1. \A c \in Cmds : ~Row(c)'
    BY <1>3 DEF RemoveCommit, Row, GoneCmd, TypeOK
  <2> QED
    BY <2>1 DEF Referential
<1>4. ASSUME NEW k \in Calls, NEW c \in Cmds, SendInsert(k, c) PROVE Referential'
  BY <1>4 DEF SendInsert, Referential, Row
<1>5. ASSUME NEW k \in Calls, SendCommit(k) PROVE Referential'
  BY <1>5 DEF SendCommit, Referential, Row, TypeOK
<1>6. ASSUME NEW c \in Cmds, NEW st, PollSet(c, st) PROVE Referential'
  BY <1>6 DEF PollSet, Referential, Row, TypeOK
<1>7. ASSUME NEW c \in Cmds, WatchVisit(c) PROVE Referential'
  BY <1>7 DEF WatchVisit, Referential, Row, TypeOK
<1>8. CASE PollWrite
  BY <1>8, <1>6, ToldFields DEF PollWrite
<1>9. ASSUME NEW c \in Cmds, PollStale(c) PROVE Referential'
  BY <1>9, <1>6 DEF PollStale
<1> QED
  BY <1>1, <1>2, <1>3, <1>4, <1>5, <1>7, <1>8, <1>9
  DEF Next, Backend, SignupUrl, EnrollmentToken, PollRead, WatchRead, Restart, GoogleEnrolls,
      CallbackCommit, CallbackAsk, SyncList, RemoveBegin, RemoveGoogle, SendAsk, Fail,
      GoogleRuns, PollAsk, GraceEnds, vars, tables

-----------------------------------------------------------------------------
(* Every command is issued once.                                           *)

\* Only the request that inserted a row asks Google, and it asks once; the steps of the others
\* insert no row, forget none, and ask nothing.
LEMMA AskedOnceStep == TypeOK /\ SentOnce /\ AskedOnce /\ [Next]_vars => SentOnce' /\ AskedOnce'
<1> SUFFICES ASSUME TypeOK, SentOnce, AskedOnce, [Next]_vars PROVE SentOnce' /\ AskedOnce'
  OBVIOUS
<1> DEFINE Inserted(k) == call[k].at = "inserted"
           Quiet ==
             /\ gop' = gop /\ sent' = sent
             /\ \A c \in Cmds : cmd'[c].st = "none" <=> cmd[c].st = "none"
             /\ \A k \in Calls : Inserted(k)' => Inserted(k) /\ call'[k] = call[k]
<1>0. \A k \in Calls : call[k] \in Request /\ (Inserted(k) => call[k].cmd \in Cmds)
  BY RequestFields DEF TypeOK
<1>1. ASSUME Quiet PROVE SentOnce' /\ AskedOnce'
  BY <1>0, <1>1 DEF SentOnce, AskedOnce
<1>2. ASSUME NEW k \in Calls, NEW r \in Request, r.at # "inserted", Step(k, r)
      PROVE  \A j \in Calls : Inserted(j)' => Inserted(j) /\ call'[j] = call[j]
  BY <1>2, StepChanges DEF TypeOK
<1>3. ASSUME NEW k \in Calls, Ends(k)
      PROVE  \A j \in Calls : Inserted(j)' => Inserted(j) /\ call'[j] = call[j]
  BY <1>2, <1>3, Requests DEF Ends
<1>4. ASSUME NEW k \in Calls, CallbackCommit(k) \/ SyncCommit(k) \/ Fail(k) PROVE Quiet
  BY <1>3, <1>4 DEF CallbackCommit, SyncCommit, Fail, tables, google
<1>5. ASSUME NEW k \in Calls, CallbackAsk(k) \/ SyncList(k) \/ RemoveBegin(k) \/ RemoveGoogle(k)
      PROVE  Quiet
  <2>1. config.signup \in Ents \/ ~CallbackAsk(k)
    BY AmapiBounds DEF CallbackAsk, TypeOK, Ents
  <2>2. \A j \in Calls : Inserted(j)' => Inserted(j) /\ call'[j] = call[j]
    BY <1>2, <1>3, <1>5, <2>1, Requests DEF CallbackAsk, SyncList, RemoveBegin, RemoveGoogle
  <2> QED
    BY <1>5, <2>2 DEF CallbackAsk, SyncList, RemoveBegin, RemoveGoogle, tables, google
<1>6. ASSUME NEW k \in Calls, RemoveCommit(k) PROVE Quiet
  <2>1. \A c \in Cmds : cmd'[c].st = "none" <=> cmd[c].st = "none"
    BY <1>6 DEF RemoveCommit, Row, GoneCmd, TypeOK
  <2> QED
    BY <1>3, <1>6, <2>1 DEF RemoveCommit, google
<1>7. ASSUME NEW k \in Calls, SendCommit(k) PROVE Quiet
  <2>1. \A c \in Cmds : cmd'[c].st = "none" <=> cmd[c].st = "none"
    BY <1>7 DEF SendCommit, Row, TypeOK
  <2> QED
    BY <1>3, <1>7, <2>1 DEF SendCommit, google
<1>8. ASSUME NEW k \in Calls, NEW c \in Cmds, SendInsert(k, c) PROVE SentOnce' /\ AskedOnce'
  <2> DEFINE r == [at |-> "inserted", cmd |-> c]
  <2>1. call'[k] = r /\ r.cmd = c /\ \A j \in Calls \ {k} : call'[j] = call[j]
    BY <1>8, Requests, StepChanges DEF SendInsert, TypeOK
  <2>2. cmd'[c].st # "none" /\ \A d \in Cmds \ {c} : cmd'[d] = cmd[d]
    BY <1>8 DEF SendInsert, TypeOK, Command
  <2>3. cmd[c].st = "none" /\ gop' = gop /\ sent' = sent
    BY <1>8 DEF SendInsert, google
  <2> HIDE DEF r
  <2> QED
    BY <1>0, <2>1, <2>2, <2>3 DEF SentOnce, AskedOnce
<1>9. ASSUME NEW k \in Calls, SendAsk(k) PROVE SentOnce' /\ AskedOnce'
  <2>1. call[k].cmd \in Cmds /\ Inserted(k) /\ cmd' = cmd
    BY <1>0, <1>9 DEF SendAsk, tables
  <2>2. ~Inserted(k)' /\ \A j \in Calls \ {k} : call'[j] = call[j]
    BY <1>9, <2>1, Requests, StepChanges DEF SendAsk, TypeOK
  <2>3. CASE gop' = gop /\ sent' = sent
    BY <1>1, <2>1, <2>2, <2>3
  <2>4. CASE /\ gop' = [gop EXCEPT ![call[k].cmd] = "running"]
             /\ sent' = [sent EXCEPT ![call[k].cmd] = @ + 1]
    <3>1. sent'[call[k].cmd] = 1 /\ gop'[call[k].cmd] = "running"
      BY <2>1, <2>4 DEF AskedOnce, TypeOK
    <3>2. \A d \in Cmds \ {call[k].cmd} : sent'[d] = sent[d] /\ gop'[d] = gop[d]
      BY <2>4 DEF TypeOK
    <3> QED
      BY <1>0, <2>1, <2>2, <3>1, <3>2 DEF SentOnce, AskedOnce
  <2> QED
    BY <1>9, <2>3, <2>4 DEF SendAsk
<1>10. ASSUME NEW c \in Cmds, GoogleRuns(c) PROVE SentOnce' /\ AskedOnce'
  <2>1. gop[c] # "none" /\ gop'[c] # "none" /\ \A d \in Cmds \ {c} : gop'[d] = gop[d]
    BY <1>10 DEF GoogleRuns, TypeOK
  <2> QED
    BY <1>10, <2>1 DEF GoogleRuns, SentOnce, AskedOnce, tables
<1>11. ASSUME NEW c \in Cmds, NEW st \in Statuses \ {"none"}, PollSet(c, st) PROVE Quiet
  <2>1. \A d \in Cmds : cmd'[d].st = "none" <=> cmd[d].st = "none"
    BY <1>11 DEF PollSet, Row, TypeOK, Command
  <2> QED
    BY <1>11, <2>1 DEF PollSet, google
<1>12. CASE PollWrite
  <2>1. Quiet
    BY <1>11, <1>12, ToldFields DEF PollWrite, Statuses
  <2> QED
    BY <1>1, <2>1
<1>13. ASSUME NEW c \in Cmds, PollStale(c) PROVE Quiet
  BY <1>11, <1>13 DEF PollStale, Statuses
<1>14. ASSUME NEW c \in Cmds, WatchVisit(c) PROVE Quiet
  <2>1. \A d \in Cmds : cmd'[d].st = "none" <=> cmd[d].st = "none"
    BY <1>14, VisitedType DEF WatchVisit, Row, TypeOK
  <2> QED
    BY <1>14, <2>1 DEF WatchVisit, google
<1>15. CASE Restart
  <2>1. Quiet
    BY <1>15, Requests DEF Restart
  <2> QED
    BY <1>1, <2>1
<1>16. CASE SignupUrl \/ EnrollmentToken \/ PollRead \/ WatchRead \/ UNCHANGED vars
  <2>1. Quiet
    BY <1>16 DEF SignupUrl, EnrollmentToken, PollRead, WatchRead, vars, tables, google
  <2> QED
    BY <1>1, <2>1
<1>17. ASSUME NEW e \in Ents, GoogleEnrolls(e) PROVE Quiet
  BY <1>17 DEF GoogleEnrolls, tables
<1>18. ASSUME NEW c \in Cmds, PollAsk(c) \/ GraceEnds(c) PROVE Quiet
  BY <1>18 DEF PollAsk, GraceEnds, tables, google
<1> HIDE DEF Quiet
<1> QED
  BY <1>1, <1>4, <1>5, <1>6, <1>7, <1>8, <1>9, <1>10, <1>12, <1>13, <1>14, <1>15, <1>16, <1>17, <1>18
  DEF Next, Backend

-----------------------------------------------------------------------------
(* What is written of a command is what Google did.                        *)

\* What an operation has come to it keeps, and a status is written from the answer that the
\* request or the poller was given, however long ago.
LEMMA TruthfulStep ==
    TypeOK /\ AskedOnce /\ AnswersAreTrue /\ Truthful /\ [Next]_vars => AnswersAreTrue' /\ Truthful'
<1> SUFFICES ASSUME TypeOK, AskedOnce, AnswersAreTrue, Truthful, [Next]_vars
             PROVE  AnswersAreTrue' /\ Truthful'
  OBVIOUS
<1> DEFINE Accepted(k) == call[k].at = "accepted"
           Onward == \A c \in Cmds : /\ gop[c] # "none" => gop'[c] # "none"
                                     /\ gop[c] = "done" => gop'[c] = "done"
           SaysLess == \A c \in Cmds :
                         /\ cmd'[c].st = "DISPATCHED" => cmd[c].st = "DISPATCHED"
                         /\ cmd'[c].st = "EXECUTED" => cmd[c].st = "EXECUTED"
           SameCalls == \A k \in Calls : Accepted(k)' => Accepted(k) /\ call'[k] = call[k]
           SameTold == poll'.told \subseteq poll.told
<1>0. /\ \A k \in Calls : call[k] \in Request /\ (Accepted(k) => call[k].cmd \in Cmds)
      /\ \A t \in poll.told : t[1] \in Cmds
  BY RequestFields, ToldFields DEF TypeOK
<1>1. ASSUME Onward, SameCalls, SameTold PROVE AnswersAreTrue'
  BY <1>0, <1>1 DEF AnswersAreTrue
<1>2. ASSUME Onward, SaysLess PROVE Truthful'
  BY <1>2 DEF Truthful
<1>3. ASSUME NEW k \in Calls, NEW r \in Request, r.at # "accepted", Step(k, r) PROVE SameCalls
  BY <1>3, StepChanges DEF TypeOK
<1>4. ASSUME NEW k \in Calls, Ends(k) PROVE SameCalls
  BY <1>3, <1>4, Requests DEF Ends
<1>5. ASSUME gop' = gop PROVE Onward
  BY <1>5
<1>6. ASSUME NEW k \in Calls, CallbackCommit(k) \/ SyncCommit(k) \/ Fail(k)
      PROVE  AnswersAreTrue' /\ Truthful'
  <2>1. Onward /\ SaysLess /\ SameTold /\ SameCalls
    BY <1>4, <1>6 DEF CallbackCommit, SyncCommit, Fail, tables, google
  <2> QED
    BY <1>1, <1>2, <2>1
<1>7. ASSUME NEW k \in Calls, CallbackAsk(k) \/ SyncList(k) \/ RemoveBegin(k) \/ RemoveGoogle(k)
      PROVE  AnswersAreTrue' /\ Truthful'
  <2>1. config.signup \in Ents \/ ~CallbackAsk(k)
    BY AmapiBounds DEF CallbackAsk, TypeOK, Ents
  <2>2. SameCalls
    BY <1>3, <1>4, <1>7, <2>1, Requests DEF CallbackAsk, SyncList, RemoveBegin, RemoveGoogle
  <2>3. Onward /\ SaysLess /\ SameTold
    BY <1>7 DEF CallbackAsk, SyncList, RemoveBegin, RemoveGoogle, tables, google
  <2> QED
    BY <1>1, <1>2, <2>2, <2>3
<1>8. ASSUME NEW k \in Calls, RemoveCommit(k) PROVE AnswersAreTrue' /\ Truthful'
  <2>1. SaysLess
    BY <1>8 DEF RemoveCommit, GoneCmd, TypeOK
  <2>2. Onward /\ SameTold /\ SameCalls
    BY <1>4, <1>8 DEF RemoveCommit, google
  <2> QED
    BY <1>1, <1>2, <2>1, <2>2
<1>9. ASSUME NEW k \in Calls, SendAsk(k) PROVE AnswersAreTrue' /\ Truthful'
  <2>1. /\ call[k].cmd \in Cmds /\ call[k].at = "inserted"
        /\ gop[call[k].cmd] = "none" /\ SaysLess /\ SameTold
    BY <1>0, <1>9, RequestFields DEF SendAsk, tables, AskedOnce, TypeOK
  <2>2. Onward
    BY <1>9, <2>1 DEF SendAsk, TypeOK
  <2>3. CASE Step(k, [at |-> "refused", cmd |-> call[k].cmd])
    <3>1. SameCalls
      BY <1>3, <2>1, <2>3, Requests
    <3> QED
      BY <1>1, <1>2, <2>1, <2>2, <3>1
  <2>4. CASE /\ gop' = [gop EXCEPT ![call[k].cmd] = "running"]
             /\ Step(k, [at |-> "accepted", cmd |-> call[k].cmd])
    <3>1. /\ call'[k] = [at |-> "accepted", cmd |-> call[k].cmd]
          /\ \A j \in Calls \ {k} : call'[j] = call[j]
      BY <2>1, <2>4, Requests, StepChanges DEF TypeOK
    <3>2. call'[k].cmd = call[k].cmd /\ gop'[call[k].cmd] = "running"
      BY <2>1, <2>4, <3>1 DEF TypeOK
    <3> QED
      BY <1>0, <1>2, <2>1, <2>2, <3>1, <3>2 DEF AnswersAreTrue
  <2> QED
    BY <1>9, <2>3, <2>4 DEF SendAsk
<1>10. ASSUME NEW k \in Calls, SendCommit(k) PROVE AnswersAreTrue' /\ Truthful'
  <2>1. Onward /\ SameTold /\ SameCalls
    BY <1>4, <1>10 DEF SendCommit, google
  <2>2. call[k].cmd \in Cmds
    BY <1>0, <1>10, RequestFields DEF SendCommit
  <2>3. \A d \in Cmds \ {call[k].cmd} : cmd'[d] = cmd[d]
    BY <1>10, <2>2 DEF SendCommit, TypeOK
  <2>4. /\ cmd'[call[k].cmd].st = "DISPATCHED" => Accepted(k) \/ cmd' = cmd
        /\ cmd'[call[k].cmd].st = "EXECUTED" => cmd' = cmd
    BY <1>10, <2>2 DEF SendCommit, TypeOK, Command
  <2>5. gop' = gop /\ (Accepted(k) => gop[call[k].cmd] # "none")
    BY <1>10 DEF SendCommit, google, AnswersAreTrue
  <2>6. Truthful'
    BY <2>3, <2>4, <2>5 DEF Truthful
  <2> QED
    BY <1>1, <2>1, <2>6
<1>11. ASSUME NEW k \in Calls, NEW c \in Cmds, SendInsert(k, c) PROVE AnswersAreTrue' /\ Truthful'
  <2>1. SaysLess
    BY <1>11 DEF SendInsert, TypeOK, Command
  <2>2. Onward /\ SameTold /\ SameCalls
    BY <1>3, <1>11, Requests DEF SendInsert, google
  <2> QED
    BY <1>1, <1>2, <2>1, <2>2
<1>12. ASSUME NEW c \in Cmds, GoogleRuns(c) PROVE AnswersAreTrue' /\ Truthful'
  <2>1. Onward /\ SaysLess /\ SameTold /\ SameCalls
    BY <1>12 DEF GoogleRuns, TypeOK, tables
  <2> QED
    BY <1>1, <1>2, <2>1
<1>13. ASSUME NEW c \in Cmds, NEW st \in {"EXECUTED", "FAILED"}, PollSet(c, st),
              st = "EXECUTED" => gop[c] = "done"
      PROVE  AnswersAreTrue' /\ Truthful'
  <2>1. Onward /\ SameTold /\ SameCalls
    BY <1>13 DEF PollSet, google, AtRest
  <2>2. \A d \in Cmds : cmd'[d] = cmd[d] \/ (d = c /\ cmd'[d].st = st)
    BY <1>13 DEF PollSet, TypeOK, Command
  <2> QED
    BY <1>1, <1>13, <2>1, <2>2 DEF Truthful
<1>14. CASE PollWrite
  <2>1. PICK t \in poll.told : PollSet(t[1], t[2])
    BY <1>14 DEF PollWrite
  <2>2. t[1] \in Cmds /\ t[2] \in {"EXECUTED", "FAILED"} /\ (t[2] = "EXECUTED" => gop[t[1]] = "done")
    BY ToldFields DEF AnswersAreTrue
  <2> QED
    BY <1>13, <2>1, <2>2
<1>15. ASSUME NEW c \in Cmds, PollStale(c) PROVE AnswersAreTrue' /\ Truthful'
  BY <1>13, <1>15 DEF PollStale
<1>16. ASSUME NEW c \in Cmds, PollAsk(c) PROVE AnswersAreTrue' /\ Truthful'
  <2>1. Onward /\ SaysLess /\ SameCalls
    BY <1>16 DEF PollAsk, tables
  <2>2. CASE SameTold
    BY <1>1, <1>2, <2>1, <2>2
  <2>3. CASE /\ gop[c] \in {"done", "error"}
             /\ poll' = [poll EXCEPT !.told = {<<c, IF gop[c] = "error" THEN "FAILED" ELSE "EXECUTED">>}]
    <3>1. \A t \in poll'.told : t[1] = c /\ (t[2] = "EXECUTED" => gop[c] = "done")
      BY <2>3 DEF TypeOK
    <3> QED
      BY <1>0, <1>2, <2>1, <3>1 DEF AnswersAreTrue
  <2> QED
    BY <1>16, <2>2, <2>3 DEF PollAsk, TypeOK
<1>17. ASSUME NEW c \in Cmds, WatchVisit(c) PROVE AnswersAreTrue' /\ Truthful'
  <2>1. SaysLess
    BY <1>17, VisitedType DEF WatchVisit, TypeOK
  <2>2. Onward /\ SameTold /\ SameCalls
    BY <1>17 DEF WatchVisit, google
  <2> QED
    BY <1>1, <1>2, <2>1, <2>2
<1>18. CASE Restart
  <2>1. Onward /\ SaysLess /\ SameTold /\ SameCalls
    BY <1>18, Requests DEF Restart, AtRest
  <2> QED
    BY <1>1, <1>2, <2>1
<1>19. CASE SignupUrl \/ EnrollmentToken \/ PollRead \/ WatchRead \/ UNCHANGED vars
  <2>1. Onward /\ SaysLess /\ SameTold /\ SameCalls
    BY <1>19 DEF SignupUrl, EnrollmentToken, PollRead, WatchRead, AtRest, vars, tables, google
  <2> QED
    BY <1>1, <1>2, <2>1
<1>20. ASSUME NEW e \in Ents, GoogleEnrolls(e) PROVE AnswersAreTrue' /\ Truthful'
  <2>1. Onward /\ SaysLess /\ SameTold /\ SameCalls
    BY <1>20 DEF GoogleEnrolls, tables
  <2> QED
    BY <1>1, <1>2, <2>1
<1>21. ASSUME NEW c \in Cmds, GraceEnds(c) PROVE AnswersAreTrue' /\ Truthful'
  <2>1. Onward /\ SaysLess /\ SameTold /\ SameCalls
    BY <1>21 DEF GraceEnds, google
  <2> QED
    BY <1>1, <1>2, <2>1
<1> QED
  BY <1>6, <1>7, <1>8, <1>9, <1>10, <1>11, <1>12, <1>14, <1>15, <1>16, <1>17, <1>18, <1>19, <1>20, <1>21
  DEF Next, Backend

-----------------------------------------------------------------------------
(* Enterprises, and the device.                                            *)

LEMMA CallbacksStep == TypeOK /\ CallbacksAreNew /\ [Next]_vars => CallbacksAreNew'
<1> SUFFICES ASSUME TypeOK, CallbacksAreNew, [Next]_vars PROVE CallbacksAreNew'
  OBVIOUS
<1> DEFINE Created(k) == call[k].at = "created"
           SameEnts == <<gtokens, gused, config.ent, ghome>>' = <<gtokens, gused, config.ent, ghome>>
           SameCalls == \A k \in Calls : Created(k)' => Created(k) /\ call'[k] = call[k]
<1>0. \A k \in Calls : call[k] \in Request /\ (Created(k) => call[k].ent \in Ents /\ call[k].ent # 0)
  BY RequestFields, AmapiBounds DEF TypeOK, Ents
<1>1. ASSUME SameEnts, SameCalls PROVE CallbacksAreNew'
  BY <1>0, <1>1 DEF CallbacksAreNew
<1>2. ASSUME NEW k \in Calls, NEW r \in Request, r.at # "created", Step(k, r) PROVE SameCalls
  BY <1>2, StepChanges DEF TypeOK
<1>3. ASSUME NEW k \in Calls, Ends(k) PROVE SameCalls /\ ~Created(k)'
  BY <1>2, <1>3, Requests, StepChanges DEF Ends, TypeOK
<1>4. ASSUME NEW k \in Calls, CallbackAsk(k) PROVE CallbacksAreNew'
  <2>1. config.signup \in Ents /\ config.signup # 0 /\ config.signup \notin gused
    BY <1>4, AmapiBounds DEF CallbackAsk, TypeOK, Ents
  <2>2. /\ gused' = gused \cup {config.signup} /\ config' = config
        /\ gtokens' = gtokens /\ ghome' = ghome
    BY <1>4 DEF CallbackAsk, tables
  <2>3. CASE call' = call
    BY <1>0, <2>1, <2>2, <2>3 DEF CallbacksAreNew
  <2>4. CASE Step(k, [at |-> "created", ent |-> config.signup])
    <3> DEFINE r == [at |-> "created", ent |-> config.signup]
    <3>1. call'[k] = r /\ r.ent = config.signup /\ \A j \in Calls \ {k} : call'[j] = call[j]
      BY <2>1, <2>4, Requests, StepChanges DEF TypeOK
    <3> HIDE DEF r
    <3> QED
      BY <1>0, <2>1, <2>2, <3>1 DEF CallbacksAreNew
  <2> QED
    BY <1>4, <2>3, <2>4 DEF CallbackAsk
<1>5. ASSUME NEW k \in Calls, CallbackCommit(k) PROVE CallbacksAreNew'
  <2>1. Created(k) /\ config'.ent = call[k].ent
    BY <1>5 DEF CallbackCommit, TypeOK
  <2>2. gtokens' = gtokens /\ gused' = gused /\ ghome' = ghome
    BY <1>5 DEF CallbackCommit, google
  <2>3. SameCalls /\ ~Created(k)'
    BY <1>3, <1>5 DEF CallbackCommit
  <2> QED
    BY <1>0, <2>1, <2>2, <2>3 DEF CallbacksAreNew
<1>6. CASE EnrollmentToken
  BY <1>0, <1>6 DEF EnrollmentToken, CallbacksAreNew, tables
<1>7. ASSUME NEW e \in Ents, GoogleEnrolls(e) PROVE CallbacksAreNew'
  BY <1>0, <1>7 DEF GoogleEnrolls, CallbacksAreNew, tables
<1>8. CASE SignupUrl
  <2>1. config'.ent = config.ent
    BY <1>8 DEF SignupUrl, TypeOK
  <2> QED
    BY <1>1, <1>8, <2>1 DEF SignupUrl, google
<1>9. ASSUME NEW k \in Calls,
             SyncCommit(k) \/ RemoveGoogle(k) \/ RemoveCommit(k) \/ SendCommit(k) \/ Fail(k)
      PROVE  CallbacksAreNew'
  <2>1. SameCalls
    BY <1>2, <1>3, <1>9, Requests DEF SyncCommit, RemoveGoogle, RemoveCommit, SendCommit, Fail
  <2>2. SameEnts
    BY <1>9 DEF SyncCommit, RemoveGoogle, RemoveCommit, SendCommit, Fail, tables, google
  <2> QED
    BY <1>1, <2>1, <2>2
<1>10. ASSUME NEW k \in Calls, SyncList(k) \/ RemoveBegin(k) PROVE CallbacksAreNew'
  BY <1>1, <1>2, <1>10, Requests DEF SyncList, RemoveBegin, tables, google
<1>11. ASSUME NEW k \in Calls, SendAsk(k) PROVE CallbacksAreNew'
  <2>1. call[k].cmd \in Cmds
    BY <1>0, <1>11, RequestFields DEF SendAsk
  <2>2. SameCalls
    BY <1>2, <1>11, <2>1, Requests DEF SendAsk
  <2> QED
    BY <1>1, <1>11, <2>2 DEF SendAsk, tables
<1>12. ASSUME NEW k \in Calls, NEW c \in Cmds, SendInsert(k, c) PROVE CallbacksAreNew'
  BY <1>1, <1>2, <1>12, Requests DEF SendInsert, google
<1>13. CASE Restart
  BY <1>1, <1>13, Requests DEF Restart
<1>14. ASSUME NEW c \in Cmds, NEW st, PollSet(c, st) PROVE CallbacksAreNew'
  BY <1>1, <1>14 DEF PollSet, google
<1>15. CASE PollWrite
  BY <1>14, <1>15, ToldFields DEF PollWrite
<1>16. CASE PollRead \/ WatchRead \/ UNCHANGED vars
  BY <1>1, <1>16 DEF PollRead, WatchRead, vars, tables, google
<1>17. ASSUME NEW c \in Cmds,
              GoogleRuns(c) \/ PollStale(c) \/ PollAsk(c) \/ GraceEnds(c) \/ WatchVisit(c)
       PROVE  CallbacksAreNew'
  <2>1. CASE PollStale(c)
    BY <1>14, <2>1 DEF PollStale
  <2>2. CASE GoogleRuns(c) \/ PollAsk(c) \/ GraceEnds(c) \/ WatchVisit(c)
    BY <1>1, <2>2 DEF GoogleRuns, PollAsk, GraceEnds, WatchVisit, tables, google
  <2> QED
    BY <1>17, <2>1, <2>2
<1> QED
  BY <1>4, <1>5, <1>6, <1>7, <1>8, <1>9, <1>10, <1>11, <1>12, <1>13, <1>15, <1>16, <1>17
  DEF Next, Backend

\* The row goes only after the device: a removal that has been to Google has left nothing that the
\* backend can reach, and no callback brings the device's enterprise back.
LEMMA DeviceStep ==
    TypeOK /\ CallbacksAreNew /\ DeviceIsKnown /\ NeverUnmanaged /\ [Next]_vars
        => DeviceIsKnown' /\ NeverUnmanaged'
<1> SUFFICES ASSUME TypeOK, CallbacksAreNew, DeviceIsKnown, NeverUnmanaged, [Next]_vars
             PROVE  DeviceIsKnown' /\ NeverUnmanaged'
  OBVIOUS
<1> DEFINE Busy(k) == call[k].at \in {"listed", "removing", "removed"}
           Same == <<local, known, config.ent, ghome, gdev>>' = <<local, known, config.ent, ghome, gdev>>
           SameCalls == \A k \in Calls : Busy(k)' => Busy(k) /\ call'[k].at = call[k].at
<1>1. ASSUME Same, SameCalls PROVE DeviceIsKnown' /\ NeverUnmanaged'
  BY <1>1 DEF DeviceIsKnown, NeverUnmanaged
<1>2. ASSUME NEW k \in Calls, NEW r \in Request, r.at \notin {"listed", "removing", "removed"}, Step(k, r)
      PROVE  SameCalls
  BY <1>2, StepChanges DEF TypeOK
<1>3. ASSUME NEW k \in Calls, Ends(k) PROVE SameCalls
  BY <1>2, <1>3, Requests DEF Ends
<1>4. ASSUME NEW k \in Calls, CallbackAsk(k) PROVE DeviceIsKnown' /\ NeverUnmanaged'
  <2>1. config.signup \in Ents
    BY <1>4, AmapiBounds DEF CallbackAsk, TypeOK, Ents
  <2>2. SameCalls
    BY <1>2, <1>4, <2>1, Requests DEF CallbackAsk
  <2> QED
    BY <1>1, <1>4, <2>2 DEF CallbackAsk, tables
<1>5. ASSUME NEW k \in Calls, CallbackCommit(k) PROVE DeviceIsKnown' /\ NeverUnmanaged'
  <2>1. config'.ent # ghome /\ <<local, known, ghome, gdev>>' = <<local, known, ghome, gdev>>
    BY <1>5 DEF CallbackCommit, CallbacksAreNew, google, TypeOK
  <2>2. SameCalls
    BY <1>3, <1>5 DEF CallbackCommit
  <2> QED
    BY <2>1, <2>2 DEF DeviceIsKnown, NeverUnmanaged
<1>6. ASSUME NEW e \in Ents, GoogleEnrolls(e) PROVE DeviceIsKnown' /\ NeverUnmanaged'
  <2>1. e # 0
    BY AmapiBounds DEF Ents
  <2> QED
    BY <1>6, <2>1 DEF GoogleEnrolls, DeviceIsKnown, NeverUnmanaged, tables
<1>7. ASSUME NEW k \in Calls, SyncList(k) PROVE DeviceIsKnown' /\ NeverUnmanaged'
  <2>1. gdev = "on" /\ call'[k].at = "listed" /\ \A j \in Calls \ {k} : call'[j] = call[j]
    BY <1>7, Requests, StepChanges DEF SyncList, Reached, TypeOK
  <2> QED
    BY <1>7, <2>1 DEF SyncList, DeviceIsKnown, NeverUnmanaged, tables, google
<1>8. ASSUME NEW k \in Calls, SyncCommit(k) PROVE DeviceIsKnown' /\ NeverUnmanaged'
  <2>1. SameCalls
    BY <1>3, <1>8 DEF SyncCommit
  <2> QED
    BY <1>8, <2>1 DEF SyncCommit, DeviceIsKnown, NeverUnmanaged, google
<1>9. ASSUME NEW k \in Calls, RemoveBegin(k) PROVE DeviceIsKnown' /\ NeverUnmanaged'
  <2>1. local /\ call'[k].at = "removing" /\ \A j \in Calls \ {k} : call'[j] = call[j]
    BY <1>9, Requests, StepChanges DEF RemoveBegin, TypeOK
  <2> QED
    BY <1>9, <2>1 DEF RemoveBegin, DeviceIsKnown, NeverUnmanaged, tables, google
<1>10. ASSUME NEW k \in Calls, RemoveGoogle(k) PROVE DeviceIsKnown' /\ NeverUnmanaged'
  <2>1. <<local, known, config, ghome>>' = <<local, known, config, ghome>> /\ known
    BY <1>10 DEF RemoveGoogle, DeviceIsKnown, tables
  <2>2. gdev' \in {gdev, "gone"} /\ (gdev' = "gone" => gdev \in {"on", "gone"})
    BY <1>10 DEF RemoveGoogle, Reached
  <2>3. \A j \in Calls \ {k} : call'[j] = call[j]
    BY <1>10, Requests, StepChanges DEF RemoveGoogle, Ends, TypeOK
  <2>4. /\ call'[k].at \in {"idle", "removed"}
        /\ call'[k].at = "removed" => gdev' = IF Reached THEN "gone" ELSE gdev
    BY <1>10, Requests, StepChanges DEF RemoveGoogle, Ends, TypeOK
  <2> QED
    BY <2>1, <2>2, <2>3, <2>4 DEF DeviceIsKnown, NeverUnmanaged, Reached
<1>11. ASSUME NEW k \in Calls, RemoveCommit(k) PROVE DeviceIsKnown' /\ NeverUnmanaged'
  <2>1. SameCalls
    BY <1>3, <1>11 DEF RemoveCommit
  <2> QED
    BY <1>11, <2>1 DEF RemoveCommit, DeviceIsKnown, NeverUnmanaged, google
<1>12. ASSUME NEW k \in Calls, SendAsk(k) PROVE DeviceIsKnown' /\ NeverUnmanaged'
  <2>1. call[k].cmd \in Cmds
    BY <1>12, RequestFields DEF SendAsk, TypeOK
  <2>2. SameCalls
    BY <1>2, <1>12, <2>1, Requests DEF SendAsk
  <2> QED
    BY <1>1, <1>12, <2>2 DEF SendAsk, tables
<1>13. ASSUME NEW k \in Calls, SendCommit(k) \/ Fail(k) PROVE DeviceIsKnown' /\ NeverUnmanaged'
  <2>1. SameCalls
    BY <1>3, <1>13 DEF SendCommit, Fail
  <2> QED
    BY <1>1, <1>13, <2>1 DEF SendCommit, Fail, tables, google
<1>14. ASSUME NEW k \in Calls, NEW c \in Cmds, SendInsert(k, c) PROVE DeviceIsKnown' /\ NeverUnmanaged'
  BY <1>1, <1>2, <1>14, Requests DEF SendInsert, google
<1>15. CASE SignupUrl
  <2>1. config'.ent = config.ent
    BY <1>15 DEF SignupUrl, TypeOK
  <2> QED
    BY <1>1, <1>15, <2>1 DEF SignupUrl, google
<1>16. CASE Restart
  BY <1>1, <1>16, Requests DEF Restart
<1>17. ASSUME NEW c \in Cmds, NEW st, PollSet(c, st) PROVE DeviceIsKnown' /\ NeverUnmanaged'
  BY <1>1, <1>17 DEF PollSet, google
<1>18. CASE PollWrite
  BY <1>17, <1>18, ToldFields DEF PollWrite
<1>19. CASE EnrollmentToken \/ PollRead \/ WatchRead \/ UNCHANGED vars
  BY <1>1, <1>19 DEF EnrollmentToken, PollRead, WatchRead, vars, tables, google
<1>20. ASSUME NEW c \in Cmds,
              GoogleRuns(c) \/ PollStale(c) \/ PollAsk(c) \/ GraceEnds(c) \/ WatchVisit(c)
       PROVE  DeviceIsKnown' /\ NeverUnmanaged'
  <2>1. CASE PollStale(c)
    BY <1>17, <2>1 DEF PollStale
  <2>2. CASE GoogleRuns(c) \/ PollAsk(c) \/ GraceEnds(c) \/ WatchVisit(c)
    BY <1>1, <2>2 DEF GoogleRuns, PollAsk, GraceEnds, WatchVisit, tables, google
  <2> QED
    BY <1>20, <2>1, <2>2
<1> QED
  BY <1>4, <1>5, <1>6, <1>7, <1>8, <1>9, <1>10, <1>11, <1>12, <1>13, <1>14, <1>15, <1>16, <1>18,
     <1>19, <1>20
  DEF Next, Backend

-----------------------------------------------------------------------------
(* The theorems.                                                           *)

\* In every reachable state the rows are those of a device that is there, every command has been
\* issued at most once, and all that rests on (repo.remove, enqueue_command, remove_device,
\* signup_callback, _poll_single_command).
THEOREM BridgeInvariant == Spec => []IInv
<1>1. IInv /\ [Next]_vars => IInv'
  BY TypeStep, ReferentialStep, AskedOnceStep, TruthfulStep, CallbacksStep, DeviceStep DEF IInv
<1> QED
  BY InitIInv, <1>1, PTL DEF Spec

\* A command is DISPATCHED only if Google took it and EXECUTED only if Google has done it, however
\* old the copies and answers the poller and the watchdog hold (_route_command_to_amapi,
\* _poll_single_command).
THEOREM StatusIsTruthful == Spec => []Truthful
<1>1. IInv => Truthful
  BY DEF IInv
<1> QED
  BY BridgeInvariant, <1>1, PTL

\* A device that Google still manages in the enterprise the backend knows keeps its row: the removal
\* goes to Google first, and no callback brings an enterprise back (remove_device, signup_callback).
THEOREM ManagedKeepsRow == Spec => []NeverUnmanaged
<1>1. IInv => NeverUnmanaged
  BY DEF IInv
<1> QED
  BY BridgeInvariant, <1>1, PTL

=============================================================================
