-------------------------- MODULE ComplianceProofs --------------------------
(***************************************************************************)
(* The policy_states row keeps its meaning for any number of categories,   *)
(* versions, evaluations in line and failures; and so do the policies that *)
(* the evaluations read, for any number of policies and of requests that    *)
(* change them at once.                                                    *)
(***************************************************************************)
EXTENDS Compliance, Policies, SequenceTheorems, TLAPS

USE DEF tasks, agent, past

\* A commit field by field.
LEMMA CommitRow ==
    ASSUME NEW old \in Row, NEW new \in Row, row \in Row, Commit(old, new)
    PROVE  /\ row' \in Row
           /\ row'.status = IF new.status # old.status THEN new.status ELSE row.status
           /\ row'.failed = IF new.failed # old.failed THEN new.failed ELSE row.failed
           /\ row'.count  = IF new.count # old.count THEN new.count ELSE row.count
<1>1. DOMAIN row = {"status", "reported", "synced", "failed", "count"}
  BY DEF Row
<1>2. row' = [status   |-> IF new.status # old.status THEN new.status ELSE row.status,
              reported |-> IF new.reported # old.reported THEN new.reported ELSE row.reported,
              synced   |-> IF new.synced # old.synced THEN new.synced ELSE row.synced,
              failed   |-> IF new.failed # old.failed THEN new.failed ELSE row.failed,
              count    |-> IF new.count # old.count THEN new.count ELSE row.count]
  BY <1>1 DEF Commit
<1> QED
  BY <1>2 DEF Row

\* What the phases of the three writers carry.
LEMMA Carried ==
    ASSUME TypeOK
    PROVE  /\ ev.at = "desired" => ev.want \in Want /\ ev.report \in Config /\ ev.by \in SUBSET Sockets
           /\ ev.at = "read" => /\ ev.want \in Want /\ ev.report \in Config
                                /\ ev.by \in SUBSET Sockets /\ ev.old \in Row
           /\ ev.at = "dispatch" => ev.by \in SUBSET Sockets /\ ev.todo \in SUBSET SubCommand
           /\ \A s \in Sockets : Handling(s) =>
                 /\ receiver[s].cat \in Cats /\ receiver[s].ok \in BOOLEAN
                 /\ receiver[s].old \in Row
           /\ update.at = "unlock" => update.old \in Row
<1>1. ev \in Evaluation /\ update \in PolicyUpdate /\ \A s \in Sockets : receiver[s] \in Reception
  BY DEF TypeOK
<1>2. /\ ev.at = "desired" => ev.want \in Want /\ ev.report \in Config /\ ev.by \in SUBSET Sockets
      /\ ev.at = "read" => /\ ev.want \in Want /\ ev.report \in Config
                           /\ ev.by \in SUBSET Sockets /\ ev.old \in Row
      /\ ev.at = "dispatch" => ev.by \in SUBSET Sockets /\ ev.todo \in SUBSET SubCommand
  BY <1>1 DEF Evaluation, Off
<1>3. update.at = "unlock" => update.old \in Row
  BY <1>1 DEF PolicyUpdate, Off
<1>4. ASSUME NEW s \in Sockets, Handling(s)
      PROVE  receiver[s].cat \in Cats /\ receiver[s].ok \in BOOLEAN /\ receiver[s].old \in Row
  BY <1>1, <1>4 DEF Reception, Resting, Handling
<1> QED
  BY <1>2, <1>3, <1>4

\* A step that leaves the row alone and takes no copy of it.
LEMMA RowUntouched ==
    ASSUME IInv, TypeOK', UNCHANGED <<want, row, past>>,
           \A s \in Sockets : receiver'[s] = receiver[s] \/ receiver'[s].at # "result",
           ev' = ev \/ ev'.at # "read",
           update' \in {update, Off}
    PROVE  IInv'
<1>1. \A s \in Sockets : Handling(s)' => Handling(s) /\ receiver'[s] = receiver[s]
  BY DEF Handling
<1>2. OneResult' /\ FailedListIsTrue' /\ BlockHasCause'
  BY <1>1 DEF IInv, OneResult, FailedListIsTrue, BlockHasCause
<1>3. CopyIsTrue'
  BY <1>1 DEF IInv, CopyIsTrue
<1>4. CopiesKeepCause'
  BY <1>1 DEF IInv, CopiesKeepCause
<1> QED
  BY <1>2, <1>3, <1>4 DEF IInv

LEMMA RestingType ==
    /\ AllResting \in [Sockets -> Reception] /\ NoMessages \in [Sockets -> Seq(DeviceMessage)]
    /\ \A s \in Sockets : AllResting[s].at # "result"
<1>1. << >> \in Seq(DeviceMessage)
  OBVIOUS
<1>2. Resting \in Reception /\ Resting.at # "result"
  BY DEF Reception, Resting
<1> QED
  BY <1>1, <1>2 DEF AllResting, NoMessages

LEMMA InitIInv == Init => IInv
<1> SUFFICES ASSUME Init PROVE IInv
  OBVIOUS
<1>1. NoRow \in Row /\ Nothing \in Config
  BY ComplianceBounds DEF NoRow, Nothing, Row, Config, Status
<1>2. want \in Want
  BY ComplianceBounds DEF Init, Want
<1>3. /\ ev \in Evaluation /\ receiver \in [Sockets -> Reception] /\ update \in PolicyUpdate
      /\ link \in Sockets /\ inbox \in [Sockets -> Seq(DeviceMessage)]
  BY RestingType DEF Init, Evaluation, PolicyUpdate
<1>5. row \in Row /\ device \in Config /\ line \in Seq(Awaited)
  BY <1>1 DEF Init
<1>6. /\ failing \subseteq Cats /\ sent \subseteq SubCommand /\ recent \in BOOLEAN
      /\ overlapped \in BOOLEAN
  BY DEF Init
<1>7. rate \in 0 .. RateLimit /\ events \in 0 .. MaxEvents
  BY ComplianceBounds DEF Init
<1>8. TypeOK
  BY <1>2, <1>3, <1>5, <1>6, <1>7 DEF TypeOK
<1>4. \A s \in Sockets : ~Handling(s)
  BY DEF Init, AllResting, Resting, Handling
<1>9. OneResult /\ FailedListIsTrue /\ CopyIsTrue /\ BlockHasCause /\ CopiesKeepCause
  BY <1>4 DEF Init, NoRow, Off, OneResult, FailedListIsTrue, CopyIsTrue, BlockHasCause, CopiesKeepCause
<1> QED
  BY <1>8, <1>9 DEF IInv

-----------------------------------------------------------------------------
LEMMA SpendType ==
    ASSUME TypeOK, Spend
    PROVE  events' \in 0 .. MaxEvents
BY ComplianceBounds DEF TypeOK, Spend

\* Asking for an evaluation.
LEMMA AskType ==
    ASSUME TypeOK, NEW report \in Config, NEW by \in SUBSET Sockets, Ask(report, by)
    PROVE  line' \in Seq(Awaited)
<1>1. [report |-> report, by |-> by] \in Awaited
  BY DEF Awaited
<1> QED
  BY <1>1, AppendProperties DEF Ask, TypeOK

LEMMA NothingType == Nothing \in Config
BY ComplianceBounds DEF Nothing, Config

LEMMA CallsKeep ==
    ASSUME IInv, Check \/ Watchdog
    PROVE  IInv'
<1>1. TypeOK
  BY DEF IInv
<1>2. /\ line' \in Seq(Awaited) /\ events' \in 0 .. MaxEvents
      /\ UNCHANGED <<want, row, rate, recent, ev, receiver, update, sent, device, link, inbox, past>>
  BY <1>1, AskType, NothingType, SpendType DEF Check, Watchdog, TypeOK
<1>3. TypeOK'
  BY <1>1, <1>2 DEF TypeOK
<1> QED
  BY <1>2, <1>3, RowUntouched

LEMMA ReadDesiredKeeps ==
    ASSUME IInv, ReadDesired
    PROVE  IInv'
<1>1. TypeOK
  BY DEF IInv
<1>2. line # << >> /\ line \in Seq(Awaited) /\ ev' = [at |-> "desired", want |-> want, report |-> Head(line).report,
                               by |-> Head(line).by]
      /\ line' = Tail(line)
      /\ UNCHANGED <<want, row, rate, recent, receiver, update, agent, past>>
  BY <1>1 DEF ReadDesired, TypeOK
<1>3. Head(line) \in Awaited /\ line' \in Seq(Awaited)
  BY <1>2, HeadTailProperties
<1>4. ev' \in Evaluation
  BY <1>1, <1>2, <1>3 DEF Awaited, Evaluation, TypeOK
<1>5. TypeOK'
  BY <1>1, <1>2, <1>3, <1>4 DEF TypeOK
<1> QED
  BY <1>2, <1>5, RowUntouched

LEMMA ReadRowKeeps ==
    ASSUME IInv, ReadRow
    PROVE  IInv'
<1>1. TypeOK /\ OneResult /\ FailedListIsTrue /\ CopyIsTrue /\ BlockHasCause /\ CopiesKeepCause
  BY DEF IInv
<1>2. ev' = [at |-> "read", want |-> ev.want, report |-> ev.report, by |-> ev.by,
                               old |-> row] /\ ev.at = "desired"
      /\ UNCHANGED <<want, row, rate, recent, line, receiver, update, agent, past>>
  BY DEF ReadRow
<1>3. ev' \in Evaluation
  BY <1>1, <1>2, Carried DEF Evaluation, TypeOK
<1>4. TypeOK'
  BY <1>1, <1>2, <1>3 DEF TypeOK
<1>5. OneResult' /\ FailedListIsTrue' /\ CopyIsTrue' /\ BlockHasCause' /\ CopiesKeepCause'
  BY <1>1, <1>2 DEF OneResult, FailedListIsTrue, CopyIsTrue, BlockHasCause, CopiesKeepCause, Handling
<1> QED
  BY <1>4, <1>5 DEF IInv

-----------------------------------------------------------------------------
\* The end of an evaluation.
LEMMA FinishType ==
    ASSUME TypeOK, Finish
    PROVE  /\ ev' = Off /\ ev' \in Evaluation /\ ev'.at # "read"
           /\ receiver' \in [Sockets -> Reception]
           /\ \A s \in Sockets : receiver'[s] = receiver[s] \/ receiver'[s].at # "result"
           /\ \A s \in Sockets : Handling(s)' => Handling(s) /\ receiver'[s] = receiver[s]
<1>1. ev' = Off /\ ev' \in Evaluation /\ ev'.at # "read"
  BY DEF Finish, Evaluation, Off
<1>2. receiver' = [s \in Sockets |-> IF s \in ev.by THEN Resting ELSE receiver[s]]
  BY DEF Finish, Released
<1>3. Resting \in Reception /\ Resting.at # "result"
  BY DEF Reception, Resting
<1>4. receiver \in [Sockets -> Reception]
  BY DEF TypeOK
<1>5. receiver' \in [Sockets -> Reception]
  BY <1>2, <1>3, <1>4
<1>6. \A s \in Sockets : receiver'[s] = receiver[s] \/ receiver'[s].at # "result"
  BY <1>2, <1>3
<1>7. \A s \in Sockets : Handling(s)' => Handling(s) /\ receiver'[s] = receiver[s]
  BY <1>6 DEF Handling
<1> QED
  BY <1>1, <1>5, <1>6, <1>7

LEMMA SeenType ==
    ASSUME TypeOK, ev.at = "read"
    PROVE  /\ Seen \in Row /\ Seen.failed = ev.old.failed /\ Seen.count = ev.old.count
           /\ Seen.status = IF ev.old.status = "none" THEN "unknown" ELSE ev.old.status
           /\ ev.old \in Row
<1>1. ev.old \in Row /\ ev.report \in Config
  BY Carried
<1> DEFINE old == IF ev.old.status = "none" THEN [ev.old EXCEPT !.status = "unknown"] ELSE ev.old
<1>2. /\ old \in Row /\ old.failed = ev.old.failed /\ old.count = ev.old.count
      /\ old.status = IF ev.old.status = "none" THEN "unknown" ELSE ev.old.status
  BY <1>1 DEF Row, Status
<1>3. Seen = IF ev.report = Nothing THEN old ELSE [old EXCEPT !.reported = ev.report, !.synced = 0]
  BY DEF Seen
<1> HIDE DEF old
<1>4. CASE ev.report = Nothing
  BY <1>1, <1>2, <1>3, <1>4
<1>5. CASE ev.report # Nothing
  <2>1. Seen = [old EXCEPT !.reported = ev.report, !.synced = 0] /\ 0 \in 0 .. MaxVersion
    BY <1>3, <1>5, ComplianceBounds
  <2>2. /\ Seen \in Row /\ Seen.failed = old.failed /\ Seen.count = old.count
        /\ Seen.status = old.status
    BY <1>1, <1>2, <2>1 DEF Row
  <2> QED
    BY <1>1, <1>2, <2>2
<1> QED
  BY <1>4, <1>5

LEMMA FindCompliantKeeps ==
    ASSUME IInv, FindCompliant
    PROVE  IInv'
<1>1. TypeOK /\ OneResult /\ FailedListIsTrue /\ CopyIsTrue /\ BlockHasCause /\ CopiesKeepCause
  BY DEF IInv
<1> DEFINE new == [Seen EXCEPT !.status = "compliant", !.synced = ev.want.version]
<1>2. /\ ev.at = "read" /\ Finish /\ Commit(ev.old, new)
      /\ UNCHANGED <<want, rate, recent, line, update, agent, past>>
  BY DEF FindCompliant
<1>3. Seen \in Row /\ ev.old \in Row /\ ev.want.version \in 1 .. MaxVersion
      /\ Seen.failed = ev.old.failed /\ Seen.count = ev.old.count
  BY <1>1, <1>2, SeenType, Carried DEF Want
<1>4. new \in Row /\ new.failed = ev.old.failed /\ new.count = ev.old.count
      /\ new.status = "compliant"
  <2>1. ev.want.version \in 0 .. MaxVersion
    BY <1>3, ComplianceBounds
  <2> QED
    BY <1>3, <2>1 DEF Row, Status
<1> HIDE DEF new
<1>5. /\ row' \in Row /\ row'.failed = row.failed /\ row'.count = row.count
      /\ row'.status \in {"compliant", row.status}
  BY <1>1, <1>2, <1>3, <1>4, CommitRow DEF TypeOK
<1>6. /\ ev' \in Evaluation /\ ev'.at # "read" /\ receiver' \in [Sockets -> Reception]
      /\ \A s \in Sockets : Handling(s)' => Handling(s) /\ receiver'[s] = receiver[s]
  BY <1>1, <1>2, FinishType
<1>7. TypeOK'
  BY <1>1, <1>2, <1>5, <1>6 DEF TypeOK
<1>8. OneResult' /\ FailedListIsTrue' /\ CopyIsTrue' /\ BlockHasCause'
  BY <1>1, <1>2, <1>5, <1>6 DEF OneResult, FailedListIsTrue, CopyIsTrue, BlockHasCause
<1>9. CopiesKeepCause'
  BY <1>1, <1>2, <1>5, <1>6 DEF CopiesKeepCause
<1> QED
  BY <1>7, <1>8, <1>9 DEF IInv

LEMMA FindBlockedKeeps ==
    ASSUME IInv, FindBlocked
    PROVE  IInv'
<1>1. TypeOK
  BY DEF IInv
<1>2. Finish /\ UNCHANGED <<want, row, rate, recent, line, update, agent, past>>
  BY DEF FindBlocked
<1>3. /\ ev' \in Evaluation /\ ev'.at # "read" /\ receiver' \in [Sockets -> Reception]
      /\ \A s \in Sockets : receiver'[s] = receiver[s] \/ receiver'[s].at # "result"
  BY <1>1, <1>2, FinishType
<1>4. TypeOK'
  BY <1>1, <1>2, <1>3 DEF TypeOK
<1> QED
  BY <1>2, <1>3, <1>4, RowUntouched

LEMMA EnforceKeeps ==
    ASSUME IInv, Enforce
    PROVE  IInv'
<1>1. TypeOK /\ OneResult /\ FailedListIsTrue /\ CopyIsTrue /\ BlockHasCause /\ CopiesKeepCause
  BY DEF IInv
<1> DEFINE new == [Seen EXCEPT !.status = "enforcing",
                               !.count = IF @ < LoopLimit THEN @ + 1 ELSE @]
           todo == {[cat |-> c, value |-> ev.want.config[c]] : c \in Drifted}
<1>2. /\ ev.at = "read" /\ ~Blocked /\ Commit(ev.old, new)
      /\ rate' = rate + 1 /\ recent' = TRUE
      /\ ev' = [at |-> "dispatch", by |-> ev.by, todo |-> todo]
      /\ UNCHANGED <<want, line, receiver, update, agent, past>>
  BY DEF Enforce
<1>3. /\ Seen \in Row /\ ev.old \in Row /\ ev.want \in Want /\ ev.by \in SUBSET Sockets
      /\ Seen.failed = ev.old.failed /\ Seen.count = ev.old.count
      /\ Seen.count \in 0 .. LoopLimit
  BY <1>1, <1>2, SeenType, Carried DEF Row
<1>4. /\ new \in Row /\ new.failed = ev.old.failed /\ new.status = "enforcing"
      /\ new.count = IF ev.old.count < LoopLimit THEN ev.old.count + 1 ELSE ev.old.count
  <2> DEFINE k == IF Seen.count < LoopLimit THEN Seen.count + 1 ELSE Seen.count
  <2>1. k \in 0 .. LoopLimit
    BY <1>3, ComplianceBounds
  <2>2. new = [Seen EXCEPT !.status = "enforcing", !.count = k]
    BY <1>3 DEF Row
  <2> HIDE DEF k, new
  <2>3. new \in Row /\ new.failed = Seen.failed /\ new.status = "enforcing" /\ new.count = k
    BY <1>3, <2>1, <2>2 DEF Row, Status
  <2> QED
    BY <1>3, <2>3 DEF k
<1> HIDE DEF new
<1>5. /\ row' \in Row /\ row'.failed = row.failed
      /\ row'.count = IF new.count # ev.old.count THEN new.count ELSE row.count
      /\ row'.status \in {"enforcing", row.status}
  BY <1>1, <1>2, <1>3, <1>4, CommitRow DEF TypeOK
<1>6. todo \in SUBSET SubCommand
  BY <1>3 DEF Want, SubCommand, Drifted, Drift
<1> HIDE DEF todo
<1>7. ev' \in Evaluation /\ ev'.at # "read"
  BY <1>2, <1>3, <1>6 DEF Evaluation
<1>8. rate' \in 0 .. RateLimit
  BY <1>1, <1>2, ComplianceBounds DEF Blocked, TypeOK
<1>9. TypeOK'
  BY <1>1, <1>2, <1>5, <1>7, <1>8 DEF TypeOK
<1>10. want.version = 1 => row'.count >= row.count /\ (row.count = LoopLimit => row'.count = LoopLimit)
  <2>1. want.version = 1 => ev.old.count = row.count
    BY <1>1, <1>2 DEF CopiesKeepCause
  <2>2. ev.old.count \in 0 .. LoopLimit /\ LoopLimit \in Nat
    BY <1>3, ComplianceBounds
  <2> QED
    BY <1>4, <1>5, <2>1, <2>2
<1>13. \A s \in Sockets : Handling(s)' <=> Handling(s)
  BY <1>2 DEF Handling
<1>11. OneResult' /\ FailedListIsTrue' /\ CopyIsTrue' /\ BlockHasCause'
  BY <1>1, <1>2, <1>5, <1>10, <1>13 DEF OneResult, FailedListIsTrue, CopyIsTrue, BlockHasCause
<1>12. CopiesKeepCause'
  <2>1. \A s \in Sockets : Handling(s) => receiver[s].old.count \in 0 .. LoopLimit
    BY <1>1, Carried DEF Row
  <2>2. row.count \in 0 .. LoopLimit /\ row'.count \in 0 .. LoopLimit
    BY <1>1, <1>5 DEF TypeOK, Row
  <2>3. want.version = 1 => \A s \in Sockets : Handling(s)' => receiver'[s].old.count <= row'.count
    BY <1>1, <1>2, <1>10, <1>13, <2>1, <2>2, ComplianceBounds DEF CopiesKeepCause
  <2>4. want.version = 1 => overlapped' \/ \A s \in Sockets : Handling(s)' =>
              /\ receiver'[s].old.failed = row'.failed
              /\ row'.status = "failed_loop" => receiver'[s].old.status = "failed_loop"
    BY <1>1, <1>2, <1>5, <1>13 DEF CopiesKeepCause
  <2>5. want'.version = want.version /\ update' = update /\ (want.version = 1 => update = Off)
    BY <1>1, <1>2 DEF CopiesKeepCause
  <2> QED
    BY <1>7, <2>3, <2>4, <2>5 DEF CopiesKeepCause
<1> QED
  BY <1>9, <1>11, <1>12 DEF IInv

LEMMA DispatchKeeps ==
    ASSUME IInv, (\E s \in SubCommand : DispatchOne(s)) \/ DispatchAborts
    PROVE  IInv'
<1>1. TypeOK
  BY DEF IInv
<1>2. \/ Finish
      \/ /\ ev.at = "dispatch" /\ UNCHANGED receiver
         /\ \E s \in SubCommand : ev' = [ev EXCEPT !.todo = @ \ {s}]
  BY DEF DispatchOne, DispatchAborts
<1>3. UNCHANGED <<want, row, rate, recent, line, update, device, link, inbox, past>>
  BY DEF DispatchOne, DispatchAborts
<1>4. sent' \subseteq SubCommand /\ events' \in 0 .. MaxEvents
  BY <1>1, SpendType DEF DispatchOne, DispatchAborts, TypeOK
<1>5. /\ ev' \in Evaluation /\ ev'.at # "read" /\ receiver' \in [Sockets -> Reception]
      /\ \A s \in Sockets : receiver'[s] = receiver[s] \/ receiver'[s].at # "result"
  <2>1. CASE Finish
    BY <1>1, <2>1, FinishType
  <2>2. ASSUME ev.at = "dispatch", UNCHANGED receiver,
               NEW s \in SubCommand, ev' = [ev EXCEPT !.todo = @ \ {s}]
        PROVE  ev' \in Evaluation /\ ev'.at # "read"
    <3>1. ev \in [at : {"dispatch"}, by : SUBSET Sockets, todo : SUBSET SubCommand]
      BY <1>1, <2>2 DEF TypeOK, Evaluation, Off
    <3>2. ev' \in [at : {"dispatch"}, by : SUBSET Sockets, todo : SUBSET SubCommand]
      BY <2>2, <3>1
    <3> QED
      BY <3>2 DEF Evaluation
  <2> QED
    BY <1>1, <1>2, <2>1, <2>2 DEF TypeOK
<1>6. TypeOK'
  BY <1>1, <1>3, <1>4, <1>5 DEF TypeOK
<1> QED
  BY <1>3, <1>5, <1>6, RowUntouched

-----------------------------------------------------------------------------
\* The receivers.
LEMMA MessageTaken ==
    ASSUME TypeOK, NEW s \in Sockets, NEW kind, HasNext(s, kind), Taken(s)
    PROVE  /\ Head(inbox[s]) \in DeviceMessage /\ Head(inbox[s]).kind = kind
           /\ inbox' \in [Sockets -> Seq(DeviceMessage)]
<1>1. inbox \in [Sockets -> Seq(DeviceMessage)] /\ inbox[s] \in Seq(DeviceMessage) /\ inbox[s] # << >>
  BY DEF TypeOK, HasNext
<1>2. Head(inbox[s]) \in DeviceMessage /\ Tail(inbox[s]) \in Seq(DeviceMessage)
  BY <1>1, HeadTailProperties
<1> QED
  BY <1>1, <1>2 DEF HasNext, Taken

LEMMA ReceiveReportKeeps ==
    ASSUME IInv, NEW s \in Sockets, ReceiveReport(s)
    PROVE  IInv'
<1>1. TypeOK
  BY DEF IInv
<1>2. /\ HasNext(s, "report") /\ Taken(s) /\ Ask(Head(inbox[s]).state, {s})
      /\ receiver' = [receiver EXCEPT ![s] = [at |-> "waiting"]]
      /\ UNCHANGED <<want, row, rate, recent, ev, update, sent, device, link, past, events>>
  BY DEF ReceiveReport
<1>3. /\ Head(inbox[s]) \in DeviceMessage /\ Head(inbox[s]).kind = "report"
      /\ inbox' \in [Sockets -> Seq(DeviceMessage)]
  BY <1>1, <1>2, MessageTaken
<1>4. Head(inbox[s]).state \in Config
  BY <1>3 DEF DeviceMessage
<1>5. line' \in Seq(Awaited)
  BY <1>1, <1>2, <1>4, AskType
<1>6. /\ receiver' \in [Sockets -> Reception]
      /\ \A t \in Sockets : receiver'[t] = receiver[t] \/ receiver'[t].at # "result"
  <2>1. [at |-> "waiting"] \in Reception
    BY DEF Reception
  <2> QED
    BY <1>1, <1>2, <2>1 DEF TypeOK
<1>7. TypeOK'
  BY <1>1, <1>2, <1>3, <1>5, <1>6 DEF TypeOK
<1> QED
  BY <1>2, <1>6, <1>7, RowUntouched

\* A row the session's copy of which leaves out the report.
LEMMA VerdictType ==
    ASSUME TypeOK
    PROVE  /\ Verdict \in Row /\ Verdict.status = row.status /\ Verdict.failed = row.failed
           /\ Verdict.count = row.count /\ row.count \in 0 .. LoopLimit
<1>1. row \in Row /\ Nothing \in Config /\ 0 \in 0 .. MaxVersion
  BY NothingType, ComplianceBounds DEF TypeOK
<1> QED
  BY <1>1 DEF Verdict, Row

LEMMA ReceiveResultKeeps ==
    ASSUME IInv, NEW s \in Sockets, ReceiveResult(s)
    PROVE  IInv'
<1>1. TypeOK /\ OneResult /\ FailedListIsTrue /\ CopyIsTrue /\ BlockHasCause /\ CopiesKeepCause
  BY DEF IInv
<1> DEFINE m == Head(inbox[s])
           r == [at |-> "result", cat |-> m.cat, ok |-> m.ok, old |-> Verdict]
<1>2. /\ HasNext(s, "result") /\ Taken(s)
      /\ UNCHANGED <<want, row, rate, recent, line, ev, update, sent, device, link, events, failing>>
  BY DEF ReceiveResult
<1>3. m \in DeviceMessage /\ m.kind = "result" /\ inbox' \in [Sockets -> Seq(DeviceMessage)]
  BY <1>1, <1>2, MessageTaken
<1>4. r \in Reception /\ r.at = "result" /\ r.old = Verdict
  <2>1. m.cat \in Cats /\ m.ok \in BOOLEAN
    BY <1>3 DEF DeviceMessage
  <2> QED
    BY <1>1, <2>1, VerdictType DEF Reception
<1>5. CASE row.status = "none"
  <2>1. UNCHANGED <<receiver, overlapped>>
    BY <1>5 DEF ReceiveResult
  <2>2. TypeOK'
    BY <1>1, <1>2, <1>3, <2>1 DEF TypeOK
  <2> QED
    BY <1>2, <2>1, <2>2, RowUntouched
<1>6. CASE row.status # "none"
  <2>1. /\ receiver' = [receiver EXCEPT ![s] = r]
        /\ overlapped' = (overlapped \/ \E t \in Sockets \ {s} : Handling(t))
    BY <1>6 DEF ReceiveResult
  <2> HIDE DEF r
  <2>2. receiver' \in [Sockets -> Reception] /\ overlapped' \in BOOLEAN
    BY <1>1, <1>4, <2>1 DEF TypeOK
  <2>3. TypeOK'
    BY <1>1, <1>2, <1>3, <2>2 DEF TypeOK
  <2>4. receiver'[s] = r /\ \A t \in Sockets \ {s} : receiver'[t] = receiver[t]
    BY <1>1, <2>1 DEF TypeOK
  <2>5. \A t \in Sockets : Handling(t)' => t = s \/ Handling(t)
    BY <2>4 DEF Handling
  <2>6. \A t \in Sockets : Handling(t)' /\ ~overlapped' => t = s
    BY <2>1, <2>5
  <2>7. OneResult'
    BY <2>6 DEF OneResult
  <2>8. FailedListIsTrue' /\ BlockHasCause'
    BY <1>1, <1>2, <2>1 DEF FailedListIsTrue, BlockHasCause
  <2>9. r.old.status = row.status /\ r.old.failed = row.failed /\ r.old.count = row.count
        /\ row.count <= row.count
    BY <1>1, <1>4, VerdictType
  <2>10. CopyIsTrue'
    BY <1>1, <1>2, <2>1, <2>4, <2>6, <2>9 DEF CopyIsTrue, FailedListIsTrue
  <2>11. want.version = 1 => \A t \in Sockets : Handling(t)' => receiver'[t].old.count <= row'.count
    BY <1>1, <1>2, <2>4, <2>5, <2>9 DEF CopiesKeepCause
  <2>12. CopiesKeepCause'
    BY <1>1, <1>2, <2>4, <2>6, <2>9, <2>11 DEF CopiesKeepCause
  <2> QED
    BY <2>3, <2>7, <2>8, <2>10, <2>12 DEF IInv
<1> QED
  BY <1>5, <1>6

\* What a result makes of the row it was read from.
LEMMA ResultRow ==
    ASSUME NEW old \in Row, NEW c \in Cats
    PROVE  /\ Failure(old, c) \in Row /\ Failure(old, c).failed = old.failed \cup {c}
           /\ Failure(old, c).count = old.count
           /\ Failure(old, c).status = IF old.count >= LoopLimit THEN "failed_loop"
                                       ELSE "enforcing_partial"
           /\ Success(old, c) \in Row /\ Success(old, c).failed = old.failed \ {c}
           /\ Success(old, c).count = old.count
           /\ Success(old, c).status = IF old.failed \ {c} = {} THEN "compliant" ELSE old.status
<1> DEFINE st == IF old.count >= LoopLimit THEN "failed_loop" ELSE "enforcing_partial"
           ok == IF old.failed \ {c} = {} THEN "compliant" ELSE old.status
<1>1. Failure(old, c) = [old EXCEPT !.failed = old.failed \cup {c}, !.status = st]
  BY DEF Failure, Row
<1>2. Success(old, c) = [old EXCEPT !.failed = old.failed \ {c}, !.status = ok]
  BY DEF Success, Row
<1>3. st \in Status /\ ok \in Status \cup {"none"} /\ old.failed \cup {c} \in SUBSET Cats
      /\ old.failed \ {c} \in SUBSET Cats
  BY DEF Status, Row
<1> HIDE DEF st, ok
<1>4. /\ Failure(old, c) \in Row /\ Failure(old, c).failed = old.failed \cup {c}
      /\ Failure(old, c).count = old.count /\ Failure(old, c).status = st
  BY <1>1, <1>3 DEF Row
<1>5. /\ Success(old, c) \in Row /\ Success(old, c).failed = old.failed \ {c}
      /\ Success(old, c).count = old.count /\ Success(old, c).status = ok
  BY <1>2, <1>3 DEF Row
<1> QED
  BY <1>4, <1>5 DEF st, ok

LEMMA CommitResultKeeps ==
    ASSUME IInv, NEW s \in Sockets, CommitResult(s)
    PROVE  IInv'
<1>1. TypeOK /\ OneResult /\ FailedListIsTrue /\ CopyIsTrue /\ BlockHasCause /\ CopiesKeepCause
  BY DEF IInv
<1> DEFINE c == receiver[s].cat
           old == receiver[s].old
           new == IF receiver[s].ok THEN Success(old, c) ELSE Failure(old, c)
<1>2. /\ Handling(s) /\ Commit(old, new) /\ receiver' = [receiver EXCEPT ![s] = Resting]
      /\ failing' = IF receiver[s].ok THEN failing \ {c} ELSE failing \cup {c}
      /\ UNCHANGED <<want, rate, recent, line, ev, update, agent, overlapped>>
  BY DEF CommitResult
<1>3. c \in Cats /\ old \in Row /\ receiver[s].ok \in BOOLEAN
  BY <1>1, <1>2, Carried
<1>4. /\ new \in Row /\ new.count = old.count
      /\ receiver[s].ok => /\ new.failed = old.failed \ {c}
                        /\ new.status = IF old.failed \ {c} = {} THEN "compliant" ELSE old.status
      /\ ~receiver[s].ok => /\ new.failed = old.failed \cup {c}
                         /\ new.status = IF old.count >= LoopLimit THEN "failed_loop"
                                         ELSE "enforcing_partial"
  BY <1>3, ResultRow
<1> HIDE DEF c, old, new
<1>5. /\ row' \in Row /\ row'.count = row.count
      /\ row'.status = IF new.status # old.status THEN new.status ELSE row.status
      /\ row'.failed = IF new.failed # old.failed THEN new.failed ELSE row.failed
  BY <1>1, <1>2, <1>3, <1>4, CommitRow DEF TypeOK
<1>6. failing' \subseteq Cats
  BY <1>1, <1>2, <1>3 DEF TypeOK
<1>7. /\ receiver' \in [Sockets -> Reception]
      /\ \A t \in Sockets : Handling(t)' => t # s /\ Handling(t) /\ receiver'[t] = receiver[t]
  <2>1. Resting \in Reception /\ Resting.at # "result"
    BY DEF Reception, Resting
  <2> QED
    BY <1>1, <1>2, <2>1 DEF TypeOK, Handling
<1>14. ~overlapped' => ~overlapped /\ \A t \in Sockets : ~Handling(t)'
  BY <1>1, <1>2, <1>7 DEF OneResult
<1>8. TypeOK'
  BY <1>1, <1>2, <1>5, <1>6, <1>7 DEF TypeOK
<1>9. ASSUME ~overlapped PROVE row'.failed \subseteq failing'
  <2>1. row.failed \subseteq old.failed /\ old.failed \subseteq failing
    BY <1>1, <1>2, <1>9 DEF CopyIsTrue, old
  <2> QED
    BY <1>2, <1>4, <1>5, <2>1
<1>10. OneResult' /\ FailedListIsTrue' /\ CopyIsTrue'
  BY <1>9, <1>14 DEF OneResult, FailedListIsTrue, CopyIsTrue
<1>11. want.version = 1 =>
          /\ old.count <= row.count
          /\ ~overlapped => /\ old.failed = row.failed
                            /\ row.status = "failed_loop" => old.status = "failed_loop"
          /\ row.status = "failed_loop" => row.count = LoopLimit /\ (overlapped \/ row.failed # {})
  BY <1>1, <1>2 DEF CopiesKeepCause, BlockHasCause, old
<1>12. BlockHasCause'
  <2> SUFFICES ASSUME row'.status = "failed_loop", want.version = 1
               PROVE  row.count = LoopLimit /\ (~overlapped => row'.failed # {})
    BY <1>2, <1>5 DEF BlockHasCause
  <2>1. row.count \in 0 .. LoopLimit /\ old.count \in 0 .. LoopLimit /\ LoopLimit \in Nat
    BY <1>1, <1>3, ComplianceBounds DEF TypeOK, Row
  <2>2. row.status = "failed_loop" \/ (new.status = "failed_loop" /\ new.status # old.status)
    BY <1>5
  <2>3. new.status = "failed_loop" /\ new.status # old.status => ~receiver[s].ok /\ old.count >= LoopLimit
    BY <1>3, <1>4
  <2>4. row.count = LoopLimit
    BY <1>11, <2>1, <2>2, <2>3
  <2>5. ASSUME ~overlapped PROVE row'.failed # {}
    <3>1. CASE ~receiver[s].ok
      BY <1>4, <1>5, <1>11, <2>5, <3>1
    <3>2. CASE receiver[s].ok
      <4>1. row.status = "failed_loop" /\ old.status = "failed_loop"
        BY <1>11, <2>2, <2>3, <2>5, <3>2
      <4>2. new.status = old.status
        BY <1>4, <1>5, <3>2, <4>1
      <4>3. old.failed \ {c} # {}
        BY <1>4, <3>2, <4>1, <4>2
      <4> QED
        BY <1>4, <1>5, <1>11, <2>5, <3>2, <4>3
    <3> QED
      BY <3>1, <3>2
  <2> QED
    BY <2>4, <2>5
<1>13. CopiesKeepCause'
  BY <1>1, <1>2, <1>5, <1>7, <1>14 DEF CopiesKeepCause
<1> QED
  BY <1>8, <1>10, <1>12, <1>13 DEF IInv

-----------------------------------------------------------------------------
\* The policy's update and its trigger.
LEMMA UpdatePolicyKeeps ==
    ASSUME IInv, NEW C \in Updates, UpdatePolicy(C)
    PROVE  IInv'
<1>1. TypeOK /\ OneResult /\ FailedListIsTrue /\ CopyIsTrue /\ BlockHasCause /\ CopiesKeepCause
  BY DEF IInv
<1>2. /\ want.version < MaxVersion /\ update' = [at |-> "trigger"]
      /\ want' = [version |-> want.version + 1,
                  config  |-> [c \in Cats |-> IF c \in C THEN want.version + 1
                                              ELSE want.config[c]]]
      /\ Spend
      /\ UNCHANGED <<row, rate, recent, line, ev, receiver, sent, device, link, inbox, past>>
  BY DEF UpdatePolicy
<1>3. want.version \in 1 .. MaxVersion /\ want.config \in [Cats -> 1 .. MaxVersion]
  BY <1>1 DEF TypeOK, Want
<1>4. want.version + 1 \in 1 .. MaxVersion /\ want.version + 1 # 1
  BY <1>2, <1>3, ComplianceBounds
<1>5. want' \in Want /\ want'.version # 1
  BY <1>2, <1>3, <1>4 DEF Want
<1>6. update' \in PolicyUpdate
  BY <1>2 DEF PolicyUpdate
<1>7. TypeOK'
  BY <1>1, <1>2, <1>5, <1>6, SpendType DEF TypeOK
<1>8. OneResult' /\ FailedListIsTrue' /\ CopyIsTrue' /\ BlockHasCause' /\ CopiesKeepCause'
  BY <1>1, <1>2, <1>5 DEF OneResult, FailedListIsTrue, CopyIsTrue, BlockHasCause, CopiesKeepCause, Handling
<1> QED
  BY <1>7, <1>8 DEF IInv

LEMMA TriggerReadKeeps ==
    ASSUME IInv, TriggerRead
    PROVE  IInv'
<1>1. TypeOK /\ OneResult /\ FailedListIsTrue /\ CopyIsTrue /\ BlockHasCause /\ CopiesKeepCause
  BY DEF IInv
<1>2. /\ update.at = "trigger" /\ update' = [at |-> "unlock", old |-> Verdict]
      /\ UNCHANGED <<want, row, rate, recent, line, ev, receiver, agent, past>>
  BY DEF TriggerRead
<1>3. update' \in PolicyUpdate
  BY <1>1, <1>2, VerdictType DEF PolicyUpdate
<1>4. TypeOK'
  BY <1>1, <1>2, <1>3 DEF TypeOK
<1>5. want.version # 1
  BY <1>1, <1>2 DEF CopiesKeepCause, Off
<1>6. OneResult' /\ FailedListIsTrue' /\ CopyIsTrue' /\ BlockHasCause' /\ CopiesKeepCause'
  BY <1>1, <1>2, <1>5 DEF OneResult, FailedListIsTrue, CopyIsTrue, BlockHasCause, CopiesKeepCause, Handling
<1> QED
  BY <1>4, <1>6 DEF IInv

LEMMA TriggerUnlockKeeps ==
    ASSUME IInv, TriggerUnlock
    PROVE  IInv'
<1>1. TypeOK /\ OneResult /\ FailedListIsTrue /\ CopyIsTrue /\ BlockHasCause /\ CopiesKeepCause
  BY DEF IInv
<1> DEFINE old == update.old
           new == IF old.status = "failed_loop" THEN Unlocked(old) ELSE old
<1>2. /\ update.at = "unlock" /\ Commit(old, new) /\ Ask(Nothing, {}) /\ update' = Off
      /\ UNCHANGED <<want, rate, recent, ev, receiver, agent, past>>
  BY DEF TriggerUnlock
<1>3. old \in Row
  BY <1>1, <1>2, Carried
<1>4. new \in Row /\ new.failed \in {old.failed, {}}
  <2>1. 0 \in 0 .. LoopLimit /\ {} \in SUBSET Cats /\ "non_compliant" \in Status
    BY ComplianceBounds DEF Status
  <2> QED
    BY <1>3, <2>1 DEF Unlocked, Row
<1> HIDE DEF old, new
<1>5. row' \in Row /\ row'.failed \in {row.failed, {}}
  BY <1>1, <1>2, <1>3, <1>4, CommitRow DEF TypeOK
<1>6. line' \in Seq(Awaited)
  BY <1>1, <1>2, AskType, NothingType
<1>7. update' \in PolicyUpdate
  BY <1>2 DEF PolicyUpdate
<1>8. TypeOK'
  BY <1>1, <1>2, <1>5, <1>6, <1>7 DEF TypeOK
<1>9. want.version # 1
  BY <1>1, <1>2 DEF CopiesKeepCause, Off
<1>10. OneResult' /\ FailedListIsTrue' /\ CopyIsTrue' /\ BlockHasCause' /\ CopiesKeepCause'
  BY <1>1, <1>2, <1>5, <1>9 DEF OneResult, FailedListIsTrue, CopyIsTrue, BlockHasCause, CopiesKeepCause, Handling
<1> QED
  BY <1>8, <1>10 DEF IInv

-----------------------------------------------------------------------------
\* The device, the hour and the process leave the row alone.
LEMMA MessageType ==
    ASSUME TypeOK, NEW msg \in DeviceMessage, Message(msg)
    PROVE  inbox' \in [Sockets -> Seq(DeviceMessage)]
<1>1. /\ inbox \in [Sockets -> Seq(DeviceMessage)] /\ link \in Sockets
      /\ inbox' = [inbox EXCEPT ![link] = Append(inbox[link], msg)]
  BY DEF Message, TypeOK
<1>2. Append(inbox[link], msg) \in Seq(DeviceMessage)
  BY <1>1, AppendProperties
<1> QED
  BY <1>1, <1>2

LEMMA AgentKeeps ==
    ASSUME IInv, \E s \in sent : Apply(s) \/ FailToApply(s) \/ GiveUp(s)
    PROVE  IInv'
<1>1. TypeOK
  BY DEF IInv
<1>2. PICK s \in sent : Apply(s) \/ FailToApply(s) \/ GiveUp(s)
  OBVIOUS
<1>3. s \in SubCommand
  BY <1>1 DEF TypeOK
<1>4. s.cat \in Cats /\ s.value \in 0 .. MaxVersion
  BY <1>3, ComplianceBounds DEF SubCommand
<1>5. /\ sent' = sent \ {s} /\ events' \in 0 .. MaxEvents
      /\ UNCHANGED <<want, row, rate, recent, line, ev, receiver, update, link, past>>
  BY <1>1, <1>2, SpendType DEF Apply, FailToApply, GiveUp, TypeOK
<1>6. device' \in Config
  BY <1>1, <1>2, <1>4 DEF Apply, FailToApply, GiveUp, TypeOK, Config
<1>7. \A ok \in BOOLEAN : [kind |-> "result", cat |-> s.cat, ok |-> ok] \in DeviceMessage
  BY <1>4 DEF DeviceMessage
<1>8. inbox' \in [Sockets -> Seq(DeviceMessage)]
  BY <1>1, <1>2, <1>7, MessageType DEF Apply, FailToApply, GiveUp, TypeOK
<1>9. TypeOK'
  BY <1>1, <1>5, <1>6, <1>8 DEF TypeOK
<1> QED
  BY <1>5, <1>9, RowUntouched

LEMMA ReportKeeps ==
    ASSUME IInv, Report
    PROVE  IInv'
<1>1. TypeOK
  BY DEF IInv
<1>2. /\ Message([kind |-> "report", state |-> device])
      /\ UNCHANGED <<want, row, rate, recent, line, ev, receiver, update, sent, device,
                     link, events, past>>
  BY DEF Report
<1>3. [kind |-> "report", state |-> device] \in DeviceMessage
  BY <1>1 DEF TypeOK, DeviceMessage
<1>4. TypeOK'
  BY <1>1, <1>2, <1>3, MessageType DEF TypeOK
<1> QED
  BY <1>2, <1>4, RowUntouched

LEMMA ExpireKeeps ==
    ASSUME IInv, Expire
    PROVE  IInv'
<1>1. TypeOK
  BY DEF IInv
<1>2. /\ rate' = IF rate > 0 THEN rate - 1 ELSE 0
      /\ recent' = (recent /\ rate > 1)
      /\ UNCHANGED <<want, row, line, ev, receiver, update, agent, past>>
  BY DEF Expire
<1>3. rate' \in 0 .. RateLimit
  BY <1>1, <1>2, ComplianceBounds DEF TypeOK
<1>4. recent' \in BOOLEAN
  BY <1>2
<1>5. TypeOK'
  BY <1>1, <1>2, <1>3, <1>4 DEF TypeOK
<1> QED
  BY <1>2, <1>5, RowUntouched

LEMMA RestartKeeps ==
    ASSUME IInv, Restart
    PROVE  IInv'
<1>1. TypeOK
  BY DEF IInv
<1>2. /\ Spend
      /\ rate' = 0 /\ line' = << >> /\ ev' = Off /\ receiver' = AllResting /\ update' = Off
      /\ inbox' = NoMessages
      /\ UNCHANGED <<want, row, recent, sent, device, link, past>>
  BY DEF Restart
<1>3. ev' \in Evaluation /\ ev'.at # "read" /\ update' \in PolicyUpdate
  BY <1>2 DEF Evaluation, PolicyUpdate, Off
<1>7. /\ receiver' \in [Sockets -> Reception] /\ inbox' \in [Sockets -> Seq(DeviceMessage)]
      /\ \A s \in Sockets : receiver'[s].at # "result"
  BY <1>2, RestingType
<1>4. rate' \in 0 .. RateLimit /\ events' \in 0 .. MaxEvents
  BY <1>1, <1>2, SpendType, ComplianceBounds
<1>5. line' \in Seq(Awaited)
  BY <1>2
<1>6. TypeOK'
  BY <1>1, <1>2, <1>3, <1>4, <1>5, <1>7 DEF TypeOK
<1> QED
  BY <1>2, <1>3, <1>6, <1>7, RowUntouched

LEMMA ReconnectKeeps ==
    ASSUME IInv, NEW s \in Sockets, Reconnect(s)
    PROVE  IInv'
<1>1. TypeOK
  BY DEF IInv
<1>2. /\ link' = s /\ Spend
      /\ UNCHANGED <<want, row, rate, recent, line, ev, receiver, update, sent, device, inbox,
                     past>>
  BY DEF Reconnect
<1>3. TypeOK'
  BY <1>1, <1>2, SpendType DEF TypeOK
<1> QED
  BY <1>2, <1>3, RowUntouched

LEMMA HangUpKeeps ==
    ASSUME IInv, NEW s \in Sockets, HangUp(s)
    PROVE  IInv'
<1>1. TypeOK
  BY DEF IInv
<1>2. /\ Spend
      /\ receiver' = [receiver EXCEPT ![s] = Resting] /\ inbox' = [inbox EXCEPT ![s] = << >>]
      /\ ev' = ev \/ ev' = Off
      /\ UNCHANGED <<want, row, rate, recent, update, sent, device, link, past>>
  BY DEF HangUp
<1>3. events' \in 0 .. MaxEvents
  BY <1>1, <1>2, SpendType
<1>4. ev' \in Evaluation /\ (ev' = ev \/ ev'.at # "read")
  BY <1>1, <1>2 DEF TypeOK, Evaluation, Off
<1>5. /\ receiver' \in [Sockets -> Reception]
      /\ \A t \in Sockets : receiver'[t] = receiver[t] \/ receiver'[t].at # "result"
  <2>1. Resting \in Reception /\ Resting.at # "result"
    BY DEF Reception, Resting
  <2> QED
    BY <1>1, <1>2, <2>1 DEF TypeOK
<1>6. inbox' \in [Sockets -> Seq(DeviceMessage)]
  <2>1. << >> \in Seq(DeviceMessage)
    OBVIOUS
  <2> QED
    BY <1>1, <1>2, <2>1 DEF TypeOK
<1>7. line' \in Seq(Awaited)
  <2>1. line \in Seq(Awaited) /\ Len(line) \in Nat
    BY <1>1 DEF TypeOK
  <2>2. CASE line' = line
    BY <2>1, <2>2
  <2>3. ASSUME NEW i \in 1 .. Len(line),
               line' = [j \in 1 .. Len(line) - 1 |-> line[IF j < i THEN j ELSE j + 1]]
        PROVE  line' \in Seq(Awaited)
    <3>1. Len(line) - 1 \in Nat
      BY <2>1
    <3>2. \A j \in 1 .. Len(line) - 1 : line[IF j < i THEN j ELSE j + 1] \in Awaited
      <4>1. \A j \in 1 .. Len(line) - 1 : (IF j < i THEN j ELSE j + 1) \in 1 .. Len(line)
        BY <2>1
      <4> QED
        BY <2>1, <4>1
    <3>3. line' \in [1 .. Len(line) - 1 -> Awaited]
      BY <2>3, <3>2
    <3> QED
      BY <3>1, <3>3, SeqDef
  <2> QED
    BY <2>2, <2>3 DEF HangUp
<1>8. TypeOK'
  BY <1>1, <1>2, <1>3, <1>4, <1>5, <1>6, <1>7 DEF TypeOK
<1> QED
  BY <1>2, <1>4, <1>5, <1>8, RowUntouched

-----------------------------------------------------------------------------
LEMMA StepIInv == IInv /\ [Next]_vars => IInv'
<1> SUFFICES ASSUME IInv, [Next]_vars PROVE IInv'
  OBVIOUS
<1>1. CASE Check \/ Watchdog
  BY <1>1, CallsKeep
<1>2. CASE Evaluate
  BY <1>2, ReadDesiredKeeps, ReadRowKeeps, FindCompliantKeeps, FindBlockedKeeps,
     EnforceKeeps, DispatchKeeps DEF Evaluate
<1>3. CASE \E s \in Sockets : Receive(s) \/ Reconnect(s) \/ HangUp(s)
  BY <1>3, ReceiveReportKeeps, ReceiveResultKeeps, CommitResultKeeps, ReconnectKeeps,
     HangUpKeeps DEF Receive
<1>4. CASE Trigger
  BY <1>4, TriggerReadKeeps, TriggerUnlockKeeps DEF Trigger
<1>5. CASE \E C \in Updates : UpdatePolicy(C)
  BY <1>5, UpdatePolicyKeeps
<1>6. CASE \E s \in sent : Apply(s) \/ FailToApply(s) \/ GiveUp(s)
  BY <1>6, AgentKeeps
<1>7. CASE Report \/ Expire \/ Restart
  BY <1>7, ReportKeeps, ExpireKeeps, RestartKeeps
<1>8. CASE UNCHANGED vars
  <2>1. UNCHANGED <<want, row, rate, recent, line, ev, receiver, update, sent, device,
                    link, inbox, events, past>>
    BY <1>8 DEF vars
  <2>2. TypeOK'
    BY <2>1 DEF IInv, TypeOK
  <2> QED
    BY <2>1, <2>2, RowUntouched
<1> QED
  BY <1>1, <1>2, <1>3, <1>4, <1>5, <1>6, <1>7, <1>8 DEF Next

\* The row, and what each of its three writers holds of it, for every number of
\* categories, connections, updates, calls in line and failures.
THEOREM ComplianceInvariant == Spec => []IInv
<1> QED
  BY InitIInv, StepIInv, PTL DEF Spec

\* handle_subcommand_result and _trigger_re_enforcement: as long as no two connections
\* had a result in handling at once, and whatever else interleaves, a category stands
\* in failed_subcommands only while its last result was a failure.
THEOREM FailedListStaysTrue == Spec => []FailedListIsTrue
<1>1. IInv => FailedListIsTrue
  BY DEF IInv
<1> QED
  BY <1>1, ComplianceInvariant, PTL

\* Until the policy is updated, a block stands for LoopLimit enforcements; and for a
\* failed category, if no two connections had a result in handling at once.
THEOREM BlocksHaveACause == Spec => []BlockHasCause
<1>1. IInv => BlockHasCause
  BY DEF IInv
<1> QED
  BY <1>1, ComplianceInvariant, PTL

-----------------------------------------------------------------------------
(***************************************************************************)
(* The policies an evaluation reads.                                       *)
(***************************************************************************)
\* What a row is called in the history, and what an evaluation finds.
LEMMA NamedType ==
    ASSUME NEW p \in Ids, NEW r \in PolicyRow
    PROVE  Named(p, r) \in Naming /\ Named(p, r)[1] = p /\ Named(p, r)[2] = r.version
           /\ Named(p, r)[3] = r.body
BY DEF Named, Naming, PolicyRow

LEMMA ActiveType ==
    ASSUME PolicyTypeOK, NEW ps \in SUBSET Ids
    PROVE  Active(ps) \in SUBSET Naming
<1>1. \A p \in Ids : policies[p] \in PolicyRow
  BY DEF PolicyTypeOK
<1> QED
  BY <1>1, NamedType DEF Active

\* The records a request goes through.
LEMMA CallTypes ==
    ASSUME PolicyTypeOK
    PROVE  /\ NoPolicy \in PolicyRow /\ FirstVersion \in PolicyRow /\ Idle \in PolicyCall
           /\ [Idle EXCEPT !.at = "ended"] \in PolicyCall
           /\ \A c \in Calls : call[c] \in PolicyCall
<1>1. NoPolicy \in PolicyRow /\ FirstVersion \in PolicyRow
  BY DEF NoPolicy, FirstVersion, PolicyRow
<1>2. Idle \in PolicyCall /\ [Idle EXCEPT !.at = "ended"] \in PolicyCall
  BY <1>1 DEF Idle, PolicyCall, Phases
<1> QED
  BY <1>1, <1>2 DEF PolicyTypeOK

LEMMA EndType ==
    ASSUME PolicyTypeOK, NEW c \in Calls, End(c)
    PROVE  /\ call' \in [Calls -> PolicyCall]
           /\ call'[c].at = "ended" /\ call'[c].met = 0
           /\ \A d \in Calls : d # c => call'[d] = call[d]
<1>1. call' = [call EXCEPT ![c] = [Idle EXCEPT !.at = "ended"]] /\ call \in [Calls -> PolicyCall]
  BY DEF End, PolicyTypeOK
<1>2. [Idle EXCEPT !.at = "ended"].at = "ended" /\ [Idle EXCEPT !.at = "ended"].met = 0
  BY DEF Idle
<1> QED
  BY <1>1, <1>2, CallTypes

LEMMA GoType ==
    ASSUME PolicyTypeOK, NEW c \in Calls, NEW at \in Phases, Go(c, at)
    PROVE  /\ call' \in [Calls -> PolicyCall]
           /\ call'[c].at = at /\ call'[c].met = call[c].met /\ call'[c].pol = call[c].pol
           /\ \A d \in Calls : d # c => call'[d] = call[d]
<1>1. call' = [call EXCEPT ![c].at = at] /\ call \in [Calls -> PolicyCall]
  BY DEF Go, PolicyTypeOK
<1> QED
  BY <1>1 DEF PolicyCall

\* A step after which every row has the version and the content it had, no row is
\* there that was not, and every request has ended a phase, or has loaded a row.
LEMMA VersionsUntouched ==
    ASSUME PolicyInv, PolicyTypeOK',
           \A p \in Ids : /\ policies'[p].version = policies[p].version
                          /\ policies'[p].body = policies[p].body
                          /\ policies'[p].is => policies[p].is,
           \A p \in Linked \cup direct' : policies'[p].is,
           history'.named = history.named, history'.crowd = history.crowd,
           \A c \in Calls :
              \/ call'[c] = call[c]
              \/ call'[c].at \notin {"loaded", "bumped", "unused"}
                 /\ call'[c].met \in {0, call[c].met}
              \/ /\ call'[c].at # "bumped" /\ call'[c].met = 0 /\ call'[c].pol \in Ids
                 /\ call'[c].at = "loaded" => policies[call'[c].pol].is
                 /\ call'[c].old = policies[call'[c].pol]
                 /\ call'[c].at = "unused" => call'[c].pol \notin Linked
    PROVE  PolicyInv'
<1>1. InUseExists'
  BY DEF PolicyInv, InUseExists
<1>2. RowsHaveVersions'
  BY DEF PolicyInv, RowsHaveVersions
<1>3. VersionNamesContent'
  BY DEF PolicyInv, VersionNamesContent
<1>4. HighestIsCurrent'
  <2>1. \A f \in history.named : f[1] \in Ids
    BY DEF PolicyInv, PolicyTypeOK, Naming
  <2> QED
    BY <2>1 DEF PolicyInv, HighestIsCurrent
<1>5. CopiesAreCounted'
  <2> SUFFICES ASSUME ~history.crowd, NEW c \in Calls
               PROVE  /\ call'[c].met <= 1
                      /\ call'[c].at = "loaded" =>
                            /\ call'[c].old.version >= 1
                            /\ policies'[call'[c].pol].version = call'[c].old.version + call'[c].met
                      /\ call'[c].at = "bumped" =>
                            /\ call'[c].old.version >= 1
                            /\ policies'[call'[c].pol].version
                                 = call'[c].old.version + 1 + call'[c].met
                            /\ call'[c].old.version + 1 <= call'[c].got
                            /\ call'[c].got <= policies'[call'[c].pol].version
    BY DEF CopiesAreCounted
  <2>1. CASE call'[c] = call[c]
    <3>1. call[c].at \in {"loaded", "bumped"} => call[c].pol \in Ids
      BY DEF PolicyInv, PolicyTypeOK
    <3> QED
      BY <2>1, <3>1 DEF PolicyInv, CopiesAreCounted
  <2>2. CASE call'[c].at \notin {"loaded", "bumped", "unused"}
             /\ call'[c].met \in {0, call[c].met}
    BY <2>2 DEF PolicyInv, CopiesAreCounted
  <2>3. CASE /\ call'[c].at # "bumped" /\ call'[c].met = 0 /\ call'[c].pol \in Ids
             /\ call'[c].at = "loaded" => policies[call'[c].pol].is
             /\ call'[c].old = policies[call'[c].pol]
    <3>1. policies[call'[c].pol].version \in Nat
      BY <2>3 DEF PolicyInv, PolicyTypeOK, PolicyRow
    <3>2. call'[c].at = "loaded" => call'[c].old.version >= 1
      BY <2>3 DEF PolicyInv, RowsHaveVersions
    <3> QED
      BY <2>3, <3>1, <3>2
  <2> QED
    BY <2>1, <2>2, <2>3
<1> QED
  BY <1>1, <1>2, <1>3, <1>4, <1>5 DEF PolicyInv

LEMMA PolicyInitInv == PolicyInit => PolicyInv
<1> SUFFICES ASSUME PolicyInit PROVE PolicyInv
  OBVIOUS
<1>1. NoPolicy \in PolicyRow /\ FirstVersion \in PolicyRow
  BY DEF NoPolicy, FirstVersion, PolicyRow
<1>2. Idle \in PolicyCall
  BY <1>1 DEF Idle, PolicyCall, Phases
<1>3. policies \in [Ids -> PolicyRow] /\ direct \in SUBSET Ids /\ asked \in Nat
  BY <1>1 DEF PolicyInit
<1>4. call \in [Calls -> PolicyCall] /\ \A c \in Calls : call[c] = Idle
  BY <1>2 DEF PolicyInit
<1>5. Now \in SUBSET Naming
  <2>1. Linked \cup direct \in SUBSET Ids
    BY <1>3, PoliciesBounds
  <2>2. \A p \in Ids : policies[p] \in PolicyRow
    BY <1>3
  <2> QED
    BY <2>1, <2>2, NamedType DEF Now, Active
<1>6. PolicyTypeOK
  BY <1>3, <1>4, <1>5 DEF PolicyInit, PolicyTypeOK, Idle, NotReading
<1>7. \A f \in Now : f[1] \in Linked /\ f[2] = 1 /\ f[3] = 0 /\ policies[f[1]] = FirstVersion
  <2>1. \A p \in Linked : p \in Ids /\ policies[p] = FirstVersion
    BY PoliciesBounds DEF PolicyInit
  <2>2. direct = {}
    BY DEF PolicyInit
  <2> QED
    BY <2>1, <2>2 DEF Now, Active, Named, FirstVersion
<1>8. InUseExists
  BY <1>4, PoliciesBounds DEF PolicyInit, InUseExists, FirstVersion, Idle
<1>9. RowsHaveVersions
  BY DEF PolicyInit, RowsHaveVersions, FirstVersion, NoPolicy
<1>10. history.named = Now
  BY DEF PolicyInit
<1>11. VersionNamesContent /\ HighestIsCurrent
  BY <1>7, <1>10 DEF VersionNamesContent, HighestIsCurrent, FirstVersion
<1>12. CopiesAreCounted
  BY <1>4 DEF CopiesAreCounted, Idle
<1> QED
  BY <1>6, <1>8, <1>9, <1>11, <1>12 DEF PolicyInv

-----------------------------------------------------------------------------
(***************************************************************************)
(* The requests.                                                           *)
(***************************************************************************)
LEMMA LoadKeeps ==
    ASSUME PolicyInv, NEW c \in Calls, NEW p \in Ids,
           NEW at \in {"loaded", "unused", "free", "assigned"}, Load(c, p, at),
           at = "loaded" => policies[p].is, at = "unused" => p \notin Linked
    PROVE  PolicyInv'
<1>1. PolicyTypeOK /\ call[c] = Idle
      /\ call' = [call EXCEPT ![c] = [Idle EXCEPT !.at = at, !.pol = p, !.old = policies[p]]]
      /\ UNCHANGED <<policies, direct, asked, reading, seen, history>>
  BY DEF PolicyInv, Load
<1>2. policies[p] \in PolicyRow
  BY <1>1 DEF PolicyTypeOK
<1> DEFINE new == [Idle EXCEPT !.at = at, !.pol = p, !.old = policies[p]]
<1>3. /\ new \in PolicyCall /\ new.at = at /\ new.pol = p /\ new.old = policies[p]
      /\ new.met = 0
  BY <1>1, <1>2, CallTypes DEF Idle, PolicyCall, Phases
<1> HIDE DEF new
<1>4. call' = [call EXCEPT ![c] = new] /\ call \in [Calls -> PolicyCall]
  BY <1>1 DEF new, PolicyTypeOK
<1>5. call' \in [Calls -> PolicyCall] /\ call'[c] = new
      /\ \A d \in Calls : d # c => call'[d] = call[d]
  BY <1>3, <1>4
<1>6. PolicyTypeOK'
  BY <1>1, <1>3, <1>5 DEF PolicyTypeOK
<1>7. \A d \in Linked \cup direct : policies[d].is
  BY DEF PolicyInv, InUseExists
<1>8. \A d \in Calls :
         \/ call'[d] = call[d]
         \/ /\ call'[d].at # "bumped" /\ call'[d].met = 0 /\ call'[d].pol \in Ids
            /\ call'[d].at = "loaded" => policies[call'[d].pol].is
            /\ call'[d].old = policies[call'[d].pol]
            /\ call'[d].at = "unused" => call'[d].pol \notin Linked
  BY <1>3, <1>5
<1> QED
  BY <1>1, <1>6, <1>7, <1>8, VersionsUntouched

LEMMA LoadsKeep ==
    ASSUME PolicyInv, NEW c \in Calls, NEW p \in Ids,
           LoadForUpdate(c, p) \/ LoadForDelete(c, p)
             \/ LoadForAssign(c, p) \/ LoadForUnassign(c, p)
    PROVE  PolicyInv'
BY LoadKeeps DEF LoadForUpdate, LoadForDelete, LoadForAssign, LoadForUnassign

\* A request that ends, whatever it leaves assigned and whoever it asks.
LEMMA EndKeeps ==
    ASSUME PolicyInv, NEW c \in Calls, End(c), asked' \in Nat,
           policies' = policies, direct' = direct, reading' = reading, seen' = seen,
           history' \in [named : SUBSET Naming, missed : BOOLEAN, crowd : BOOLEAN],
           history'.named = history.named, history'.crowd = history.crowd
    PROVE  PolicyInv'
<1>1. PolicyTypeOK
  BY DEF PolicyInv
<1>2. call' \in [Calls -> PolicyCall] /\ call'[c].at = "ended" /\ call'[c].met = 0
      /\ \A d \in Calls : d # c => call'[d] = call[d]
  BY <1>1, EndType
<1>3. PolicyTypeOK'
  BY <1>1, <1>2 DEF PolicyTypeOK
<1>4. \A p \in Linked \cup direct : policies[p].is
  BY DEF PolicyInv, InUseExists
<1> QED
  BY <1>2, <1>3, <1>4, VersionsUntouched

\* The steps of a request that change neither a row nor what is assigned.
LEMMA QuietStepsKeep ==
    ASSUME PolicyInv, NEW c \in Calls, TriggerReEnforcement(c) \/ AskEvaluation(c) \/ Fail(c)
    PROVE  PolicyInv'
<1>1. PolicyTypeOK
  BY DEF PolicyInv
<1>2. asked \in Nat /\ history \in [named : SUBSET Naming, missed : BOOLEAN, crowd : BOOLEAN]
  BY <1>1 DEF PolicyTypeOK
<1>3. CASE TriggerReEnforcement(c)
  <2>1. asked' \in Nat
    BY <1>2, <1>3 DEF TriggerReEnforcement
  <2> QED
    BY <1>2, <1>3, <2>1, EndKeeps DEF TriggerReEnforcement
<1>4. CASE AskEvaluation(c)
  BY <1>2, <1>4, EndKeeps DEF AskEvaluation
<1>5. CASE Fail(c)
  <2>1. history' = [history EXCEPT !.missed = @ \/ call[c].at \in {"bumped", "trigger", "evaluate"}]
        /\ End(c) /\ UNCHANGED <<policies, direct, asked, reading, seen>>
    BY <1>5 DEF Fail
  <2>2. (history.missed \/ call[c].at \in {"bumped", "trigger", "evaluate"}) \in BOOLEAN
    BY <1>2
  <2>3. /\ history' \in [named : SUBSET Naming, missed : BOOLEAN, crowd : BOOLEAN]
        /\ history'.named = history.named /\ history'.crowd = history.crowd
    BY <1>2, <2>1, <2>2
  <2> QED
    BY <1>2, <2>1, <2>3, EndKeeps
<1> QED
  BY <1>3, <1>4, <1>5

\* assign_policy_to_device and unassign_policy_from_device: what is assigned is
\* there when the insert is made.
LEMMA AssignKeeps ==
    ASSUME PolicyInv, NEW c \in Calls, Assign(c) \/ Unassign(c)
    PROVE  PolicyInv'
<1>1. PolicyTypeOK /\ InUseExists
  BY DEF PolicyInv
<1>2. /\ call[c].at \in {"free", "assigned"} /\ call[c].pol \in Ids
      /\ UNCHANGED <<policies, asked, reading, seen, history>>
  BY <1>1 DEF Assign, Unassign, PolicyTypeOK
<1>3. CASE Go(c, "evaluate")
  <2>1. /\ direct' \in SUBSET Ids
        /\ \A p \in direct' : p \in direct \/ policies[p].is
    <3>1. CASE Assign(c)
      <4>1. \/ direct' = direct \cup {call[c].pol} /\ policies[call[c].pol].is
            \/ direct' = direct
        BY <3>1 DEF Assign
      <4> QED
        BY <1>1, <1>2, <4>1 DEF PolicyTypeOK
    <3>2. CASE Unassign(c)
      BY <1>1, <3>2 DEF Unassign, PolicyTypeOK
    <3> QED
      BY <3>1, <3>2
  <2>2. "evaluate" \in Phases
    BY DEF Phases
  <2>3. /\ call' \in [Calls -> PolicyCall]
        /\ call'[c].at = "evaluate" /\ call'[c].met = call[c].met /\ call'[c].pol = call[c].pol
        /\ \A d \in Calls : d # c => call'[d] = call[d]
    BY <1>1, <1>3, <2>2, GoType
  <2>4. PolicyTypeOK'
    BY <1>1, <1>2, <2>1, <2>3 DEF PolicyTypeOK
  <2>5. \A p \in Linked \cup direct' : policies'[p].is
    BY <1>1, <1>2, <2>1 DEF InUseExists
  <2> QED
    BY <1>2, <2>3, <2>4, <2>5, VersionsUntouched
<1>4. CASE End(c) /\ direct' = direct
  BY <1>1, <1>2, <1>4, EndKeeps DEF PolicyTypeOK
<1> QED
  BY <1>3, <1>4 DEF Assign, Unassign

\* delete_policy: the policy was not linked when it was looked for, links stay, and
\* one assigned since is not deleted.
LEMMA DeleteKeeps ==
    ASSUME PolicyInv, NEW c \in Calls, Delete(c)
    PROVE  PolicyInv'
<1>1. PolicyTypeOK /\ InUseExists
  BY DEF PolicyInv
<1> DEFINE p == call[c].pol
<1>2. /\ p \in Ids /\ p \notin Linked /\ End(c)
      /\ policies' = IF p \in direct THEN policies ELSE [policies EXCEPT ![p].is = FALSE]
      /\ UNCHANGED <<direct, asked, reading, seen, history>>
  BY <1>1 DEF Delete, PolicyTypeOK, InUseExists
<1> HIDE DEF p
<1>3. /\ policies' \in [Ids -> PolicyRow]
      /\ \A q \in Ids : /\ policies'[q].version = policies[q].version
                        /\ policies'[q].body = policies[q].body
                        /\ policies'[q].is => policies[q].is
                        /\ q # p => policies'[q] = policies[q]
      /\ p \in direct => policies' = policies
  <2>1. policies \in [Ids -> PolicyRow]
    BY <1>1 DEF PolicyTypeOK
  <2>2. CASE p \in direct
    BY <1>2, <2>1, <2>2
  <2>3. CASE p \notin direct
    <3>1. policies' = [policies EXCEPT ![p] = [policies[p] EXCEPT !.is = FALSE]]
      BY <1>2, <2>3
    <3>2. [policies[p] EXCEPT !.is = FALSE] \in PolicyRow /\ ~[policies[p] EXCEPT !.is = FALSE].is
          /\ [policies[p] EXCEPT !.is = FALSE].version = policies[p].version
          /\ [policies[p] EXCEPT !.is = FALSE].body = policies[p].body
      BY <1>2, <2>1 DEF PolicyRow
    <3> QED
      BY <1>2, <2>1, <2>3, <3>1, <3>2
  <2> QED
    BY <2>2, <2>3
<1>4. call' \in [Calls -> PolicyCall] /\ call'[c].at = "ended" /\ call'[c].met = 0
      /\ \A d \in Calls : d # c => call'[d] = call[d]
  BY <1>1, <1>2, EndType
<1>5. PolicyTypeOK'
  BY <1>1, <1>2, <1>3, <1>4 DEF PolicyTypeOK
<1>6. \A q \in Linked \cup direct' : policies'[q].is
  <2>1. \A q \in Linked \cup direct : q \in Ids
    BY <1>1, PoliciesBounds DEF PolicyTypeOK
  <2> QED
    BY <1>1, <1>2, <1>3, <2>1 DEF InUseExists
<1> QED
  BY <1>2, <1>3, <1>4, <1>5, <1>6, VersionsUntouched

\* create_policy: no version was ever given of a row that is not there, and no
\* update has loaded it.
LEMMA CreateKeeps ==
    ASSUME PolicyInv, NEW p \in Ids, Create(p)
    PROVE  PolicyInv'
<1>1. PolicyTypeOK /\ InUseExists
  BY DEF PolicyInv
<1>2. /\ policies[p] = NoPolicy /\ policies' = [policies EXCEPT ![p] = FirstVersion]
      /\ history' = [history EXCEPT !.named = @ \cup {Named(p, policies'[p])}]
      /\ UNCHANGED <<direct, call, asked, reading, seen>>
  BY DEF Create
<1>3. policies' \in [Ids -> PolicyRow] /\ policies'[p] = FirstVersion
      /\ \A q \in Ids : q # p => policies'[q] = policies[q]
  BY <1>1, <1>2, CallTypes DEF PolicyTypeOK
<1>4. FirstVersion.is /\ FirstVersion.version = 1 /\ FirstVersion.body = 0
      /\ ~NoPolicy.is /\ NoPolicy.version = 0
  BY DEF FirstVersion, NoPolicy
<1> DEFINE n == Named(p, FirstVersion)
<1>5. n \in Naming /\ n[1] = p /\ n[2] = 1 /\ n[3] = 0
  BY <1>1, <1>4, NamedType, CallTypes
<1> HIDE DEF n
<1>6. /\ history' \in [named : SUBSET Naming, missed : BOOLEAN, crowd : BOOLEAN]
      /\ history'.named = history.named \cup {n} /\ history'.crowd = history.crowd
  BY <1>1, <1>2, <1>3, <1>5 DEF PolicyTypeOK, n
<1>7. PolicyTypeOK'
  BY <1>1, <1>2, <1>3, <1>6 DEF PolicyTypeOK
<1>8. InUseExists'
  BY <1>1, <1>2, <1>3, <1>4, PoliciesBounds DEF PolicyTypeOK, InUseExists
<1>9. RowsHaveVersions'
  BY <1>3, <1>4, <1>6 DEF PolicyInv, RowsHaveVersions
<1>10. ~history.crowd => \A f \in history.named : f[1] \in Ids /\ f[2] \in Nat /\ f[1] # p
  <2>1. \A f \in history.named : f[1] \in Ids /\ f[2] \in Nat
    BY <1>1 DEF PolicyTypeOK, Naming
  <2> QED
    BY <1>2, <1>4, <2>1 DEF PolicyInv, HighestIsCurrent
<1>11. VersionNamesContent'
  BY <1>5, <1>6, <1>10 DEF PolicyInv, VersionNamesContent
<1>12. HighestIsCurrent'
  BY <1>3, <1>4, <1>5, <1>6, <1>10 DEF PolicyInv, HighestIsCurrent
<1>13. CopiesAreCounted'
  <2>1. \A c \in Calls : call[c].met \in Nat /\ call[c].old.version \in Nat
    BY <1>1, CallTypes DEF PolicyCall, PolicyRow
  <2>2. \A c \in Calls :
           ~history.crowd /\ call[c].at \in {"loaded", "bumped"} => call[c].pol \in Ids \ {p}
    BY <1>1, <1>2, <1>4, <2>1 DEF PolicyInv, CopiesAreCounted, PolicyTypeOK
  <2> QED
    BY <1>2, <1>3, <1>6, <2>2 DEF PolicyInv, CopiesAreCounted
<1> QED
  BY <1>7, <1>8, <1>9, <1>11, <1>12, <1>13 DEF PolicyInv

\* What an update's increment does, when the row is still there.
BumpEffect(c, p, v) ==
    /\ call[c].at = "loaded" /\ p \in Ids /\ policies[p].is /\ v \in Nat
    /\ UNCHANGED <<direct, asked, reading, seen>>
    /\ policies' \in [Ids -> PolicyRow] /\ policies'[p].is
    /\ policies'[p].version = v /\ policies'[p].body = c
    /\ \A q \in Ids : q # p => policies'[q] = policies[q]
    /\ call' \in [Calls -> PolicyCall]
    /\ call'[c] = [call[c] EXCEPT !.at = "bumped", !.got = v]
    /\ \A d \in Calls : d # c => call'[d] =
          IF call[d].pol = p /\ call[d].at \in {"loaded", "bumped"}
          THEN [call[d] EXCEPT !.met = @ + 1] ELSE call[d]
    /\ history' \in [named : SUBSET Naming, missed : BOOLEAN, crowd : BOOLEAN]
    /\ history'.named = history.named \cup {<<p, v, c>>}
    /\ ~history'.crowd => ~history.crowd /\ \A d \in Calls : ~(call'[d].met > 1)

LEMMA BumpChanges ==
    ASSUME PolicyInv, NEW c \in Calls, NEW on \in BOOLEAN, Bump(c, on), ~End(c)
    PROVE  BumpEffect(c, call[c].pol, policies[call[c].pol].version + 1)
<1> DEFINE p == call[c].pol
<1> DEFINE v == policies[p].version + 1
<1> DEFINE new == [is |-> TRUE, version |-> v, body |-> c,
                   on |-> IF on = call[c].old.on THEN policies[p].on ELSE on]
<1>1. PolicyTypeOK /\ call[c].at = "loaded" /\ UNCHANGED <<direct, asked, reading, seen>>
  BY DEF PolicyInv, Bump
<1>2. p \in Ids /\ policies[p].is
  BY <1>1 DEF Bump, PolicyTypeOK
<1>3. policies[p] \in PolicyRow /\ call[c] \in PolicyCall
  BY <1>1, <1>2 DEF PolicyTypeOK
<1>4. v \in Nat
  BY <1>3 DEF PolicyRow
<1>5. /\ policies' = [policies EXCEPT ![p] =
                    [is |-> TRUE, version |-> v, body |-> c,
                     on |-> IF on = call[c].old.on THEN @.on ELSE on]]
      /\ call' = [d \in Calls |->
                    IF d = c THEN [call[c] EXCEPT !.at = "bumped", !.got = v]
                    ELSE IF d \in Updating(p) THEN [call[d] EXCEPT !.met = @ + 1] ELSE call[d]]
      /\ history' = [history EXCEPT !.named = @ \cup {Named(p, policies'[p])},
                                    !.crowd = @ \/ \E d \in Calls : call'[d].met > 1]
  BY <1>1, <1>2 DEF Bump, Bumped
<1>6. (IF on = call[c].old.on THEN policies[p].on ELSE on) \in BOOLEAN
  BY <1>3 DEF PolicyRow
<1> HIDE DEF p, v
<1>7. new \in PolicyRow /\ new.is /\ new.version = v /\ new.body = c
  BY <1>4, <1>6 DEF PolicyRow
<1>8. policies' = [policies EXCEPT ![p] = new]
  BY <1>5
<1> HIDE DEF new
<1>9. /\ policies' \in [Ids -> PolicyRow] /\ policies'[p] = new
      /\ \A q \in Ids : q # p => policies'[q] = policies[q]
  BY <1>1, <1>2, <1>7, <1>8 DEF PolicyTypeOK
<1>10. /\ call'[c] = [call[c] EXCEPT !.at = "bumped", !.got = v]
       /\ \A d \in Calls : d # c => call'[d] =
             IF call[d].pol = p /\ call[d].at \in {"loaded", "bumped"}
             THEN [call[d] EXCEPT !.met = @ + 1] ELSE call[d]
  BY <1>5 DEF Updating
<1>11. call' \in [Calls -> PolicyCall]
  <2>1. [call[c] EXCEPT !.at = "bumped", !.got = v] \in PolicyCall
    BY <1>3, <1>4 DEF PolicyCall, Phases
  <2>2. \A d \in Calls : [call[d] EXCEPT !.met = @ + 1] \in PolicyCall
    BY <1>1, CallTypes DEF PolicyCall
  <2>3. \A d \in Calls : call'[d] \in PolicyCall
    BY <1>1, <1>10, <2>1, <2>2, CallTypes
  <2> QED
    BY <1>5, <2>3
<1>12. Named(p, policies'[p]) = <<p, v, c>> /\ Named(p, policies'[p]) \in Naming
  BY <1>2, <1>7, <1>9, NamedType DEF Named
<1>13. (history.crowd \/ \E d \in Calls : call'[d].met > 1) \in BOOLEAN
       /\ history \in [named : SUBSET Naming, missed : BOOLEAN, crowd : BOOLEAN]
  BY <1>1 DEF PolicyTypeOK
<1>14. /\ history' \in [named : SUBSET Naming, missed : BOOLEAN, crowd : BOOLEAN]
       /\ history'.named = history.named \cup {<<p, v, c>>}
       /\ history'.crowd = (history.crowd \/ \E d \in Calls : call'[d].met > 1)
  BY <1>5, <1>12, <1>13
<1> QED
  BY <1>1, <1>2, <1>4, <1>7, <1>9, <1>10, <1>11, <1>14 DEF BumpEffect, p, v

\* increment_policy_version: the version is new, and every update under way that
\* loaded the row is behind by one more.
LEMMA BumpKeeps ==
    ASSUME PolicyInv, NEW c \in Calls, NEW on \in BOOLEAN, Bump(c, on)
    PROVE  PolicyInv'
<1>1. PolicyTypeOK /\ InUseExists
  BY DEF PolicyInv
<1>2. CASE End(c)
  <2>1. call[c].at = "loaded" /\ UNCHANGED <<direct, asked, reading, seen>>
    BY DEF Bump
  <2>2. call'[c].at = "ended"
    BY <1>1, <1>2, EndType
  <2>3. policies' = policies /\ history' = history
    <3>1. CASE policies[call[c].pol].is
      <4>1. call'[c] = [call[c] EXCEPT !.at = "bumped", !.got = Bumped(c)]
        BY <3>1 DEF Bump
      <4>2. call'[c].at = "bumped"
        BY <1>1, <4>1, CallTypes DEF PolicyCall
      <4> QED
        BY <2>2, <4>2
    <3> QED
      BY <3>1 DEF Bump
  <2> QED
    BY <1>1, <1>2, <2>1, <2>3, EndKeeps DEF PolicyTypeOK
<1>3. CASE ~End(c)
  <2> DEFINE p == call[c].pol
  <2> DEFINE v == policies[p].version + 1
  <2>0. BumpEffect(c, p, v)
    BY <1>3, BumpChanges
  <2>1. /\ call[c].at = "loaded" /\ p \in Ids /\ policies[p].is /\ v \in Nat
        /\ UNCHANGED <<direct, asked, reading, seen>>
        /\ policies' \in [Ids -> PolicyRow] /\ policies'[p].is
        /\ policies'[p].version = v /\ policies'[p].body = c
        /\ \A q \in Ids : q # p => policies'[q] = policies[q]
    BY <2>0 DEF BumpEffect
  <2>2. /\ call' \in [Calls -> PolicyCall]
        /\ call'[c] = [call[c] EXCEPT !.at = "bumped", !.got = v]
        /\ \A d \in Calls : d # c => call'[d] =
              IF call[d].pol = p /\ call[d].at \in {"loaded", "bumped"}
              THEN [call[d] EXCEPT !.met = @ + 1] ELSE call[d]
    BY <2>0 DEF BumpEffect
  <2>3. /\ history' \in [named : SUBSET Naming, missed : BOOLEAN, crowd : BOOLEAN]
        /\ history'.named = history.named \cup {<<p, v, c>>}
        /\ ~history'.crowd => ~history.crowd /\ \A d \in Calls : ~(call'[d].met > 1)
    BY <2>0 DEF BumpEffect
  <2>4. policies[p].version \in Nat /\ v = policies[p].version + 1
    BY <1>1, <2>1 DEF PolicyTypeOK, PolicyRow
  <2> HIDE DEF p, v
  <2>5. /\ call'[c].at = "bumped" /\ call'[c].got = v /\ call'[c].pol = call[c].pol
        /\ call'[c].old = call[c].old /\ call'[c].met = call[c].met
    BY <1>1, <2>2, CallTypes DEF PolicyCall
  <2>6. \A d \in Calls : d # c =>
           /\ call'[d].at = call[d].at /\ call'[d].pol = call[d].pol
           /\ call'[d].old = call[d].old /\ call'[d].got = call[d].got
           /\ call'[d].met = IF call[d].pol = p /\ call[d].at \in {"loaded", "bumped"}
                             THEN call[d].met + 1 ELSE call[d].met
    BY <1>1, <2>2, CallTypes DEF PolicyCall
  <2>7. PolicyTypeOK'
    <3>1. \A d \in Calls : call'[d].at \notin {"idle", "ended"} => call'[d].pol \in Ids
      BY <1>1, <2>1, <2>5, <2>6 DEF PolicyTypeOK, p
    <3> QED
      BY <1>1, <2>1, <2>2, <2>3, <3>1 DEF PolicyTypeOK
  <2>8. InUseExists'
    <3>1. \A q \in Linked \cup direct : q \in Ids
      BY <1>1, PoliciesBounds DEF PolicyTypeOK
    <3> QED
      BY <1>1, <2>1, <2>5, <2>6, <3>1 DEF InUseExists
  <2>9. RowsHaveVersions'
    BY <2>1, <2>3, <2>4 DEF PolicyInv, RowsHaveVersions
  <2>10. \A f \in history.named : f[1] \in Ids /\ f[2] \in Nat
    BY <1>1 DEF PolicyTypeOK, Naming
  <2>11. ~history.crowd => \A f \in history.named : f[1] = p => f[2] # v
    BY <2>4, <2>10 DEF PolicyInv, HighestIsCurrent
  <2>12. VersionNamesContent'
    BY <2>3, <2>11 DEF PolicyInv, VersionNamesContent
  <2>13. HighestIsCurrent'
    <3>1. ~history'.crowd => \A f \in history.named :
             f[2] >= 1 /\ f[2] <= policies'[f[1]].version
             /\ (f[2] = policies'[f[1]].version => f[3] = policies'[f[1]].body)
      BY <2>1, <2>3, <2>4, <2>10, <2>11 DEF PolicyInv, HighestIsCurrent
    <3>2. ~history'.crowd => v >= 1
      BY <2>4
    <3>3. v <= policies'[p].version /\ (v = policies'[p].version => c = policies'[p].body)
      BY <2>1
    <3> QED
      BY <2>3, <3>1, <3>2, <3>3 DEF HighestIsCurrent
  <2>14. CopiesAreCounted'
    <3> SUFFICES ASSUME ~history'.crowd, NEW d \in Calls
                 PROVE  /\ call'[d].met <= 1
                        /\ call'[d].at = "loaded" =>
                              /\ call'[d].old.version >= 1
                              /\ policies'[call'[d].pol].version = call'[d].old.version + call'[d].met
                        /\ call'[d].at = "bumped" =>
                              /\ call'[d].old.version >= 1
                              /\ policies'[call'[d].pol].version
                                   = call'[d].old.version + 1 + call'[d].met
                              /\ call'[d].old.version + 1 <= call'[d].got
                              /\ call'[d].got <= policies'[call'[d].pol].version
      BY DEF CopiesAreCounted
    <3>1. ~history.crowd /\ call'[d].met <= 1
      BY <2>2, <2>3 DEF PolicyCall
    <3>2. call[d].met \in Nat /\ call[d].old.version \in Nat /\ call[d].got \in Nat
      BY <1>1, CallTypes DEF PolicyCall, PolicyRow
    <3>3. CASE d = c
      <4>1. call[c].old.version >= 1 /\ policies[p].version = call[c].old.version + call[c].met
        BY <2>1, <3>1 DEF PolicyInv, CopiesAreCounted, p
      <4> QED
        BY <2>1, <2>4, <2>5, <3>1, <3>2, <3>3, <4>1 DEF p
    <3>4. CASE d # c /\ call[d].pol = p /\ call[d].at \in {"loaded", "bumped"}
      BY <2>1, <2>4, <2>6, <3>1, <3>2, <3>4 DEF PolicyInv, CopiesAreCounted
    <3>5. CASE d # c /\ ~(call[d].pol = p /\ call[d].at \in {"loaded", "bumped"})
      <4>1. call[d].at \in {"loaded", "bumped"} => call[d].pol \in Ids \ {p}
        BY <1>1, <3>5 DEF PolicyTypeOK
      <4> QED
        BY <2>1, <2>6, <3>1, <3>5, <4>1 DEF PolicyInv, CopiesAreCounted
    <3> QED
      BY <3>3, <3>4, <3>5
  <2> QED
    BY <2>7, <2>8, <2>9, <2>12, <2>13, <2>14 DEF PolicyInv
<1> QED
  BY <1>2, <1>3

\* update_policy: what the session writes when the version is not the one it
\* expects is, after one update met at most, the version that is there.
LEMMA WriteKeeps ==
    ASSUME PolicyInv, NEW c \in Calls, Write(c)
    PROVE  PolicyInv' /\ (history'.crowd \/ policies' = policies)
<1>1. PolicyTypeOK /\ InUseExists
  BY DEF PolicyInv
<1> DEFINE p == call[c].pol
<1>2. /\ call[c].at = "bumped" /\ p \in Ids
      /\ UNCHANGED <<direct, asked, reading, seen>>
  BY <1>1 DEF Write, PolicyTypeOK
<1>3. CASE ~policies[p].is
  <2>1. End(c) /\ UNCHANGED <<policies, history>>
    BY <1>3 DEF Write
  <2> QED
    BY <1>1, <1>2, <2>1, EndKeeps DEF PolicyTypeOK
<1>4. CASE policies[p].is
  <2>1. /\ policies' = IF call[c].got = call[c].old.version + 1 THEN policies
                       ELSE [policies EXCEPT ![p].version = call[c].got]
        /\ history' = [history EXCEPT !.named = @ \cup {Named(p, policies'[p])}]
        /\ Go(c, "trigger")
    BY <1>4 DEF Write
  <2> HIDE DEF p
  <2>2. policies \in [Ids -> PolicyRow] /\ call[c].got \in Nat
    BY <1>1, CallTypes DEF PolicyTypeOK, PolicyCall
  <2>3. policies' \in [Ids -> PolicyRow] /\ \A q \in Ids : policies'[q].is = policies[q].is
    BY <1>2, <2>1, <2>2 DEF PolicyRow
  <2>4. Named(p, policies'[p]) \in Naming /\ Named(p, policies'[p])[1] = p
        /\ Named(p, policies'[p])[2] = policies'[p].version
        /\ Named(p, policies'[p])[3] = policies'[p].body
    BY <1>2, <2>3, NamedType
  <2> DEFINE n == Named(p, policies'[p])
  <2>5. /\ history' \in [named : SUBSET Naming, missed : BOOLEAN, crowd : BOOLEAN]
        /\ history'.named = history.named \cup {n} /\ history'.crowd = history.crowd
    BY <1>1, <2>1, <2>4 DEF PolicyTypeOK
  <2> HIDE DEF n
  <2>6. "trigger" \in Phases
    BY DEF Phases
  <2>7. /\ call' \in [Calls -> PolicyCall]
        /\ call'[c].at = "trigger" /\ call'[c].met = call[c].met /\ call'[c].pol = call[c].pol
        /\ \A d \in Calls : d # c => call'[d] = call[d]
    BY <1>1, <2>1, <2>6, GoType
  <2>8. PolicyTypeOK'
    BY <1>1, <1>2, <2>3, <2>5, <2>7 DEF PolicyTypeOK, p
  <2>9. InUseExists'
    <3>1. \A q \in Linked \cup direct : q \in Ids
      BY <1>1, PoliciesBounds DEF PolicyTypeOK
    <3> QED
      BY <1>1, <1>2, <2>3, <2>7, <3>1 DEF InUseExists
  <2>10. ~history.crowd => policies' = policies
    <3> SUFFICES ASSUME ~history.crowd, call[c].got # call[c].old.version + 1
                 PROVE  policies' = policies
      BY <2>1
    <3>1. /\ call[c].met <= 1 /\ policies[p].version = call[c].old.version + 1 + call[c].met
          /\ call[c].old.version + 1 <= call[c].got /\ call[c].got <= policies[p].version
      BY <1>2 DEF PolicyInv, CopiesAreCounted, p
    <3>2. call[c].met \in Nat /\ call[c].old.version \in Nat
      BY <1>1, CallTypes DEF PolicyCall, PolicyRow
    <3>3. call[c].got = policies[p].version
      BY <2>2, <3>1, <3>2
    <3>4. policies' = [policies EXCEPT ![p].version = policies[p].version]
      BY <2>1, <3>3
    <3>5. [policies[p] EXCEPT !.version = policies[p].version] = policies[p]
      BY <1>2, <2>2 DEF PolicyRow
    <3> QED
      BY <1>2, <2>2, <3>4, <3>5
  <2>11. RowsHaveVersions'
    BY <2>5, <2>10 DEF PolicyInv, RowsHaveVersions
  <2>12. n[1] = p /\ n[2] = policies'[p].version /\ n[3] = policies'[p].body
    BY <2>4 DEF n
  <2>13. ~history.crowd => n[2] >= 1
    BY <1>2, <1>4, <2>10, <2>12 DEF PolicyInv, RowsHaveVersions
  <2>14. ~history.crowd => \A f \in history.named :
            f[2] >= 1 /\ f[2] <= policies[f[1]].version
            /\ (f[2] = policies[f[1]].version => f[3] = policies[f[1]].body)
    BY DEF PolicyInv, HighestIsCurrent
  <2>15. VersionNamesContent'
    BY <2>5, <2>10, <2>12, <2>14 DEF PolicyInv, VersionNamesContent
  <2>16. policies'[p].version \in Nat
    BY <1>2, <2>3 DEF PolicyRow
  <2>17. HighestIsCurrent'
    <3>1. ~history.crowd =>
             n[2] >= 1 /\ n[2] <= policies'[n[1]].version
             /\ (n[2] = policies'[n[1]].version => n[3] = policies'[n[1]].body)
      BY <2>12, <2>13, <2>16
    <3> QED
      BY <2>5, <2>10, <2>14, <3>1 DEF HighestIsCurrent
  <2>18. CopiesAreCounted'
    <3> SUFFICES ASSUME ~history.crowd, NEW d \in Calls
                 PROVE  /\ call'[d].met <= 1
                        /\ call'[d].at = "loaded" =>
                              /\ call'[d].old.version >= 1
                              /\ policies'[call'[d].pol].version = call'[d].old.version + call'[d].met
                        /\ call'[d].at = "bumped" =>
                              /\ call'[d].old.version >= 1
                              /\ policies'[call'[d].pol].version
                                   = call'[d].old.version + 1 + call'[d].met
                              /\ call'[d].old.version + 1 <= call'[d].got
                              /\ call'[d].got <= policies'[call'[d].pol].version
      BY <2>5 DEF CopiesAreCounted
    <3>1. CASE d = c
      BY <2>7, <3>1 DEF PolicyInv, CopiesAreCounted
    <3>2. CASE d # c
      BY <2>7, <2>10, <3>2 DEF PolicyInv, CopiesAreCounted
    <3> QED
      BY <3>1, <3>2
  <2> QED
    BY <2>5, <2>8, <2>9, <2>10, <2>11, <2>15, <2>17, <2>18 DEF PolicyInv
<1> QED
  BY <1>3, <1>4

-----------------------------------------------------------------------------
\* The evaluation only reads the policies.
LEMMA ReadingKeeps ==
    ASSUME PolicyInv, ReadLinked \/ ReadDirect \/ Conclude
    PROVE  PolicyInv'
<1>1. PolicyTypeOK
  BY DEF PolicyInv
<1>2. UNCHANGED <<policies, direct, call, history>>
  BY DEF ReadLinked, ReadDirect, Conclude
<1>3. reading \in [at : {"off", "direct", "write"}, found : SUBSET Naming]
      /\ direct \in SUBSET Ids /\ Linked \in SUBSET Ids /\ asked \in Nat /\ seen \in SUBSET Naming
  BY <1>1, PoliciesBounds DEF PolicyTypeOK
<1>4. Active(Linked) \in SUBSET Naming /\ Active(direct) \in SUBSET Naming
  BY <1>1, <1>3, ActiveType
<1>5. /\ reading' \in [at : {"off", "direct", "write"}, found : SUBSET Naming]
      /\ asked' \in Nat /\ seen' \in SUBSET Naming
  <2>1. CASE ReadLinked
    BY <1>3, <1>4, <2>1 DEF ReadLinked
  <2>2. CASE ReadDirect
    <3>1. Both \in SUBSET Naming
      BY <1>3, <1>4 DEF Both
    <3> QED
      BY <1>3, <2>2, <3>1 DEF ReadDirect
  <2>3. CASE Conclude
    BY <1>3, <2>3 DEF Conclude, NotReading
  <2> QED
    BY <2>1, <2>2, <2>3
<1>6. PolicyTypeOK'
  BY <1>1, <1>2, <1>5 DEF PolicyTypeOK
<1>7. \A p \in Linked \cup direct : policies[p].is
  BY DEF PolicyInv, InUseExists
<1> QED
  BY <1>2, <1>6, <1>7, VersionsUntouched

LEMMA PolicyStepInv == PolicyInv /\ [PolicyNext]_policyVars => PolicyInv'
<1> SUFFICES ASSUME PolicyInv, [PolicyNext]_policyVars PROVE PolicyInv'
  OBVIOUS
<1>1. CASE \E p \in Ids : Create(p)
  BY <1>1, CreateKeeps
<1>2. ASSUME NEW c \in Calls, NEW p \in Ids,
             \/ LoadForUpdate(c, p) \/ LoadForDelete(c, p)
             \/ LoadForAssign(c, p) \/ LoadForUnassign(c, p)
      PROVE  PolicyInv'
  BY <1>2, LoadsKeep
<1>3. ASSUME NEW c \in Calls, Step(c) \/ Fail(c)
      PROVE  PolicyInv'
  BY <1>3, BumpKeeps, WriteKeeps, QuietStepsKeep, DeleteKeeps, AssignKeeps DEF Step
<1>4. CASE ReadLinked \/ ReadDirect \/ Conclude
  BY <1>4, ReadingKeeps
<1>5. CASE UNCHANGED policyVars
  <2>1. UNCHANGED <<policies, direct, call, asked, reading, seen, history>>
    BY <1>5 DEF policyVars
  <2>2. PolicyTypeOK' /\ \A p \in Linked \cup direct : policies[p].is
    BY <2>1 DEF PolicyInv, PolicyTypeOK, InUseExists
  <2> QED
    BY <2>1, <2>2, VersionsUntouched
<1> QED
  BY <1>1, <1>2, <1>3, <1>4, <1>5 DEF PolicyNext

\* The policies, what requests hold of them and the versions given, for any number
\* of policies, links and requests.
THEOREM PoliciesInvariant == PolicySpec => []PolicyInv
<1> QED
  BY PolicyInitInv, PolicyStepInv, PTL DEF PolicySpec

\* update_policy and increment_policy_version: however many updates of however many
\* policies interleave, a version names one content until one update is passed by
\* two others.
THEOREM VersionsNameContent == PolicySpec => []VersionNamesContent
<1>1. PolicyInv => VersionNamesContent
  BY DEF PolicyInv
<1> QED
  BY <1>1, PoliciesInvariant, PTL

\* A step that leaves the versions where they are, or raises one.
LEMMA StepRaises ==
    PolicyInv /\ [PolicyNext]_policyVars =>
        history'.crowd \/ \A p \in Ids : policies'[p].version >= policies[p].version
<1> SUFFICES ASSUME PolicyInv, [PolicyNext]_policyVars, NEW p \in Ids
             PROVE  history'.crowd \/ policies'[p].version >= policies[p].version
  OBVIOUS
<1>1. PolicyTypeOK /\ policies[p].version \in Nat
  BY DEF PolicyInv, PolicyTypeOK, PolicyRow
<1>2. CASE policies' = policies
  BY <1>1, <1>2
<1>3. ASSUME NEW q \in Ids, Create(q)
      PROVE  policies'[p].version >= policies[p].version
  <2>1. policies[q].version = 0 /\ policies' = [policies EXCEPT ![q] = FirstVersion]
        /\ policies'[q].version = 1
    BY <1>1, <1>3 DEF Create, NoPolicy, FirstVersion, PolicyTypeOK
  <2> QED
    BY <1>1, <2>1 DEF PolicyTypeOK
<1>4. ASSUME NEW c \in Calls, NEW on \in BOOLEAN, Bump(c, on)
      PROVE  policies'[p].version >= policies[p].version
  <2>1. CASE policies' = policies
    BY <1>1, <2>1
  <2>2. CASE policies' # policies
    <3>1. policies[call[c].pol].is /\ call[c].at = "loaded"
      BY <1>4, <2>2 DEF Bump
    <3>2. ~End(c)
      <4>1. call'[c] = [call[c] EXCEPT !.at = "bumped", !.got = Bumped(c)]
        BY <1>4, <3>1 DEF Bump
      <4>2. call'[c].at = "bumped"
        BY <1>1, <4>1, CallTypes DEF PolicyCall
      <4> QED
        BY <1>1, <4>2, EndType
    <3>3. BumpEffect(c, call[c].pol, policies[call[c].pol].version + 1)
      BY <1>4, <3>2, BumpChanges
    <3> QED
      BY <1>1, <3>3 DEF BumpEffect
  <2> QED
    BY <2>1, <2>2
<1>5. ASSUME NEW c \in Calls, Delete(c)
      PROVE  policies'[p].version >= policies[p].version
  <2>1. policies' = policies \/ policies' = [policies EXCEPT ![call[c].pol].is = FALSE]
    BY <1>5 DEF Delete
  <2>2. policies'[p].version = policies[p].version
    BY <1>1, <2>1 DEF PolicyTypeOK, PolicyRow
  <2> QED
    BY <1>1, <2>2
<1>6. CASE \E c \in Calls : Write(c)
  BY <1>1, <1>6, WriteKeeps
<1>7. CASE UNCHANGED policyVars
  BY <1>2, <1>7 DEF policyVars
<1>8. ASSUME NEW c \in Calls,
             \/ TriggerReEnforcement(c) \/ Assign(c) \/ Unassign(c) \/ AskEvaluation(c)
             \/ Fail(c)
      PROVE  policies' = policies
  BY <1>8 DEF TriggerReEnforcement, Assign, Unassign, AskEvaluation, Fail
<1>9. ASSUME NEW c \in Calls, NEW q \in Ids,
             \/ LoadForUpdate(c, q) \/ LoadForDelete(c, q)
             \/ LoadForAssign(c, q) \/ LoadForUnassign(c, q)
      PROVE  policies' = policies
  BY <1>9 DEF LoadForUpdate, LoadForDelete, LoadForAssign, LoadForUnassign, Load
<1>10. CASE ReadLinked \/ ReadDirect \/ Conclude
  BY <1>2, <1>10 DEF ReadLinked, ReadDirect, Conclude
<1>11. CASE \E c \in Calls : Step(c) \/ Fail(c)
  BY <1>2, <1>4, <1>5, <1>6, <1>8, <1>11 DEF Step
<1> QED
  BY <1>2, <1>3, <1>7, <1>9, <1>10, <1>11 DEF PolicyNext

\* And in the same case no version in force gives way to a lower one.
THEOREM VersionsOnlyRise == PolicySpec => VersionsRise
<1>1. PolicyInv /\ [PolicyNext]_policyVars =>
         [history'.crowd \/ \A p \in Ids : policies'[p].version >= policies[p].version]_policyVars
  BY StepRaises
<1> QED
  BY <1>1, PoliciesInvariant, PTL DEF PolicySpec, VersionsRise
=============================================================================
