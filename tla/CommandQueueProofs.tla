------------------------- MODULE CommandQueueProofs -------------------------
(* Theorems of CommandQueue for every number of commands, handlers, retries *)
(* and faults, on both transports.                                          *)
EXTENDS CommandQueue, TLAPS

(* A session at rest, one that has just read, and the rows it read.         *)
LEMMA SessionTypes ==
    /\ NoRow \in Row
    /\ Blank \in [Cmds -> Row]
    /\ Idle \in Session
    /\ TypeOK => \A o \in Ops, r \in Claims, T \in SUBSET Cmds :
                    Reading(o, T, r) \in Session
<1>1. NoRow \in Row
  BY DEF NoRow, Row, Status, Terminal
<1>2. Blank \in [Cmds -> Row]
  BY <1>1 DEF Blank
<1>3. Idle \in Session
  BY <1>2 DEF Idle, Session, Ops, Claims
<1>4. ASSUME TypeOK, NEW o \in Ops, NEW r \in Claims, NEW T \in SUBSET Cmds
      PROVE  Reading(o, T, r) \in Session
  <2>1. Snapshot(T) \in [Cmds -> Row]
    BY <1>1, <1>4 DEF Snapshot, TypeOK
  <2>2. QED
    BY <2>1 DEF Reading, Session
<1>5. QED
  BY <1>1, <1>2, <1>3, <1>4

(* Type correctness is preserved by every action.  ReportCommit needs the   *)
(* grounds of its handler: a claim that does not fit the status it read     *)
(* would have no target.                                                    *)
LEMMA TypeStep == TypeOK /\ HandlersHaveGrounds /\ [Next]_vars => TypeOK'
<1> SUFFICES ASSUME TypeOK, HandlersHaveGrounds, [Next]_vars PROVE TypeOK'
  OBVIOUS
<1> USE BoundsAssumption, SessionTypes DEF TypeOK
<1>1. ASSUME NEW c \in Cmds, Enqueue(c) PROVE TypeOK'
  BY <1>1 DEF Enqueue, Row, Status
<1>2. ASSUME NEW s \in Sessions, NEW c \in Cmds, DispatchEnqueue(s, c) PROVE TypeOK'
  <2>1. [Idle EXCEPT !.op = "dispatch", !.todo = {c}] \in Session
    BY DEF Idle, Session, Ops
  <2>2. QED
    BY <1>2, <2>1 DEF DispatchEnqueue, Row, Status
<1>3. ASSUME NEW s \in Sessions, NEW c \in Cmds, DispatchRead(s, c) PROVE TypeOK'
  <2>1. Reading("dispatch", {c}, "ACKED") \in Session
    BY DEF Ops, Claims
  <2>2. QED
    BY <1>3, <2>1 DEF DispatchRead
<1>4. ASSUME NEW s \in Sessions, NEW c \in Cmds, DispatchCommit(s, c) PROVE TypeOK'
  <2>1. row' \in [Cmds -> Row]
    BY <1>4 DEF DispatchCommit, SetStatus, Row, Status
  <2>2. sess' \in [Sessions -> Session]
    BY <1>4 DEF DispatchCommit, Session
  <2>3. QED
    BY <1>4, <2>1, <2>2 DEF DispatchCommit
<1>5. ASSUME NEW s \in Sessions, DispatchSend(s) PROVE TypeOK'
  <2>1. sess[s].done \in SUBSET Cmds
    BY DEF Session
  <2>2. QED
    BY <1>5, <2>1 DEF DispatchSend
<1>6. ASSUME NEW s \in Sessions, PollRead(s) PROVE TypeOK'
  <2>1. [Idle EXCEPT !.op = "poll", !.todo = InStatus({"PENDING"})] \in Session
    BY DEF Idle, Session, Ops, InStatus
  <2>2. QED
    BY <1>6, <2>1 DEF PollRead
<1>7. ASSUME NEW s \in Sessions, NEW c \in Cmds, PollCommit(s, c) PROVE TypeOK'
  <2>1. row' \in [Cmds -> Row]
    BY <1>7 DEF PollCommit, SetStatus, Row, Status
  <2>2. sess' \in [Sessions -> Session]
    BY <1>7 DEF PollCommit, Session
  <2>3. QED
    BY <1>7, <2>1, <2>2 DEF PollCommit
<1>8. ASSUME NEW s \in Sessions, PollReply(s) PROVE TypeOK'
  <2>1. sess[s].done \in SUBSET Cmds
    BY DEF Session
  <2>2. QED
    BY <1>8, <2>1 DEF PollReply
<1>9. ASSUME NEW s \in Sessions, FlushRead(s) PROVE TypeOK'
  <2>1. Reading("flush", InStatus({"PENDING", "DISPATCHED"}), "ACKED") \in Session
    BY DEF Ops, Claims, InStatus
  <2>2. QED
    BY <1>9, <2>1 DEF FlushRead
<1>10. ASSUME NEW s \in Sessions, NEW c \in Cmds, FlushExpire(s, c) PROVE TypeOK'
  <2>1. row' \in [Cmds -> Row]
    BY <1>10 DEF FlushExpire, SetStatus, Row, Status, Terminal
  <2>2. sess' \in [Sessions -> Session]
    BY <1>10 DEF FlushExpire, Session
  <2>3. QED
    BY <1>10, <2>1, <2>2 DEF FlushExpire
<1>11. ASSUME NEW s \in Sessions, NEW c \in Cmds, FlushSend(s, c) PROVE TypeOK'
  <2>1. [sess EXCEPT ![s].done = {c}] \in [Sessions -> Session]
    BY DEF Session
  <2>2. QED
    BY <1>11, <2>1 DEF FlushSend
<1>12. ASSUME NEW s \in Sessions, NEW c \in Cmds, FlushCommit(s, c) PROVE TypeOK'
  <2>1. row' \in [Cmds -> Row]
    BY <1>12 DEF FlushCommit, SetStatus, Row, Status
  <2>2. [sess[s].snap EXCEPT ![c].status = "DISPATCHED"] \in [Cmds -> Row]
    <3>1. sess[s].snap \in [Cmds -> Row]
      BY DEF Session
    <3>2. QED
      BY <3>1 DEF Row, Status
  <2>3. sess' \in [Sessions -> Session]
    BY <1>12, <2>2 DEF FlushCommit, Session
  <2>4. QED
    BY <1>12, <2>1, <2>3 DEF FlushCommit
<1>13. ASSUME NEW s \in Sessions, NEW c \in Cmds, FlushCount(s, c) PROVE TypeOK'
  <2>1. sess[s].snap[c].retries + 1 \in Nat
    BY DEF Session, Row
  <2>2. row' \in [Cmds -> Row]
    BY <1>13, <2>1 DEF FlushCount, Row
  <2>3. sess' \in [Sessions -> Session]
    BY <1>13 DEF FlushCount, Session
  <2>4. QED
    BY <1>13, <2>2, <2>3 DEF FlushCount
<1>14. ASSUME NEW s \in Sessions, FlushDone(s) PROVE TypeOK'
  BY <1>14 DEF FlushDone
<1>15. ASSUME NEW s \in Sessions, NEW c \in Cmds, NEW r \in Claims, AckRead(s, c, r)
       PROVE TypeOK'
  <2>1. Reading("report", {c}, r) \in Session
    BY DEF Ops
  <2>2. QED
    BY <1>15, <2>1 DEF AckRead
<1>16. ASSUME NEW s \in Sessions, NEW c \in Cmds, ReportCommit(s, c) PROVE TypeOK'
  <2>. DEFINE r  == sess[s].claim
              old == sess[s].snap[c].status
              st == Target(r, old)
  <2>1. st \in Status
    <3>1. r \in Claims /\ old \in Wanted(r)
      BY <1>16 DEF ReportCommit, HandlersHaveGrounds, Grounded, Session
    <3>2. QED
      BY <3>1 DEF Wanted, Target, Pipeline, Claims, Status, Terminal
  <2>2. row' \in [Cmds -> Row]
    BY <1>16, <2>1 DEF ReportCommit, SetStatus, Row
  <2>3. sess' \in [Sessions -> Session]
    <3>1. [sess[s].snap EXCEPT ![c].status = st] \in [Cmds -> Row]
      <4>1. sess[s].snap \in [Cmds -> Row]
        BY DEF Session
      <4> HIDE DEF st
      <4>2. QED
        BY <4>1, <2>1 DEF Row
    <3>2. [sess[s] EXCEPT !.snap[c].status = st] \in Session
      BY <3>1 DEF Session
    <3>3. QED
      BY <1>16, <3>2 DEF ReportCommit
  <2>4. QED
    BY <1>16, <2>2, <2>3 DEF ReportCommit
<1>17. ASSUME Watchdog PROVE TypeOK'
  <2>1. CASE WatchdogSelect
    BY <2>1 DEF WatchdogSelect, InStatus
  <2>2. ASSUME NEW c \in Cmds, WatchdogSkip(c) PROVE TypeOK'
    BY <2>2 DEF WatchdogSkip
  <2>3. ASSUME NEW c \in Cmds, WatchdogRequeue(c) PROVE TypeOK'
    BY <2>3 DEF WatchdogRequeue, Row, Status
  <2>4. ASSUME NEW c \in Cmds, WatchdogExpire(c) PROVE TypeOK'
    BY <2>4 DEF WatchdogExpire, Row, Status, Terminal
  <2>5. QED
    BY <1>17, <2>1, <2>2, <2>3, <2>4 DEF Watchdog
<1>18. ASSUME NEW c \in Cmds, NEW r \in Claims, Run(c, r) PROVE TypeOK'
  BY <1>18 DEF Run
<1>19. ASSUME NEW s \in Sessions, Abort(s) PROVE TypeOK'
  BY <1>19 DEF Abort
<1>20. CASE Crash
  BY <1>20 DEF Crash
<1>21. CASE UNCHANGED vars
  BY <1>21 DEF vars
<1>22. QED
  BY <1>1, <1>2, <1>3, <1>4, <1>5, <1>6, <1>7, <1>8, <1>9, <1>10, <1>11, <1>12,
     <1>14, <1>15, <1>16, <1>17, <1>18, <1>19, <1>20, <1>21, <1>13
     DEF Next, Handler, Continue, ResultRead

(* Created rows stay created, attempts only grow, reports are never taken   *)
(* back: what grounds a handler has, it keeps.                              *)
LEMMA Monotone ==
    TypeOK /\ HandlersHaveGrounds /\ [Next]_vars =>
        /\ \A c \in Cmds : row[c].status # "ABSENT" => row'[c].status # "ABSENT"
        /\ \A c \in Cmds : row[c].attempts <= row'[c].attempts
        /\ reports \subseteq reports'
<1> DEFINE Grows == /\ \A c \in Cmds : row[c].status # "ABSENT" => row'[c].status # "ABSENT"
                   /\ \A c \in Cmds : row[c].attempts <= row'[c].attempts
<1> SUFFICES ASSUME TypeOK, HandlersHaveGrounds, [Next]_vars
             PROVE  Grows /\ reports \subseteq reports'
  OBVIOUS
<1>1. \A c \in Cmds : row[c] \in Row /\ row[c].attempts \in Nat
  BY DEF TypeOK, Row
<1>2. ASSUME NEW c \in Cmds, NEW st \in Status \ {"ABSENT"},
             row' = [row EXCEPT ![c].status = st]
      PROVE  Grows
  BY <1>1, <1>2 DEF TypeOK, Row
<1>3. ASSUME row' = row PROVE Grows
  BY <1>1, <1>3
<1>4. ASSUME NEW c \in Cmds, Enqueue(c) PROVE Grows
  BY <1>2, <1>4 DEF Enqueue, Status
<1>5. ASSUME NEW s \in Sessions, NEW c \in Cmds,
             \/ DispatchEnqueue(s, c) \/ DispatchCommit(s, c)
             \/ PollCommit(s, c) \/ FlushCommit(s, c)
      PROVE  Grows
  BY <1>2, <1>3, <1>5 DEF DispatchEnqueue, DispatchCommit, PollCommit, FlushCommit, SetStatus,
                       Status
<1>6. ASSUME NEW s \in Sessions, NEW c \in Cmds, FlushExpire(s, c) PROVE Grows
  BY <1>2, <1>6 DEF FlushExpire, SetStatus, Status, Terminal
<1>7. ASSUME NEW s \in Sessions, NEW c \in Cmds, FlushCount(s, c) PROVE Grows
  BY <1>1, <1>7 DEF FlushCount, TypeOK, Row
<1>8. ASSUME NEW s \in Sessions, NEW c \in Cmds, ReportCommit(s, c) PROVE Grows
  <2>1. sess[s].claim \in Claims /\ sess[s].snap[c].status \in Wanted(sess[s].claim)
    BY <1>8 DEF ReportCommit, HandlersHaveGrounds, Grounded, TypeOK, Session
  <2>2. Target(sess[s].claim, sess[s].snap[c].status) \in Status \ {"ABSENT"}
    BY <2>1 DEF Wanted, Target, Pipeline, Claims, Status, Terminal
  <2>3. QED
    BY <1>2, <1>8, <2>2 DEF ReportCommit, SetStatus
<1>9. ASSUME NEW c \in Cmds, WatchdogRequeue(c) \/ WatchdogExpire(c) PROVE Grows
  BY <1>1, <1>9 DEF WatchdogRequeue, WatchdogExpire, TypeOK, Row
<1>10. Grows
  BY <1>3, <1>4, <1>5, <1>6, <1>7, <1>8, <1>9
     DEF Next, Handler, Continue, ResultRead, Watchdog, DispatchRead, DispatchSend,
         PollRead, PollReply, FlushRead, FlushSend, FlushDone, AckRead,
         WatchdogSelect, WatchdogSkip, Run, Crash, Abort, vars
<1>11. reports \subseteq reports'
  <2>1. ASSUME NEW s \in Sessions, Handler(s) PROVE reports' = reports
    BY <2>1 DEF Handler, Continue, ResultRead, DispatchEnqueue, DispatchRead,
                DispatchCommit, DispatchSend, PollRead, PollCommit, PollReply, FlushRead,
                FlushExpire, FlushSend, FlushCommit, FlushCount, FlushDone, AckRead,
                ReportCommit
  <2>2. ASSUME Watchdog PROVE reports' = reports
    BY <2>2 DEF Watchdog, WatchdogSelect, WatchdogSkip, WatchdogRequeue, WatchdogExpire
  <2>3. QED
    BY <2>1, <2>2 DEF Next, Enqueue, Run, Crash, Abort, vars
<1>12. QED
  BY <1>10, <1>11


(* A handler's grounds outlive every step of the others, because a row is   *)
(* never deleted, attempts only grow and reports are never taken back; its  *)
(* own steps give up rows or re-establish them.                             *)
LEMMA HandlersStep == IInv /\ [Next]_vars => HandlersHaveGrounds'
<1> SUFFICES ASSUME IInv, [Next]_vars PROVE HandlersHaveGrounds'
  OBVIOUS
<1>1. /\ TypeOK /\ HandlersHaveGrounds
      /\ \A c \in Cmds : row[c].status # "ABSENT" => row'[c].status # "ABSENT"
      /\ \A c \in Cmds : row[c].attempts \in Nat /\ row'[c].attempts \in Nat
      /\ \A c \in Cmds : row[c].attempts <= row'[c].attempts
      /\ reports \subseteq reports'
  BY Monotone, TypeStep DEF IInv, TypeOK, Row
<1>2. \A s \in Sessions :
        /\ sess[s].todo \cup sess[s].done \subseteq Cmds
        /\ \A c \in Cmds : sess[s].snap[c] \in Row /\ sess[s].snap[c].attempts \in Nat
        /\ sess[s].snap \in [Cmds -> Row]
  BY <1>1 DEF TypeOK, Session, Row
<1>3. ASSUME NEW s \in Sessions,
             sess'[s].op = sess[s].op, sess'[s].claim = sess[s].claim,
             sess'[s].snap = sess[s].snap,
             sess'[s].todo \cup sess'[s].done \subseteq sess[s].todo \cup sess[s].done
      PROVE  Grounded(sess[s])'
  <2>. SUFFICES ASSUME NEW c \in sess'[s].todo \cup sess'[s].done
                PROVE  /\ row'[c].status # "ABSENT"
                       /\ sess'[s].op = "report" =>
                            /\ <<c, sess'[s].claim>> \in reports'
                            /\ sess'[s].snap[c].status \in Wanted(sess'[s].claim)
                            /\ sess'[s].snap[c].status = "EXECUTED" =>
                                  <<c, "EXECUTED">> \in reports'
                       /\ sess'[s].op = "flush" =>
                            sess'[s].snap[c].attempts <= row'[c].attempts
    BY DEF Grounded, Wanted
  <2>1. c \in sess[s].todo \cup sess[s].done /\ c \in Cmds
    BY <1>2, <1>3
  <2>2. /\ row[c].status # "ABSENT"
        /\ sess[s].op = "report" =>
             /\ <<c, sess[s].claim>> \in reports
             /\ sess[s].snap[c].status \in Wanted(sess[s].claim)
             /\ sess[s].snap[c].status = "EXECUTED" => <<c, "EXECUTED">> \in reports
        /\ sess[s].op = "flush" => sess[s].snap[c].attempts <= row[c].attempts
    BY <1>1, <2>1 DEF HandlersHaveGrounds, Grounded
  <2>3. QED
    BY <1>1, <1>2, <1>3, <2>1, <2>2
<1>4. ASSUME NEW s \in Sessions, sess'[s] = Idle PROVE Grounded(sess[s])'
  BY <1>4 DEF Idle, Grounded
<1>5. ASSUME NEW s \in Sessions, \A t \in Sessions \ {s} : sess'[t] = sess[t],
             Grounded(sess[s])'
      PROVE  HandlersHaveGrounds'
  BY <1>3, <1>5 DEF HandlersHaveGrounds
<1>6. ASSUME sess' = sess PROVE HandlersHaveGrounds'
  BY <1>3, <1>6 DEF HandlersHaveGrounds
<1>7. ASSUME NEW s \in Sessions, NEW c \in Cmds, DispatchEnqueue(s, c)
      PROVE  HandlersHaveGrounds'
  <2>1. sess'[s].op = "dispatch" /\ sess'[s].todo = {c} /\ sess'[s].done = {}
    BY <1>1, <1>7 DEF DispatchEnqueue, TypeOK, Idle
  <2>2. row'[c].status = "PENDING"
    BY <1>1, <1>7 DEF DispatchEnqueue, TypeOK, Row
  <2>3. Grounded(sess[s])'
    BY <2>1, <2>2 DEF Grounded
  <2>4. QED
    BY <1>1, <1>5, <1>7, <2>3 DEF DispatchEnqueue, TypeOK
<1>8. ASSUME NEW s \in Sessions, NEW c \in Cmds, DispatchRead(s, c)
      PROVE  HandlersHaveGrounds'
  <2>1. CASE sess' = [sess EXCEPT ![s] = Reading("dispatch", {c}, "ACKED")]
    <3>1. sess'[s].op = "dispatch" /\ sess'[s].todo = {c} /\ sess'[s].done = {}
      BY <1>1, <2>1 DEF TypeOK, Reading
    <3>2. row'[c].status # "ABSENT"
      BY <1>1, <1>8 DEF DispatchRead, HandlersHaveGrounds, Grounded
    <3>3. Grounded(sess[s])'
      BY <3>1, <3>2 DEF Grounded
    <3>4. QED
      BY <1>1, <1>5, <2>1, <3>3 DEF TypeOK
  <2>2. CASE sess' = [sess EXCEPT ![s] = Idle]
    BY <1>1, <1>4, <1>5, <2>2 DEF TypeOK
  <2>3. QED
    BY <1>8, <2>1, <2>2 DEF DispatchRead
<1>9. ASSUME NEW s \in Sessions, NEW c \in Cmds,
             DispatchCommit(s, c) \/ PollCommit(s, c) \/ FlushExpire(s, c) \/ FlushCount(s, c)
      PROVE  HandlersHaveGrounds'
  <2>1. /\ \A t \in Sessions \ {s} : sess'[t] = sess[t]
        /\ sess'[s].op = sess[s].op /\ sess'[s].claim = sess[s].claim
        /\ sess'[s].snap = sess[s].snap
        /\ sess'[s].todo \cup sess'[s].done \subseteq sess[s].todo \cup sess[s].done
    BY <1>1, <1>9 DEF DispatchCommit, PollCommit, FlushExpire, FlushCount, FlushAt, Oldest,
                      TypeOK, Session
  <2>2. QED
    BY <1>3, <1>5, <2>1
<1>10. ASSUME NEW s \in Sessions, PollRead(s) PROVE HandlersHaveGrounds'
  <2>1. /\ sess'[s].op = "poll" /\ sess'[s].done = {}
        /\ sess'[s].todo = InStatus({"PENDING"})
    BY <1>1, <1>10 DEF PollRead, TypeOK, Idle
  <2>2. Grounded(sess[s])'
    BY <1>10, <2>1 DEF Grounded, InStatus, PollRead
  <2>3. QED
    BY <1>1, <1>5, <1>10, <2>2 DEF PollRead, TypeOK
<1>11. ASSUME NEW s \in Sessions, FlushRead(s) PROVE HandlersHaveGrounds'
  <2>. DEFINE T == InStatus({"PENDING", "DISPATCHED"})
  <2>1. /\ sess'[s].op = "flush" /\ sess'[s].done = {} /\ sess'[s].todo = T
        /\ \A c \in T : sess'[s].snap[c] = row[c]
    BY <1>1, <1>11 DEF FlushRead, TypeOK, Reading, Snapshot, InStatus
  <2>2. Grounded(sess[s])'
    BY <1>1, <1>11, <2>1 DEF Grounded, InStatus, FlushRead
  <2>3. QED
    BY <1>1, <1>5, <1>11, <2>2 DEF FlushRead, TypeOK
<1>12. ASSUME NEW s \in Sessions, NEW c \in Cmds, FlushSend(s, c)
       PROVE  HandlersHaveGrounds'
  <2>1. CASE sess' = [sess EXCEPT ![s].done = {c}]
    <3>1. /\ sess'[s].op = sess[s].op /\ sess'[s].claim = sess[s].claim
          /\ sess'[s].snap = sess[s].snap
          /\ sess'[s].todo \cup sess'[s].done \subseteq sess[s].todo \cup sess[s].done
      BY <1>1, <1>12, <2>1 DEF FlushSend, FlushAt, Oldest, TypeOK, Session
    <3>2. QED
      BY <1>1, <1>3, <1>5, <2>1, <3>1 DEF TypeOK
  <2>2. CASE sess' = [sess EXCEPT ![s] = Idle]
    BY <1>1, <1>4, <1>5, <2>2 DEF TypeOK
  <2>3. QED
    BY <1>12, <2>1, <2>2 DEF FlushSend
<1>13. ASSUME NEW s \in Sessions, NEW c \in Cmds, FlushCommit(s, c)
       PROVE  HandlersHaveGrounds'
  <2>1. /\ sess'[s].op = "flush" /\ sess[s].op = "flush"
        /\ sess'[s].todo = sess[s].todo /\ sess'[s].done = sess[s].done
        /\ \A d \in Cmds : sess'[s].snap[d].attempts = sess[s].snap[d].attempts
    BY <1>1, <1>2, <1>13 DEF FlushCommit, FlushAt, TypeOK, Session, Row
  <2>2. ASSUME NEW d \in sess'[s].todo \cup sess'[s].done
        PROVE  /\ row'[d].status # "ABSENT"
               /\ sess'[s].snap[d].attempts <= row'[d].attempts
    <3>1. d \in Cmds /\ row[d].status # "ABSENT"
      BY <1>1, <1>2, <2>1 DEF HandlersHaveGrounds, Grounded
    <3>2. sess[s].snap[d].attempts <= row[d].attempts
      BY <1>1, <2>1 DEF HandlersHaveGrounds, Grounded
    <3>3. QED
      BY <1>1, <1>2, <2>1, <3>1, <3>2
  <2>3. Grounded(sess[s])'
    BY <2>1, <2>2 DEF Grounded
  <2>4. QED
    BY <1>1, <1>5, <1>13, <2>3 DEF FlushCommit, TypeOK
<1>14. ASSUME NEW s \in Sessions, NEW c \in Cmds, NEW r \in Claims, AckRead(s, c, r)
       PROVE  HandlersHaveGrounds'
  <2>1. /\ sess'[s].op = "report" /\ sess'[s].claim = r
        /\ sess'[s].todo = {c} /\ sess'[s].done = {}
        /\ sess'[s].snap[c] = row[c]
    BY <1>1, <1>14 DEF AckRead, TypeOK, Reading, Snapshot
  <2>2. row[c].status \in Wanted(r) /\ row[c].status # "ABSENT"
    BY <1>14 DEF AckRead, Wanted, Pipeline, Claims
  <2>3. row[c].status = "EXECUTED" => <<c, "EXECUTED">> \in reports
    BY DEF IInv, SuccessWasReported
  <2>4. Grounded(sess[s])'
    BY <1>14, <2>1, <2>2, <2>3 DEF Grounded, AckRead
  <2>5. QED
    BY <1>1, <1>5, <1>14, <2>4 DEF AckRead, TypeOK
<1>15. ASSUME NEW s \in Sessions, NEW c \in Cmds, ReportCommit(s, c)
       PROVE  HandlersHaveGrounds'
  <2>. DEFINE r  == sess[s].claim
              st == Target(r, sess[s].snap[c].status)
  <2>1. CASE sess' = [sess EXCEPT ![s] = Idle]
    BY <1>1, <1>4, <1>5, <2>1 DEF TypeOK
  <2>2. CASE /\ sess' = [sess EXCEPT ![s].snap[c].status = st]
             /\ st \notin Terminal /\ r # "ACKED"
    <3>1. /\ <<c, r>> \in reports /\ r \in Claims
          /\ sess[s].snap[c].status \in Wanted(r)
      BY <1>1, <1>15 DEF ReportCommit, HandlersHaveGrounds, Grounded, TypeOK, Session
    <3>2. r = "EXECUTED" /\ st \in {"DISPATCHED", "EXECUTED"}
      BY <2>2, <3>1 DEF Wanted, Target, Pipeline, Claims, Terminal
    <3>3. /\ sess'[s].op = "report" /\ sess[s].op = "report" /\ sess'[s].claim = r
          /\ sess'[s].todo = sess[s].todo /\ sess'[s].done = sess[s].done
          /\ sess'[s].snap[c].status = st
          /\ \A d \in Cmds \ {c} : sess'[s].snap[d] = sess[s].snap[d]
      BY <1>1, <1>2, <1>15, <2>2 DEF ReportCommit, TypeOK, Session, Row
    <3>4. st \in Wanted(r)
      BY <3>2 DEF Wanted, Pipeline
    <3>5. Grounded(sess[s])'
      BY <1>1, <1>2, <3>1, <3>2, <3>3, <3>4 DEF HandlersHaveGrounds, Grounded
    <3>6. QED
      BY <1>1, <1>5, <2>2, <3>5 DEF TypeOK
  <2>3. QED
    BY <1>15, <2>1, <2>2 DEF ReportCommit
<1>16. ASSUME NEW s \in Sessions,
              DispatchSend(s) \/ PollReply(s) \/ FlushDone(s) \/ Abort(s)
       PROVE  HandlersHaveGrounds'
  BY <1>1, <1>4, <1>5, <1>16 DEF DispatchSend, PollReply, FlushDone, Abort, TypeOK
<1>17. CASE Crash
  BY <1>4, <1>17 DEF Crash, HandlersHaveGrounds
<1>18. ASSUME NEW c \in Cmds, Enqueue(c) PROVE sess' = sess
  BY <1>18 DEF Enqueue
<1>19. ASSUME NEW c \in Cmds, NEW r \in Claims, Run(c, r) PROVE sess' = sess
  BY <1>19 DEF Run
<1>20. ASSUME Watchdog PROVE sess' = sess
  BY <1>20 DEF Watchdog, WatchdogSelect, WatchdogSkip, WatchdogRequeue, WatchdogExpire
<1>21. CASE UNCHANGED vars
  BY <1>6, <1>21 DEF vars
<1>22. QED
  BY <1>6, <1>7, <1>8, <1>9, <1>10, <1>11, <1>12, <1>13, <1>14, <1>15, <1>16,
     <1>17, <1>18, <1>19, <1>20, <1>21
     DEF Next, Handler, Continue, ResultRead




(* A row moved by a handler keeps the row invariants when the handler had   *)
(* the right to the new status: success with the agent's report, failure    *)
(* with its report or with the retries used up.                             *)
RowsSafe == SuccessWasReported /\ FailureHasCause /\ RetryBudget /\ LockedRowsFresh

LEMMA RowsStep == IInv /\ [Next]_vars => RowsSafe'
<1> SUFFICES ASSUME IInv, [Next]_vars PROVE RowsSafe'
  OBVIOUS
<1>1. /\ TypeOK /\ HandlersHaveGrounds /\ RowsSafe
      /\ \A c \in Cmds : row[c] \in Row /\ row[c].attempts \in Nat
      /\ MaxRetries \in Nat
      /\ row \in [Cmds -> Row]
  BY BoundsAssumption DEF IInv, TypeOK, Row, RowsSafe
<1> DEFINE Moves(c, st) == /\ c \notin locked
                           /\ row' = [row EXCEPT ![c].status = st]
                           /\ locked' = locked /\ reports' = reports
<1>2. ASSUME NEW c \in Cmds, NEW st, Moves(c, st),
             st \in {"EXECUTED", "ACKED"} => <<c, "EXECUTED">> \in reports,
             st = "FAILED" => <<c, "FAILED">> \in reports \/ row[c].attempts >= MaxRetries
      PROVE  RowsSafe'
  <2>1. /\ row'[c].status = st /\ row'[c].attempts = row[c].attempts
        /\ \A d \in Cmds \ {c} : row'[d] = row[d]
    BY <1>1, <1>2 DEF Row
  <2>2. SuccessWasReported'
    BY <1>1, <1>2, <2>1 DEF RowsSafe, SuccessWasReported
  <2>3. FailureHasCause'
    BY <1>1, <1>2, <2>1 DEF RowsSafe, FailureHasCause
  <2>4. RetryBudget'
    BY <1>1, <1>2, <2>1 DEF RowsSafe, RetryBudget
  <2>5. LockedRowsFresh'
    BY <1>1, <1>2, <2>1 DEF RowsSafe, LockedRowsFresh, TypeOK
  <2>6. QED
    BY <2>2, <2>3, <2>4, <2>5 DEF RowsSafe
<1>3. ASSUME row' = row, locked' \in {locked, {}, InStatus({"DISPATCHED"})},
             reports \subseteq reports'
      PROVE  RowsSafe'
  BY <1>1, <1>3 DEF RowsSafe, SuccessWasReported, FailureHasCause, RetryBudget,
                    LockedRowsFresh, InStatus
<1>4. ASSUME NEW c \in Cmds, Enqueue(c) PROVE RowsSafe'
  <2>1. Moves(c, "PENDING")
    BY <1>1, <1>4 DEF Enqueue, NextId, RowsSafe, LockedRowsFresh
  <2>2. QED
    BY <1>2, <2>1
<1>5. ASSUME NEW s \in Sessions, NEW c \in Cmds, DispatchEnqueue(s, c) PROVE RowsSafe'
  <2>1. Moves(c, "PENDING")
    BY <1>1, <1>5 DEF DispatchEnqueue, NextId, RowsSafe, LockedRowsFresh
  <2>2. QED
    BY <1>2, <2>1
<1>6. ASSUME NEW s \in Sessions, NEW c \in Cmds,
             DispatchCommit(s, c) \/ PollCommit(s, c) \/ FlushCommit(s, c)
      PROVE  RowsSafe'
  <2>1. CASE Moves(c, "DISPATCHED")
    BY <1>2, <2>1
  <2>2. CASE row' = row /\ locked' = locked /\ reports' = reports
    BY <1>3, <2>2
  <2>3. QED
    BY <1>6, <2>1, <2>2 DEF DispatchCommit, PollCommit, FlushCommit, SetStatus
<1>7. ASSUME NEW s \in Sessions, NEW c \in Cmds, FlushExpire(s, c) PROVE RowsSafe'
  <2>1. Moves(c, "FAILED")
    BY <1>7 DEF FlushExpire, SetStatus
  <2>2. sess[s].snap[c].attempts \in Nat /\ sess[s].snap[c].attempts >= MaxRetries
    BY <1>1, <1>7 DEF FlushExpire, TypeOK, Session, Row
  <2>3. sess[s].snap[c].attempts <= row[c].attempts
    BY <1>1, <1>7 DEF FlushExpire, FlushAt, Oldest, HandlersHaveGrounds, Grounded
  <2>4. row[c].attempts >= MaxRetries
    BY <1>1, <2>2, <2>3
  <2>5. QED
    BY <1>2, <2>1, <2>4
<1>8. ASSUME NEW s \in Sessions, NEW c \in Cmds, FlushCount(s, c) PROVE RowsSafe'
  <2>1. /\ \A d \in Cmds : /\ row'[d].status = row[d].status
                            /\ row'[d].attempts = row[d].attempts
        /\ locked' = locked /\ reports' = reports
    BY <1>1, <1>8 DEF FlushCount, Row
  <2>2. QED
    BY <1>1, <2>1 DEF RowsSafe, SuccessWasReported, FailureHasCause, RetryBudget,
                      LockedRowsFresh, TypeOK
<1>9. ASSUME NEW s \in Sessions, NEW c \in Cmds, ReportCommit(s, c) PROVE RowsSafe'
  <2>. DEFINE r   == sess[s].claim
              old == sess[s].snap[c].status
              st  == Target(r, old)
  <2>1. Moves(c, st)
    BY <1>9 DEF ReportCommit, SetStatus
  <2>2. /\ r \in Claims /\ <<c, r>> \in reports /\ old \in Wanted(r)
        /\ old = "EXECUTED" => <<c, "EXECUTED">> \in reports
    BY <1>1, <1>9 DEF ReportCommit, HandlersHaveGrounds, Grounded, TypeOK, Session
  <2>3. st \in {"EXECUTED", "ACKED"} => <<c, "EXECUTED">> \in reports
    BY <2>2 DEF Wanted, Target, Pipeline, Claims
  <2>4. st = "FAILED" => <<c, "FAILED">> \in reports
    BY <2>2 DEF Wanted, Target, Pipeline, Claims
  <2>5. QED
    BY <1>2, <2>1, <2>3, <2>4
<1>10. ASSUME NEW c \in Cmds, WatchdogRequeue(c) PROVE RowsSafe'
  <2>1. /\ row'[c].status = "PENDING" /\ row'[c].attempts = row[c].attempts + 1
        /\ row[c].attempts < MaxRetries
        /\ \A d \in Cmds \ {c} : row'[d] = row[d]
        /\ locked' = {} /\ reports' = reports
    BY <1>1, <1>10 DEF WatchdogRequeue, Row
  <2>2. QED
    BY <1>1, <2>1 DEF RowsSafe, SuccessWasReported, FailureHasCause, RetryBudget,
                      LockedRowsFresh
<1>11. ASSUME NEW c \in Cmds, WatchdogExpire(c) PROVE RowsSafe'
  <2>1. /\ row'[c].status = "FAILED" /\ row'[c].attempts = row[c].attempts
        /\ row[c].attempts >= MaxRetries
        /\ \A d \in Cmds \ {c} : row'[d] = row[d]
        /\ locked' = {} /\ reports' = reports
    BY <1>1, <1>11 DEF WatchdogExpire, Row
  <2>2. QED
    BY <1>1, <2>1 DEF RowsSafe, SuccessWasReported, FailureHasCause, RetryBudget,
                      LockedRowsFresh
<1>12. QED
  BY <1>3, <1>4, <1>5, <1>6, <1>7, <1>8, <1>9, <1>10, <1>11
     DEF Next, Handler, Continue, ResultRead, Watchdog, DispatchRead, DispatchSend,
         PollRead, PollReply, FlushRead, FlushSend, FlushDone, AckRead,
         WatchdogSelect, WatchdogSkip, Run, Crash, Abort, vars

(* What leaves the table - a batch, a frame, a report - names a row.        *)
LEMMA RefsStep == IInv /\ [Next]_vars => OnlyRowsAreUsed'
<1> SUFFICES ASSUME IInv, [Next]_vars PROVE OnlyRowsAreUsed'
  OBVIOUS
<1>1. /\ TypeOK /\ HandlersHaveGrounds /\ OnlyRowsAreUsed
      /\ \A c \in Cmds : row[c].status # "ABSENT" => row'[c].status # "ABSENT"
  BY Monotone DEF IInv
<1>2. ASSUME \A c \in batch' \cup inbox' :
                c \in Cmds => c \in batch \cup inbox \/ row[c].status # "ABSENT",
             \A c \in Cmds, r \in Claims :
                <<c, r>> \in reports' => <<c, r>> \in reports \/ c \in inbox
      PROVE  OnlyRowsAreUsed'
  BY <1>1, <1>2 DEF OnlyRowsAreUsed
<1>3. ASSUME batch' \subseteq batch, inbox' \subseteq inbox, reports' = reports
      PROVE  OnlyRowsAreUsed'
  BY <1>2, <1>3
<1>4. ASSUME NEW s \in Sessions, batch' = batch, reports' = reports,
             inbox' \subseteq inbox \cup sess[s].todo \cup sess[s].done
      PROVE  OnlyRowsAreUsed'
  BY <1>1, <1>2, <1>4 DEF HandlersHaveGrounds, Grounded
<1>5. ASSUME NEW s \in Sessions, Handler(s) PROVE OnlyRowsAreUsed'
  <2>1. CASE PollReply(s) \/ DispatchSend(s)
    BY <1>4, <2>1 DEF PollReply, DispatchSend
  <2>2. ASSUME NEW c \in Cmds, FlushSend(s, c) PROVE OnlyRowsAreUsed'
    <3>1. c \in sess[s].todo
      BY <2>2 DEF FlushSend, FlushAt, Oldest
    <3>2. batch' = batch /\ reports' = reports
          /\ inbox' \subseteq inbox \cup sess[s].todo \cup sess[s].done
      BY <2>2, <3>1 DEF FlushSend
    <3>3. QED
      BY <1>4, <3>2
  <2>3. QED
    BY <1>3, <1>5, <2>1, <2>2
       DEF Handler, Continue, ResultRead, DispatchEnqueue, DispatchRead, DispatchCommit,
           PollRead, PollCommit, FlushRead, FlushExpire, FlushCommit, FlushCount,
           FlushDone, AckRead, ReportCommit
<1>6. ASSUME Watchdog PROVE OnlyRowsAreUsed'
  <2>1. CASE WatchdogSelect
    BY <1>2, <2>1 DEF WatchdogSelect, InStatus
  <2>2. QED
    BY <1>3, <1>6, <2>1 DEF Watchdog, WatchdogSkip, WatchdogRequeue, WatchdogExpire
<1>7. ASSUME NEW c \in Cmds, NEW r \in Claims, Run(c, r) PROVE OnlyRowsAreUsed'
  BY <1>2, <1>7 DEF Run
<1>8. QED
  BY <1>3, <1>5, <1>6, <1>7 DEF Next, Enqueue, Crash, Abort, vars

(* The invariant holds at the start: there are no rows.                     *)
LEMMA InvInit == Init => IInv
<1> SUFFICES ASSUME Init PROVE IInv
  OBVIOUS
<1>1. TypeOK
  BY SessionTypes DEF Init, TypeOK
<1>2. \A c \in Cmds : row[c] = NoRow
  BY DEF Init, Blank
<1>3. HandlersHaveGrounds
  BY DEF Init, HandlersHaveGrounds, Grounded, Idle
<1>4. OnlyRowsAreUsed /\ LockedRowsFresh
  BY DEF Init, OnlyRowsAreUsed, LockedRowsFresh
<1>5. SuccessWasReported /\ FailureHasCause /\ RetryBudget
  BY <1>2, BoundsAssumption
     DEF NoRow, SuccessWasReported, FailureHasCause, RetryBudget
<1>6. QED
  BY <1>1, <1>3, <1>4, <1>5 DEF IInv

(* Every behaviour keeps the inductive invariant.                           *)
THEOREM Invariant == Spec => []IInv
<1>1. IInv /\ [Next]_vars => IInv'
  BY TypeStep, HandlersStep, RowsStep, RefsStep DEF IInv, RowsSafe
<1>2. QED
  BY InvInit, <1>1, PTL DEF Spec

(* Rows, handlers and reports keep their types: in particular a transition  *)
(* always has a target.                                                     *)
THEOREM TypeCorrect == Spec => []TypeOK
BY Invariant, PTL DEF IInv

(* A row that shows success was reported done by the agent.                 *)
THEOREM SuccessIsReported == Spec => []SuccessWasReported
BY Invariant, PTL DEF IInv

(* A row that shows failure was refused by the agent or used every retry.   *)
THEOREM FailureIsCaused == Spec => []FailureHasCause
BY Invariant, PTL DEF IInv

(* No outcome is made up: neither a success nor a failure.                  *)
THEOREM OutcomesAreCaused == Spec => []OutcomesHaveCause
BY Invariant, PTL DEF IInv, OutcomesHaveCause

(* A row the watchdog has locked is the DISPATCHED row it read.             *)
THEOREM LocksProtect == Spec => []LockedRowsFresh
BY Invariant, PTL DEF IInv

(* Every step of the engine is a step CommandPromise allows, or none of it. *)
LEMMA PromiseStep == IInv /\ [Next]_vars => [Promise!PNext]_(Promise!pvars)
<1> SUFFICES ASSUME IInv, [Next]_vars
             PROVE  Promise!PNext \/ UNCHANGED Promise!pvars
  BY DEF Promise!PNext, Promise!pvars
<1> DEFINE phase == [c \in Cmds |-> Phase(row[c].status)]
           tries == [c \in Cmds |-> row[c].attempts]
<1>1. /\ TypeOK /\ HandlersHaveGrounds /\ OnlyRowsAreUsed /\ RetryBudget
      /\ \A c \in Cmds : row[c] \in Row /\ row[c].attempts \in Nat
      /\ MaxRetries \in Nat
      /\ row \in [Cmds -> Row]
  BY BoundsAssumption DEF IInv, TypeOK, Row
<1>2. \A c \in Cmds : c \in Promise!Accepted <=> row[c].status # "ABSENT"
  BY DEF Promise!Accepted, Phase
<1>3. ASSUME row' = row, reports' = reports PROVE UNCHANGED Promise!pvars
  BY <1>3 DEF Promise!pvars, Phase
<1>4. ASSUME NEW c \in Cmds, NEW st \in Status, row' = [row EXCEPT ![c].status = st],
             reports' = reports
      PROVE  /\ phase' = [phase EXCEPT ![c] = Phase(st)]
             /\ tries' = tries
  <2>1. /\ row'[c].status = st /\ row'[c].attempts = row[c].attempts
        /\ \A d \in Cmds \ {c} : row'[d] = row[d]
    BY <1>1, <1>4 DEF Row
  <2>2. QED
    BY <2>1 DEF Phase
<1>5. ASSUME NEW c \in Cmds, row' = [row EXCEPT ![c].status = "PENDING"],
             row[c].status = "ABSENT", reports' = reports
      PROVE  Promise!PNext
  <2>1. phase' = [phase EXCEPT ![c] = "open"] /\ tries' = tries
    <3>1. "PENDING" \in Status /\ Phase("PENDING") = "open"
      BY DEF Phase, Status
    <3>2. QED
      BY <1>4, <1>5, <3>1
  <2>2. Promise!Accept(c)
    BY <1>2, <1>5, <2>1 DEF Promise!Accept
  <2>3. QED
    BY <2>2 DEF Promise!PNext
<1>6. ASSUME NEW c \in Cmds, NEW st \in {"PENDING", "DISPATCHED", "EXECUTED"},
             row' = [row EXCEPT ![c].status = st],
             row[c].status # "ABSENT", reports' = reports
      PROVE  Promise!PNext
  <2>1. Promise!Reopen(c)
    BY <1>2, <1>4, <1>6 DEF Promise!Reopen, Phase, Status
  <2>2. QED
    BY <2>1 DEF Promise!PNext
<1>7. ASSUME NEW c \in Cmds, row' = [row EXCEPT ![c].status = "FAILED"],
             row[c].status # "ABSENT", reports' = reports,
             <<c, "FAILED">> \in reports \/ row[c].attempts >= MaxRetries
      PROVE  Promise!PNext
  <2>1. <<c, "FAILED">> \in reports \/ row[c].attempts = MaxRetries
    BY <1>1, <1>7 DEF RetryBudget
  <2>2. Promise!GiveUp(c)
    BY <1>2, <1>4, <1>7, <2>1 DEF Promise!GiveUp, Phase, Status, Terminal
  <2>3. QED
    BY <2>2 DEF Promise!PNext
<1>8. ASSUME NEW c \in Cmds, row' = [row EXCEPT ![c].status = "ACKED"],
             reports' = reports, <<c, "EXECUTED">> \in reports
      PROVE  Promise!PNext
  <2>1. Promise!Finish(c)
    BY <1>4, <1>8 DEF Promise!Finish, Phase, Status, Terminal
  <2>2. QED
    BY <2>1 DEF Promise!PNext
<1>9. ASSUME NEW c \in Cmds, Enqueue(c) PROVE Promise!PNext
  BY <1>5, <1>9 DEF Enqueue, NextId
<1>10. ASSUME NEW s \in Sessions, NEW c \in Cmds, DispatchEnqueue(s, c) PROVE Promise!PNext
  BY <1>5, <1>10 DEF DispatchEnqueue, NextId
<1>11. ASSUME NEW s \in Sessions, NEW c \in Cmds,
              DispatchCommit(s, c) \/ PollCommit(s, c) \/ FlushCommit(s, c)
       PROVE  Promise!PNext \/ UNCHANGED Promise!pvars
  <2>1. row[c].status # "ABSENT" /\ reports' = reports
    BY <1>1, <1>11 DEF DispatchCommit, PollCommit, FlushCommit, FlushAt, Oldest,
                       HandlersHaveGrounds, Grounded
  <2>2. CASE row' = [row EXCEPT ![c].status = "DISPATCHED"]
    BY <1>6, <2>1, <2>2
  <2>3. CASE row' = row
    BY <1>3, <2>1, <2>3
  <2>4. QED
    BY <1>11, <2>2, <2>3 DEF DispatchCommit, PollCommit, FlushCommit, SetStatus
<1>12. ASSUME NEW s \in Sessions, NEW c \in Cmds, FlushExpire(s, c) PROVE Promise!PNext
  <2>1. /\ row[c].status # "ABSENT"
        /\ sess[s].snap[c].attempts <= row[c].attempts
    BY <1>1, <1>12 DEF FlushExpire, FlushAt, Oldest, HandlersHaveGrounds, Grounded
  <2>2. sess[s].snap[c].attempts \in Nat /\ sess[s].snap[c].attempts >= MaxRetries
    BY <1>1, <1>12 DEF FlushExpire, TypeOK, Session, Row
  <2>3. row[c].attempts >= MaxRetries
    BY <1>1, <2>1, <2>2
  <2>4. QED
    BY <1>7, <1>12, <2>1, <2>3 DEF FlushExpire, SetStatus
<1>13. ASSUME NEW s \in Sessions, NEW c \in Cmds, FlushCount(s, c)
       PROVE  UNCHANGED Promise!pvars
  <2>1. /\ \A d \in Cmds : /\ row'[d].status = row[d].status
                            /\ row'[d].attempts = row[d].attempts
        /\ reports' = reports
    BY <1>1, <1>13 DEF FlushCount, Row
  <2>2. QED
    BY <2>1 DEF Promise!pvars, Phase
<1>14. ASSUME NEW s \in Sessions, NEW c \in Cmds, ReportCommit(s, c) PROVE Promise!PNext
  <2>. DEFINE r   == sess[s].claim
              old == sess[s].snap[c].status
              st  == Target(r, old)
  <2>1. /\ row' = [row EXCEPT ![c].status = st] /\ reports' = reports
        /\ row[c].status # "ABSENT"
        /\ r \in Claims /\ <<c, r>> \in reports /\ old \in Wanted(r)
        /\ old = "EXECUTED" => <<c, "EXECUTED">> \in reports
    BY <1>1, <1>14 DEF ReportCommit, SetStatus, HandlersHaveGrounds, Grounded, TypeOK, Session
  <2>2. \/ st \in {"DISPATCHED", "EXECUTED"}
        \/ st = "FAILED" /\ r = "FAILED"
        \/ st = "ACKED" /\ <<c, "EXECUTED">> \in reports
    BY <2>1 DEF Wanted, Target, Pipeline, Claims
  <2>3. QED
    BY <1>6, <1>7, <1>8, <2>1, <2>2
<1>15. ASSUME NEW c \in Cmds, WatchdogRequeue(c) PROVE Promise!PNext
  <2>1. /\ row'[c].status = "PENDING" /\ row'[c].attempts = row[c].attempts + 1
        /\ row[c].attempts < MaxRetries
        /\ \A d \in Cmds \ {c} : row'[d] = row[d]
        /\ reports' = reports
    BY <1>1, <1>15 DEF WatchdogRequeue, Row
  <2>2. row[c].status # "ABSENT"
    BY <1>1, <1>15 DEF WatchdogRequeue, OnlyRowsAreUsed
  <2>3. Promise!Retry(c)
    BY <1>2, <2>1, <2>2 DEF Promise!Retry, Phase
  <2>4. QED
    BY <2>3 DEF Promise!PNext
<1>16. ASSUME NEW c \in Cmds, WatchdogExpire(c) PROVE Promise!PNext
  <2>1. row[c].status # "ABSENT"
    BY <1>1, <1>16 DEF WatchdogExpire, OnlyRowsAreUsed
  <2>2. QED
    BY <1>7, <1>16, <2>1 DEF WatchdogExpire
<1>17. ASSUME NEW c \in Cmds, NEW r \in Claims, Run(c, r)
       PROVE  Promise!PNext \/ UNCHANGED Promise!pvars
  <2>1. c \in Promise!Accepted
    BY <1>1, <1>2, <1>17 DEF Run, OnlyRowsAreUsed
  <2>2. row' = row /\ reports' = reports \cup {<<c, r>>}
    BY <1>17 DEF Run
  <2>3. CASE r = "EXECUTED"
    <3>1. Promise!Confirm(c)
      BY <2>1, <2>2, <2>3 DEF Promise!Confirm, Phase
    <3>2. QED
      BY <3>1 DEF Promise!PNext
  <2>4. CASE r = "FAILED"
    <3>1. Promise!Refuse(c)
      BY <2>1, <2>2, <2>4 DEF Promise!Refuse, Phase
    <3>2. QED
      BY <3>1 DEF Promise!PNext
  <2>5. CASE r = "ACKED"
    BY <2>2, <2>5 DEF Promise!pvars, Phase
  <2>6. QED
    BY <2>3, <2>4, <2>5 DEF Claims
<1>18. ASSUME row' = row, reports' = reports
       PROVE  Promise!PNext \/ UNCHANGED Promise!pvars
  BY <1>3, <1>18
<1>19. QED
  BY <1>9, <1>10, <1>11, <1>12, <1>13, <1>14, <1>15, <1>16, <1>17, <1>18
     DEF Next, Handler, Continue, ResultRead, Watchdog, DispatchRead, DispatchSend,
         PollRead, PollReply, FlushRead, FlushSend, FlushDone, AckRead,
         WatchdogSelect, WatchdogSkip, Crash, Abort, vars

(* The engine implements CommandPromise: whatever handlers overlap, crash or *)
(* work on stale rows, the dashboard sees only what the promise allows.     *)
THEOREM Refinement == Spec => PromiseKept
<1>1. Init => Promise!PInit
  BY DEF Init, Promise!PInit, Blank, NoRow, Phase
<1>2. QED
  BY Invariant, PromiseStep, <1>1, PTL DEF Spec, PromiseKept, Promise!PSpec

=============================================================================
