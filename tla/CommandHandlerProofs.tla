------------------------ MODULE CommandHandlerProofs ------------------------
(***************************************************************************)
(* The agent's marks, for any number of commands and of workers: EXECUTED  *)
(* stands for a run, and a second run has a cause.                         *)
(***************************************************************************)
EXTENDS CommandHandler, SequenceTheorems, TLAPS

USE DEF worker, backend

\* A worker is at one command.
LEMMA AtOne ==
    ASSUME TypeOK, NEW w \in Workers, NEW c \in Cmds, NEW d \in Cmds, At(w, c), At(w, d)
    PROVE  c = d
BY CommandHandlerBounds DEF At

\* What the offline queue holds after an event is added was there or is the event.
LEMMA EnqueuedIsKnown ==
    ASSUME TypeOK, NEW e \in Event
    PROVE  /\ Enqueued(e) \in Seq(Event) /\ Len(Enqueued(e)) <= MaxQueue
           /\ \A i \in 1 .. Len(Enqueued(e)) :
                 Enqueued(e)[i] = e \/ \E j \in 1 .. Len(queue) : Enqueued(e)[i] = queue[j]
<1> DEFINE kept == IF Len(queue) < MaxQueue THEN queue ELSE SubSeq(queue, 1, Len(queue) - 1)
<1>1. queue \in Seq(Event) /\ Len(queue) \in Nat /\ Len(queue) <= MaxQueue /\ MaxQueue \in Nat \ {0}
  BY CommandHandlerBounds DEF TypeOK
<1>2. kept \in Seq(Event) /\ Len(kept) < MaxQueue /\ Len(kept) <= Len(queue)
      /\ \A i \in 1 .. Len(kept) : kept[i] = queue[i]
  <2>1. CASE Len(queue) < MaxQueue
    BY <1>1, <2>1
  <2>2. CASE Len(queue) = MaxQueue
    BY <1>1, <2>2, SubSeqProperties
  <2> QED
    BY <1>1, <2>1, <2>2
<1>3. Enqueued(e) = Append(kept, e)
  BY DEF Enqueued
<1> HIDE DEF kept
<1>4. /\ Append(kept, e) \in Seq(Event) /\ Len(Append(kept, e)) = Len(kept) + 1
      /\ \A i \in 1 .. Len(kept) : Append(kept, e)[i] = kept[i]
      /\ Append(kept, e)[Len(kept) + 1] = e
  BY <1>2, AppendProperties
<1>5. Len(kept) \in Nat
  BY <1>2
<1> QED
  BY <1>1, <1>2, <1>3, <1>4, <1>5

LEMMA InitHInv == Init => HInv
<1> SUFFICES ASSUME Init PROVE HInv
  OBVIOUS
<1>1. TypeOK
  BY CommandHandlerBounds DEF Init, TypeOK, Results
<1>2. ClaimsAreTrue /\ ExecutedWasRun /\ IdleWhenDone
  BY DEF Init, ClaimsAreTrue, ExecutedWasRun, IdleWhenDone, At
<1>3. \A w \in Workers, c \in Cmds : ~At(w, c) /\ ~Busy(w, c)
  BY DEF Init, At, Busy
<1>4. \A c \in Cmds : runs[c] = 0
  BY DEF Init
<1>5. OnceUnlessCause
  <2> SUFFICES ASSUME NEW c \in Cmds
               PROVE  /\ \A v, w \in Workers : Busy(v, c) /\ Busy(w, c) => v = w
                      /\ \A w \in Workers :
                           Busy(w, c) => c \notin marks /\ (pc[w] = "running" => runs[c] = 0)
                      /\ runs[c] <= 1
                      /\ ~Ran(c)
    BY DEF OnceUnlessCause
  <2>1. ~Ran(c) /\ runs[c] <= 1
    BY <1>4 DEF Ran
  <2> QED
    BY <1>3, <2>1
<1> QED
  BY <1>1, <1>2, <1>5 DEF HInv

-----------------------------------------------------------------------------
LEMMA FetchKeeps ==
    ASSUME HInv, NEW w \in Workers, NEW T \in SUBSET Cmds, Fetch(w, T)
    PROVE  HInv'
<1> USE DEF HInv
<1>1. TypeOK'
  BY DEF TypeOK, Fetch
<1>2. pc[w] = "idle"
  BY DEF Fetch, IdleWhenDone
<1>3. \A v \in Workers, c \in Cmds : pc[v] # "idle" => (At(v, c)' <=> At(v, c))
  BY <1>2 DEF At, Fetch, TypeOK
<1>4. ClaimsAreTrue' /\ ExecutedWasRun'
  BY <1>3 DEF ClaimsAreTrue, ExecutedWasRun, Ran, Fetch
<1>5. IdleWhenDone'
  BY <1>2 DEF IdleWhenDone, Fetch, TypeOK
<1>6. \A v \in Workers, c \in Cmds : Busy(v, c)' <=> Busy(v, c)
  BY <1>3 DEF Busy, Fetch
<1>7. OnceUnlessCause'
  BY <1>3, <1>6 DEF OnceUnlessCause, Ran, Fetch
<1> QED
  BY <1>1, <1>4, <1>5, <1>7

LEMMA SkipKeeps ==
    ASSUME HInv, NEW w \in Workers, NEW c \in Cmds, Skip(w, c)
    PROVE  HInv'
<1> USE DEF HInv
<1>1. TypeOK'
  BY DEF TypeOK, Skip, Results
<1>2. \A v \in Workers, d \in Cmds : At(v, d)' <=> At(v, d)
  BY DEF At, Skip
<1>3. Ran(c) /\ \A d \in Cmds : At(w, d) => d = c
  BY AtOne DEF Skip, ClaimsAreTrue
<1>4. ClaimsAreTrue' /\ ExecutedWasRun'
  BY <1>2, <1>3 DEF ClaimsAreTrue, ExecutedWasRun, Ran, Skip, TypeOK
<1>5. IdleWhenDone'
  BY DEF IdleWhenDone, Skip, TypeOK, At
<1>6. \A v \in Workers, d \in Cmds : Busy(v, d)' <=> Busy(v, d)
  BY <1>2 DEF Busy, Skip, TypeOK
<1>7. \A v \in Workers : pc[v] \in {"running", "marking"} => pc'[v] = pc[v]
  BY DEF Skip, TypeOK
<1>8. OnceUnlessCause'
  BY <1>2, <1>6, <1>7 DEF OnceUnlessCause, Ran, Skip, Busy
<1> QED
  BY <1>1, <1>4, <1>5, <1>8

LEMMA BeginKeeps ==
    ASSUME HInv, NEW w \in Workers, NEW c \in Cmds, Begin(w, c)
    PROVE  HInv'
<1> USE DEF HInv
<1>1. TypeOK'
  BY DEF TypeOK, Begin
<1>2. \A v \in Workers, d \in Cmds : At(v, d)' <=> At(v, d)
  BY DEF At, Begin
<1>3. At(w, c) /\ (\A d \in Cmds : At(w, d) => d = c) /\ c \notin marks /\ pc[w] = "idle"
      /\ pc' = [pc EXCEPT ![w] = "running"]
  BY AtOne DEF Begin
<1>4. ClaimsAreTrue' /\ ExecutedWasRun'
  BY <1>2, <1>3 DEF ClaimsAreTrue, ExecutedWasRun, Ran, Begin, TypeOK
<1>5. IdleWhenDone'
  BY <1>3 DEF IdleWhenDone, Begin, TypeOK, At
<1>6. \A v \in Workers, d \in Cmds : Busy(v, d)' <=> Busy(v, d) \/ (v = w /\ d = c)
  BY <1>2, <1>3 DEF Busy, TypeOK
<1>7. \A v \in Workers : v # w => pc'[v] = pc[v]
  BY <1>3 DEF TypeOK
<1>8. OnceUnlessCause'
  <2> SUFFICES ASSUME NEW d \in Cmds, d \notin overlap', kills = 0
               PROVE  /\ \A v, u \in Workers : Busy(v, d)' /\ Busy(u, d)' => v = u
                      /\ \A v \in Workers :
                           Busy(v, d)' => d \notin marks /\ (pc'[v] = "running" => runs[d] = 0)
                      /\ runs[d] <= 1
                      /\ Ran(d) => d \in marks \/ \E v \in Workers : At(v, d)' /\ pc'[v] = "marking"
    BY DEF OnceUnlessCause, Begin, Ran, TypeOK
  <2>1. d \notin overlap
    BY DEF Begin, TypeOK
  <2>2. /\ \A v, u \in Workers : Busy(v, d) /\ Busy(u, d) => v = u
        /\ \A v \in Workers : Busy(v, d) => d \notin marks /\ (pc[v] = "running" => runs[d] = 0)
        /\ runs[d] <= 1
        /\ Ran(d) => d \in marks \/ \E v \in Workers : At(v, d) /\ pc[v] = "marking"
    BY <2>1 DEF OnceUnlessCause
  <2>3. \A v \in Workers : pc[v] = "marking" => pc'[v] = "marking"
    BY <1>3, <1>7 DEF TypeOK
  <2>4. CASE d = c
    <3>1. \A v \in Workers \ {w} : ~Busy(v, c)
      BY <2>4 DEF Begin
    <3>2. ~Ran(c)
      BY <1>3, <2>2, <2>4, <3>1 DEF Busy
    <3>3. runs[c] = 0
      BY <3>2 DEF Ran, TypeOK
    <3> QED
      BY <1>3, <1>6, <2>4, <3>1, <3>2, <3>3
  <2>5. CASE d # c
    <3>1. \A v \in Workers : Busy(v, d)' <=> Busy(v, d)
      BY <1>6, <2>5
    <3>2. \A v \in Workers : Busy(v, d) => pc'[v] = pc[v]
      BY <1>3, <1>7 DEF Busy
    <3> QED
      BY <1>2, <2>2, <2>3, <3>1, <3>2
  <2> QED
    BY <2>4, <2>5
<1> QED
  BY <1>1, <1>4, <1>5, <1>8

LEMMA SucceedKeeps ==
    ASSUME HInv, NEW w \in Workers, NEW c \in Cmds, Succeed(w, c)
    PROVE  HInv'
<1> USE DEF HInv
<1>1. TypeOK'
  BY CommandHandlerBounds DEF TypeOK, Succeed
<1>2. \A v \in Workers, d \in Cmds : At(v, d)' <=> At(v, d)
  BY DEF At, Succeed
<1>3. At(w, c) /\ (\A d \in Cmds : At(w, d) => d = c) /\ pc[w] = "running"
      /\ pc' = [pc EXCEPT ![w] = "marking"]
  BY AtOne DEF Succeed
<1>4. Ran(c)' /\ \A d \in Cmds : Ran(d) => Ran(d)'
  BY CommandHandlerBounds DEF Ran, Succeed, TypeOK
<1>5. ClaimsAreTrue'
  <2>1. \A d \in Cmds : d \in marks' \cup disk' => Ran(d)'
    BY <1>4 DEF ClaimsAreTrue, Succeed
  <2>2. ASSUME NEW v \in Workers, NEW d \in Cmds, At(v, d)'
        PROVE  /\ pc'[v] = "marking" => Ran(d)'
               /\ pc'[v] = "telling" /\ told'[v] = "EXECUTED" => Ran(d)'
    <3>1. CASE v = w
      BY <1>2, <1>3, <1>4, <2>2, <3>1
    <3>2. CASE v # w
      BY <1>2, <1>3, <1>4, <2>2, <3>2 DEF ClaimsAreTrue, Succeed, TypeOK
    <3> QED
      BY <3>1, <3>2
  <2>3. ASSUME NEW i \in 1 .. Len(queue), queue[i].status = "EXECUTED"
        PROVE  runs'[queue[i].cmd] > 0
    <3>1. queue[i] \in Event
      BY DEF TypeOK
    <3> QED
      BY <1>4, <2>3, <3>1 DEF ClaimsAreTrue, Event, Ran
  <2>4. queue' = queue
    BY DEF Succeed
  <2> QED
    BY <1>1, <2>1, <2>2, <2>3, <2>4 DEF ClaimsAreTrue, TypeOK, Ran
<1>6. ExecutedWasRun'
  BY <1>4 DEF ExecutedWasRun, Succeed
<1>7. IdleWhenDone'
  BY <1>3 DEF IdleWhenDone, Succeed, TypeOK, At
<1>8. \A v \in Workers, d \in Cmds : Busy(v, d)' <=> Busy(v, d)
  BY <1>2, <1>3 DEF Busy, TypeOK
<1>9. \A v \in Workers : v # w => pc'[v] = pc[v]
  BY <1>3 DEF TypeOK
<1>10. OnceUnlessCause'
  <2> SUFFICES ASSUME NEW d \in Cmds, d \notin overlap, kills = 0
               PROVE  /\ \A v, u \in Workers : Busy(v, d)' /\ Busy(u, d)' => v = u
                      /\ \A v \in Workers :
                           Busy(v, d)' => d \notin marks /\ (pc'[v] = "running" => runs'[d] = 0)
                      /\ runs'[d] <= 1
                      /\ Ran(d)' => d \in marks \/ \E v \in Workers : At(v, d)' /\ pc'[v] = "marking"
    BY DEF OnceUnlessCause, Succeed, TypeOK
  <2>1. /\ \A v, u \in Workers : Busy(v, d) /\ Busy(u, d) => v = u
        /\ \A v \in Workers : Busy(v, d) => d \notin marks /\ (pc[v] = "running" => runs[d] = 0)
        /\ runs[d] <= 1
        /\ Ran(d) => d \in marks \/ \E v \in Workers : At(v, d) /\ pc[v] = "marking"
    BY DEF OnceUnlessCause
  <2>2. pc'[w] = "marking"
    BY <1>3 DEF TypeOK
  <2>3. CASE d = c
    <3>1. Busy(w, c) /\ runs[c] = 0
      BY <1>3, <2>1, <2>3 DEF Busy
    <3>2. runs'[c] = 1
      BY <3>1, CommandHandlerBounds DEF Succeed, TypeOK
    <3> QED
      BY <1>2, <1>3, <1>8, <2>1, <2>2, <2>3, <3>1, <3>2
  <2>4. CASE d # c
    <3>1. runs'[d] = runs[d] /\ (Ran(d)' <=> Ran(d))
      BY <2>4 DEF Succeed, TypeOK, Ran
    <3>2. \A v \in Workers : pc[v] = "marking" => pc'[v] = "marking"
      BY <1>9, <2>2
    <3>3. \A v \in Workers : Busy(v, d) => pc'[v] = pc[v]
      BY <1>3, <1>9, <2>4 DEF Busy
    <3> QED
      BY <1>2, <1>8, <2>1, <3>1, <3>2, <3>3
  <2> QED
    BY <2>3, <2>4
<1> QED
  BY <1>1, <1>5, <1>6, <1>7, <1>10

\* A step that leaves pc[w] among the other workers' places and every claim true.
LEMMA FailKeeps ==
    ASSUME HInv, NEW w \in Workers, NEW c \in Cmds, Fail(w, c)
    PROVE  HInv'
<1> USE DEF HInv
<1>1. TypeOK'
  BY DEF TypeOK, Fail, Results
<1>2. \A v \in Workers, d \in Cmds : At(v, d)' <=> At(v, d)
  BY DEF At, Fail
<1>3. At(w, c) /\ (\A d \in Cmds : At(w, d) => d = c) /\ pc[w] = "running"
      /\ pc' = [pc EXCEPT ![w] = "telling"] /\ told' = [told EXCEPT ![w] = "FAILED"]
  BY AtOne DEF Fail
<1>4. ClaimsAreTrue' /\ ExecutedWasRun'
  BY <1>2, <1>3 DEF ClaimsAreTrue, ExecutedWasRun, Ran, Fail, TypeOK
<1>5. IdleWhenDone'
  BY <1>3 DEF IdleWhenDone, Fail, TypeOK, At
<1>6. \A v \in Workers, d \in Cmds : Busy(v, d)' => Busy(v, d) /\ pc'[v] = pc[v]
  BY <1>2, <1>3 DEF Busy, TypeOK
<1>7. \A v \in Workers : pc[v] = "marking" => pc'[v] = "marking"
  BY <1>3 DEF TypeOK
<1>8. OnceUnlessCause'
  BY <1>2, <1>6, <1>7 DEF OnceUnlessCause, Ran, Fail
<1> QED
  BY <1>1, <1>4, <1>5, <1>8

LEMMA MarkKeeps ==
    ASSUME HInv, NEW w \in Workers, NEW c \in Cmds, Mark(w, c)
    PROVE  HInv'
<1> USE DEF HInv
<1>1. TypeOK'
  BY DEF TypeOK, Mark, Results
<1>2. \A v \in Workers, d \in Cmds : At(v, d)' <=> At(v, d)
  BY DEF At, Mark
<1>3. /\ At(w, c) /\ (\A d \in Cmds : At(w, d) => d = c) /\ pc[w] = "marking"
      /\ pc' = [pc EXCEPT ![w] = "telling"] /\ marks' = marks \cup {c} /\ Ran(c)
  BY AtOne DEF Mark, ClaimsAreTrue
<1>4. ClaimsAreTrue' /\ ExecutedWasRun'
  BY <1>2, <1>3 DEF ClaimsAreTrue, ExecutedWasRun, Ran, Mark, TypeOK
<1>5. IdleWhenDone'
  BY <1>3 DEF IdleWhenDone, Mark, TypeOK, At
<1>6. \A v \in Workers, d \in Cmds : Busy(v, d)' => Busy(v, d) /\ v # w /\ pc'[v] = pc[v]
  BY <1>2, <1>3 DEF Busy, TypeOK
<1>7. \A v \in Workers : v # w => pc'[v] = pc[v]
  BY <1>3 DEF TypeOK
<1>8. OnceUnlessCause'
  <2> SUFFICES ASSUME NEW d \in Cmds, d \notin overlap, kills = 0
               PROVE  /\ \A v, u \in Workers : Busy(v, d)' /\ Busy(u, d)' => v = u
                      /\ \A v \in Workers :
                           Busy(v, d)' => d \notin marks' /\ (pc'[v] = "running" => runs[d] = 0)
                      /\ runs[d] <= 1
                      /\ Ran(d) => d \in marks' \/ \E v \in Workers : At(v, d)' /\ pc'[v] = "marking"
    BY DEF OnceUnlessCause, Mark, Ran, TypeOK
  <2>1. /\ \A v, u \in Workers : Busy(v, d) /\ Busy(u, d) => v = u
        /\ \A v \in Workers : Busy(v, d) => d \notin marks /\ (pc[v] = "running" => runs[d] = 0)
        /\ runs[d] <= 1
        /\ Ran(d) => d \in marks \/ \E v \in Workers : At(v, d) /\ pc[v] = "marking"
    BY DEF OnceUnlessCause
  <2>2. CASE d = c
    <3>1. Busy(w, c)
      BY <1>3 DEF Busy
    <3>2. \A v \in Workers : ~Busy(v, c)'
      BY <1>6, <2>1, <2>2, <3>1
    <3> QED
      BY <1>3, <2>1, <2>2, <3>2
  <2>3. CASE d # c
    BY <1>2, <1>3, <1>6, <1>7, <2>1, <2>3
  <2> QED
    BY <2>2, <2>3
<1> QED
  BY <1>1, <1>4, <1>5, <1>8

\* Steps that are none of the workers'.
LEMMA OnceStays ==
    ASSUME HInv, UNCHANGED <<todo, pc, marks, runs, overlap, kills>>
    PROVE  OnceUnlessCause' /\ IdleWhenDone'
<1>1. \A v \in Workers, d \in Cmds :
         (Busy(v, d)' <=> Busy(v, d)) /\ (At(v, d)' <=> At(v, d))
  BY DEF Busy, At
<1>2. \A d \in Cmds : Ran(d)' <=> Ran(d)
  BY DEF Ran
<1> QED
  BY <1>1, <1>2 DEF HInv, OnceUnlessCause, IdleWhenDone

LEMMA PersistKeeps ==
    ASSUME HInv, Persist
    PROVE  HInv'
<1> USE DEF HInv
<1>1. TypeOK'
  BY DEF TypeOK, Persist
<1>2. \A v \in Workers, d \in Cmds : (At(v, d)' <=> At(v, d)) /\ (Busy(v, d)' <=> Busy(v, d))
  BY DEF At, Busy, Persist
<1>3. ClaimsAreTrue' /\ ExecutedWasRun'
  BY <1>2 DEF ClaimsAreTrue, ExecutedWasRun, Ran, Persist
<1>4. OnceUnlessCause' /\ IdleWhenDone'
  BY OnceStays DEF Persist
<1> QED
  BY <1>1, <1>3, <1>4

-----------------------------------------------------------------------------
\* Finishing a command disturbs no other worker and no busy one.
LEMMA NextCommandFrees ==
    ASSUME HInv, NEW w \in Workers, NEW c \in Cmds, NextCommand(w, c), pc[w] = "telling"
    PROVE  /\ todo' \in [Workers -> SUBSET Cmds] /\ pc' \in [Workers -> {"idle", "running", "marking", "telling"}]
           /\ pc'[w] = "idle"
           /\ \A v \in Workers : pc'[v] # "idle" => v # w /\ pc'[v] = pc[v] /\ todo'[v] = todo[v]
           /\ \A v \in Workers, d \in Cmds : pc'[v] # "idle" => (At(v, d)' <=> At(v, d))
           /\ \A v \in Workers, d \in Cmds : Busy(v, d)' <=> Busy(v, d)
           /\ \A v \in Workers : pc[v] = "marking" => pc'[v] = "marking" /\ v # w
           /\ IdleWhenDone'
<1> USE DEF HInv
<1>1. /\ todo' \in [Workers -> SUBSET Cmds] /\ pc' \in [Workers -> {"idle", "running", "marking", "telling"}]
      /\ pc'[w] = "idle"
      /\ \A v \in Workers : v # w => pc'[v] = pc[v] /\ todo'[v] = todo[v]
  BY DEF NextCommand, TypeOK
<1>2. \A v \in Workers, d \in Cmds : v # w => (At(v, d)' <=> At(v, d))
  BY <1>1 DEF At
<1>3. \A v \in Workers, d \in Cmds : Busy(v, d)' <=> Busy(v, d)
  BY <1>1, <1>2 DEF Busy
<1>4. IdleWhenDone'
  BY <1>1 DEF IdleWhenDone
<1> QED
  BY <1>1, <1>2, <1>3, <1>4

\* A step of the finishing worker that changes nothing else the proof looks at.
LEMMA FinishKeepsOnce ==
    ASSUME HInv, NEW w \in Workers, NEW c \in Cmds, NextCommand(w, c), pc[w] = "telling",
           UNCHANGED <<marks, runs, overlap, kills>>
    PROVE  OnceUnlessCause'
<1>1. \A v \in Workers, d \in Cmds : Busy(v, d)' <=> Busy(v, d)
  BY NextCommandFrees
<1>2. \A v \in Workers, d \in Cmds : Busy(v, d) => pc'[v] = pc[v]
  BY DEF Busy, NextCommand, HInv, TypeOK
<1>3. \A v \in Workers, d \in Cmds :
         At(v, d) /\ pc[v] = "marking" => At(v, d)' /\ pc'[v] = "marking"
  BY NextCommandFrees
<1> QED
  BY <1>1, <1>2, <1>3 DEF OnceUnlessCause, HInv, Ran

LEMMA ToldKeeps ==
    ASSUME HInv, NEW w \in Workers, NEW c \in Cmds, Told(w, c)
    PROVE  HInv'
<1> USE DEF HInv
<1>1. NextCommand(w, c) /\ pc[w] = "telling" /\ UNCHANGED <<told, marks, disk, runs, overlap, queue, kills>>
  BY DEF Told
<1>2. told[w] \in Results /\ (told[w] = "EXECUTED" => Ran(c))
  BY DEF Told, ClaimsAreTrue, TypeOK
<1>3. TypeOK'
  BY <1>1, <1>2, NextCommandFrees DEF TypeOK, Told, Settle
<1>4. ClaimsAreTrue'
  BY <1>1, NextCommandFrees DEF ClaimsAreTrue, Ran
<1>5. ExecutedWasRun'
  BY <1>1, <1>2 DEF ExecutedWasRun, Told, Settle, Ran, TypeOK
<1>6. IdleWhenDone' /\ OnceUnlessCause'
  BY <1>1, NextCommandFrees, FinishKeepsOnce
<1> QED
  BY <1>3, <1>4, <1>5, <1>6

LEMMA NotToldKeeps ==
    ASSUME HInv, NEW w \in Workers, NEW c \in Cmds, NotTold(w, c)
    PROVE  HInv'
<1> USE DEF HInv
<1> DEFINE e == [cmd |-> c, status |-> told[w]]
<1>1. NextCommand(w, c) /\ pc[w] = "telling" /\ UNCHANGED <<told, marks, disk, runs, overlap, kills>>
      /\ queue' = Enqueued(e)
  BY DEF NotTold
<1>2. told[w] \in Results /\ (told[w] = "EXECUTED" => Ran(c)) /\ e \in Event
  BY DEF NotTold, ClaimsAreTrue, TypeOK, Event
<1>3. /\ queue' \in Seq(Event) /\ Len(queue') <= MaxQueue
      /\ \A i \in 1 .. Len(queue') :
            queue'[i] = e \/ \E j \in 1 .. Len(queue) : queue'[i] = queue[j]
  BY <1>1, <1>2, EnqueuedIsKnown
<1>4. settled' = settled \/ Settle(c, told[w])
  BY DEF NotTold
<1>5. TypeOK'
  BY <1>1, <1>2, <1>3, <1>4, NextCommandFrees DEF TypeOK, Settle
<1>6. ClaimsAreTrue'
  <2>1. ASSUME NEW i \in 1 .. Len(queue'), queue'[i].status = "EXECUTED"
        PROVE  runs[queue'[i].cmd] > 0
    <3>1. CASE queue'[i] = e
      BY <1>2, <2>1, <3>1 DEF Ran
    <3>2. CASE \E j \in 1 .. Len(queue) : queue'[i] = queue[j]
      BY <2>1, <3>2 DEF ClaimsAreTrue, Ran
    <3> QED
      BY <1>3, <3>1, <3>2
  <2> QED
    BY <1>1, <2>1, NextCommandFrees DEF ClaimsAreTrue, Ran
<1>7. ExecutedWasRun'
  BY <1>1, <1>2, <1>4 DEF ExecutedWasRun, Settle, Ran, TypeOK
<1>8. IdleWhenDone' /\ OnceUnlessCause'
  BY <1>1, NextCommandFrees, FinishKeepsOnce
<1> QED
  BY <1>5, <1>6, <1>7, <1>8

LEMMA FlushKeeps ==
    ASSUME HInv, Flush
    PROVE  HInv'
<1> USE DEF HInv
<1>1. /\ queue \in Seq(Event) /\ queue # << >> /\ queue' = Tail(queue)
      /\ UNCHANGED <<todo, pc, told, marks, disk, runs, overlap, kills>>
  BY DEF Flush, TypeOK
<1>2. /\ queue' \in Seq(Event) /\ Len(queue') = Len(queue) - 1
      /\ \A i \in 1 .. Len(queue') : queue'[i] = queue[i + 1]
  BY <1>1, HeadTailProperties
<1>3. Head(queue) = queue[1] /\ queue[1] \in Event /\ Len(queue) \in Nat /\ Len(queue) >= 1
  BY <1>1, EmptySeq
<1>4. TypeOK'
  BY <1>1, <1>2, <1>3, CommandHandlerBounds DEF TypeOK, Flush, Settle, Event
<1>5. ClaimsAreTrue'
  <2>1. ASSUME NEW i \in 1 .. Len(queue'), queue'[i].status = "EXECUTED"
        PROVE  runs[queue'[i].cmd] > 0
    BY <1>2, <1>3, <2>1 DEF ClaimsAreTrue, Ran
  <2>2. \A v \in Workers, d \in Cmds : At(v, d)' <=> At(v, d)
    BY <1>1 DEF At
  <2> QED
    BY <1>1, <2>1, <2>2 DEF ClaimsAreTrue, Ran
<1>6. ExecutedWasRun'
  <2>1. queue[1].status = "EXECUTED" => Ran(queue[1].cmd)
    BY <1>3 DEF ClaimsAreTrue
  <2> QED
    BY <1>1, <1>3, <2>1 DEF ExecutedWasRun, Flush, Settle, Ran, TypeOK, Event
<1>7. OnceUnlessCause' /\ IdleWhenDone'
  BY <1>1, OnceStays
<1> QED
  BY <1>4, <1>5, <1>6, <1>7

LEMMA GiveUpKeeps ==
    ASSUME HInv, NEW c \in Cmds, GiveUp(c)
    PROVE  HInv'
<1> USE DEF HInv
<1>1. TypeOK' /\ ExecutedWasRun'
  BY DEF TypeOK, GiveUp, Settle, Results, ExecutedWasRun, Ran
<1>2. \A v \in Workers, d \in Cmds : At(v, d)' <=> At(v, d)
  BY DEF At, GiveUp
<1>3. ClaimsAreTrue'
  BY <1>2 DEF ClaimsAreTrue, GiveUp, Ran
<1>4. OnceUnlessCause' /\ IdleWhenDone'
  BY OnceStays DEF GiveUp
<1> QED
  BY <1>1, <1>3, <1>4

\* After a death nobody is at a command, and only what was on disk is marked.
LEMMA KillKeeps ==
    ASSUME HInv, Kill
    PROVE  HInv'
<1> USE DEF HInv
<1>1. TypeOK'
  BY CommandHandlerBounds DEF TypeOK, Kill
<1>2. \A v \in Workers, d \in Cmds : ~At(v, d)'
  BY DEF At, Kill
<1>3. ClaimsAreTrue' /\ ExecutedWasRun' /\ IdleWhenDone'
  BY <1>2 DEF ClaimsAreTrue, ExecutedWasRun, IdleWhenDone, Ran, Kill
<1>4. kills' > 0
  BY DEF Kill, TypeOK
<1>5. OnceUnlessCause'
  BY <1>4 DEF OnceUnlessCause
<1> QED
  BY <1>1, <1>3, <1>5

LEMMA StutterKeeps ==
    ASSUME HInv, UNCHANGED vars
    PROVE  HInv'
<1> USE DEF HInv, vars
<1>1. \A v \in Workers, d \in Cmds : At(v, d)' <=> At(v, d)
  BY DEF At
<1>2. TypeOK' /\ ClaimsAreTrue' /\ ExecutedWasRun'
  BY <1>1 DEF TypeOK, ClaimsAreTrue, ExecutedWasRun, Ran
<1> QED
  BY <1>2, OnceStays

-----------------------------------------------------------------------------
LEMMA NextHInv == HInv /\ [Next]_vars => HInv'
<1> SUFFICES ASSUME HInv, [Next]_vars PROVE HInv'
  OBVIOUS
<1>1. ASSUME NEW w \in Workers, NEW T \in SUBSET Cmds, Fetch(w, T) PROVE HInv'
  BY <1>1, FetchKeeps
<1>2. ASSUME NEW w \in Workers, Work(w) PROVE HInv'
  BY <1>2, SkipKeeps, BeginKeeps, SucceedKeeps, FailKeeps, MarkKeeps, ToldKeeps, NotToldKeeps
     DEF Work
<1>3. ASSUME NEW c \in Cmds, GiveUp(c) PROVE HInv'
  BY <1>3, GiveUpKeeps
<1> QED
  BY <1>1, <1>2, <1>3, PersistKeeps, FlushKeeps, KillKeeps, StutterKeeps DEF Next

\* What the agent claims is true in every reachable state: marks, claims about to
\* be made, queued results and the backend's record all stand for a run.
THEOREM HandlerInvariant == Spec => []HInv
BY InitHInv, NextHInv, PTL DEF Spec

\* However many coroutines process however many commands, a command runs a second
\* time only after two had it at once or after a death of the process.
THEOREM RerunsHaveACause == Spec => []RerunHasCause
<1>1. HInv => RerunHasCause
  BY DEF HInv, TypeOK, OnceUnlessCause, RerunHasCause
<1> QED
  BY <1>1, HandlerInvariant, PTL
=============================================================================
