--------------------------- MODULE CommandHandler ---------------------------
(***************************************************************************)
(* What the agent does with the commands it is handed (CommandHandler.kt):  *)
(* it looks the id up in its marks, runs the command, marks it, and tells   *)
(* the backend, through the offline queue when the backend cannot be told.  *)
(*                                                                         *)
(* The poll loop, each WebSocket message and MDMWorker call it from their   *)
(* own coroutines with no lock between them.  The marks are kept by         *)
(* SharedPreferences: seen at once by the whole process, written to disk    *)
(* later (apply).  The backend hands a command out again until it has an    *)
(* answer, and gives up after its retries (module CommandQueue).            *)
(***************************************************************************)
EXTENDS Naturals, Sequences

CONSTANTS
    Cmds,      \* ids of the commands, handed out in this order
    Workers,   \* coroutines that process commands
    MaxRuns,   \* bound: runs of one command that are told apart
    MaxQueue,  \* results the offline queue can hold (20 in the code)
    MaxKills   \* bound: deaths of the process

ASSUME CommandHandlerBounds ==
    /\ Cmds \subseteq Nat /\ MaxRuns \in Nat \ {0} /\ MaxQueue \in Nat \ {0}
    /\ MaxKills \in Nat

VARIABLES
    todo,     \* commands each worker has been handed and not finished
    pc,       \* where each worker is with the first of them
    told,     \* the status each worker is telling the backend
    marks,    \* "elion_executed_commands" in memory
    disk,     \* the same on disk
    runs,     \* how often each command took effect
    overlap,  \* commands that two workers were running at once
    queue,    \* results in the offline queue
    settled,  \* what the backend's row shows: "open", "EXECUTED" or "FAILED"
    kills

worker  == <<todo, pc, told>>
backend == <<queue, settled>>
vars    == <<worker, marks, disk, runs, overlap, backend, kills>>

Results == {"EXECUTED", "FAILED"}
Event   == [cmd : Cmds, status : Results]

Init ==
    /\ todo = [w \in Workers |-> {}] /\ pc = [w \in Workers |-> "idle"]
    /\ told = [w \in Workers |-> "FAILED"]
    /\ marks = {} /\ disk = {}
    /\ runs = [c \in Cmds |-> 0] /\ overlap = {}
    /\ queue = <<>> /\ settled = [c \in Cmds |-> "open"]
    /\ kills = 0

(* The command worker w is at: processCommands takes them one by one.       *)
At(w, c) == c \in todo[w] /\ \A d \in todo[w] : c <= d

(* The mark has been looked up and not been set yet.                        *)
Busy(w, c) == At(w, c) /\ pc[w] \in {"running", "marking"}

-----------------------------------------------------------------------------
(* fetchAndExecuteCommands, or a command in a WebSocket message: any of the  *)
(* commands the backend has no answer for.                                  *)
Fetch(w, T) ==
    /\ todo[w] = {} /\ T # {}
    /\ \A c \in T : settled[c] = "open"
    /\ todo' = [todo EXCEPT ![w] = T]
    /\ UNCHANGED <<pc, told, marks, disk, runs, overlap, backend, kills>>

(* Mutant: a command with a mark is taken for done and not answered.        *)
SkipSilently(w, c) ==
    /\ pc[w] = "idle" /\ At(w, c) /\ c \in marks
    /\ todo' = [todo EXCEPT ![w] = @ \ {c}]
    /\ UNCHANGED <<pc, told, marks, disk, runs, overlap, backend, kills>>

(* A command with a mark is not run again; its result is.                   *)
Skip(w, c) ==
    /\ pc[w] = "idle" /\ At(w, c) /\ c \in marks
    /\ pc'   = [pc EXCEPT ![w] = "telling"]
    /\ told' = [told EXCEPT ![w] = "EXECUTED"]
    /\ UNCHANGED <<todo, marks, disk, runs, overlap, backend, kills>>

(* Mutant: the mark is not looked up.                                      *)
BeginAnyway(w, c) ==
    /\ pc[w] = "idle" /\ At(w, c)
    /\ pc' = [pc EXCEPT ![w] = "running"]
    /\ overlap' = IF \E v \in Workers \ {w} : Busy(v, c) THEN overlap \cup {c} ELSE overlap
    /\ UNCHANGED <<todo, told, marks, disk, runs, backend, kills>>

Begin(w, c) ==
    /\ pc[w] = "idle" /\ At(w, c) /\ c \notin marks
    /\ pc' = [pc EXCEPT ![w] = "running"]
    /\ overlap' = IF \E v \in Workers \ {w} : Busy(v, c) THEN overlap \cup {c} ELSE overlap
    /\ UNCHANGED <<todo, told, marks, disk, runs, backend, kills>>

(* The handler of the command's type returns: the device has been changed ...*)
Succeed(w, c) ==
    /\ pc[w] = "running" /\ At(w, c)
    /\ runs' = [runs EXCEPT ![c] = IF @ < MaxRuns THEN @ + 1 ELSE @]
    /\ pc' = [pc EXCEPT ![w] = "marking"]
    /\ UNCHANGED <<todo, told, marks, disk, overlap, backend, kills>>

(* ... or it throws, and the failure is told without a mark.                *)
Fail(w, c) ==
    /\ pc[w] = "running" /\ At(w, c)
    /\ pc'   = [pc EXCEPT ![w] = "telling"]
    /\ told' = [told EXCEPT ![w] = "FAILED"]
    /\ UNCHANGED <<todo, marks, disk, runs, overlap, backend, kills>>

(* Mutant: the mark is set when the command is taken up.                   *)
MarkFirst(w, c) ==
    /\ pc[w] \in {"running", "marking"} /\ At(w, c)
    /\ marks' = marks \cup {c}
    /\ IF pc[w] = "running" THEN UNCHANGED <<pc, told>>
       ELSE /\ pc'   = [pc EXCEPT ![w] = "telling"]
            /\ told' = [told EXCEPT ![w] = "EXECUTED"]
    /\ UNCHANGED <<todo, disk, runs, overlap, backend, kills>>

Mark(w, c) ==
    /\ pc[w] = "marking" /\ At(w, c)
    /\ marks' = marks \cup {c}
    /\ pc'   = [pc EXCEPT ![w] = "telling"]
    /\ told' = [told EXCEPT ![w] = "EXECUTED"]
    /\ UNCHANGED <<todo, disk, runs, overlap, backend, kills>>

(* apply: the marks reach the disk some time later.                         *)
Persist ==
    /\ disk # marks
    /\ disk' = marks
    /\ UNCHANGED <<worker, marks, runs, overlap, backend, kills>>

-----------------------------------------------------------------------------
(* ack_command accepts the first answer and repetitions of it, and answers   *)
(* 404 to the opposite one.                                                 *)
Accepts(c, st) == settled[c] \in {"open", st}

Settle(c, st) == settled' = [settled EXCEPT ![c] = st]

NextCommand(w, c) ==
    /\ pc'   = [pc EXCEPT ![w] = "idle"]
    /\ todo' = [todo EXCEPT ![w] = @ \ {c}]

(* notifyBackend: one of three tries is accepted ...                        *)
Told(w, c) ==
    /\ pc[w] = "telling" /\ At(w, c)
    /\ Accepts(c, told[w])
    /\ Settle(c, told[w])
    /\ NextCommand(w, c)
    /\ UNCHANGED <<told, marks, disk, runs, overlap, queue, kills>>

(* OfflineQueue.enqueue, for results only: the last one goes at the cap.    *)
Enqueued(e) == Append(IF Len(queue) < MaxQueue THEN queue
                      ELSE SubSeq(queue, 1, Len(queue) - 1), e)

(* ... or all fail, or the answer is lost, and the result is queued.        *)
NotTold(w, c) ==
    /\ pc[w] = "telling" /\ At(w, c)
    /\ queue' = Enqueued([cmd |-> c, status |-> told[w]])
    /\ \/ UNCHANGED settled
       \/ Accepts(c, told[w]) /\ Settle(c, told[w])
    /\ NextCommand(w, c)
    /\ UNCHANGED <<told, marks, disk, runs, overlap, kills>>

(* OfflineQueue.flushNetwork: the head goes when the backend accepts it; an  *)
(* answer the backend has no more use for stays and holds up the others.    *)
Flush ==
    /\ queue # <<>>
    /\ Accepts(Head(queue).cmd, Head(queue).status)
    /\ Settle(Head(queue).cmd, Head(queue).status)
    /\ queue' = Tail(queue)
    /\ UNCHANGED <<worker, marks, disk, runs, overlap, kills>>

(* The watchdog has used up the command's retries.                          *)
GiveUp(c) ==
    /\ settled[c] = "open"
    /\ Settle(c, "FAILED")
    /\ UNCHANGED <<worker, marks, disk, runs, overlap, queue, kills>>

(* The process dies: a command that reboots the device, Android, the user.  *)
Kill ==
    /\ kills < MaxKills /\ kills' = kills + 1
    /\ todo' = [w \in Workers |-> {}] /\ pc' = [w \in Workers |-> "idle"]
    /\ marks' = disk
    /\ UNCHANGED <<told, disk, runs, overlap, backend>>

-----------------------------------------------------------------------------
Work(w) == \E c \in Cmds :
    Skip(w, c) \/ Begin(w, c) \/ Succeed(w, c) \/ Fail(w, c) \/ Mark(w, c)
    \/ Told(w, c) \/ NotTold(w, c)

Next ==
    \/ \E w \in Workers : (\E T \in SUBSET Cmds : Fetch(w, T)) \/ Work(w)
    \/ Persist \/ Flush \/ Kill
    \/ \E c \in Cmds : GiveUp(c)

Spec == Init /\ [][Next]_vars

(* The backend hands out again what is open (the watchdog requeues it), the  *)
(* agent polls, handlers return, and of the many tries to reach the backend  *)
(* some succeed.  Neither GiveUp nor Persist need ever happen.              *)
Fairness ==
    /\ WF_vars(Flush)
    /\ \A w \in Workers : WF_vars(Work(w))
    /\ \A c \in Cmds :
         /\ SF_vars(\E w \in Workers, T \in SUBSET Cmds : c \in T /\ Fetch(w, T))
         /\ SF_vars(\E w \in Workers : Told(w, c))

LiveSpec == Spec /\ Fairness

-----------------------------------------------------------------------------
(* Properties.                                                             *)

TypeOK ==
    /\ todo \in [Workers -> SUBSET Cmds]
    /\ pc \in [Workers -> {"idle", "running", "marking", "telling"}]
    /\ told \in [Workers -> Results]
    /\ marks \in SUBSET Cmds /\ disk \in SUBSET Cmds /\ overlap \in SUBSET Cmds
    /\ runs \in [Cmds -> 0 .. MaxRuns]
    /\ queue \in Seq(Event) /\ Len(queue) <= MaxQueue
    /\ settled \in [Cmds -> {"open"} \cup Results]
    /\ kills \in 0 .. MaxKills

Ran(c) == runs[c] > 0

(* The backend never records EXECUTED for a command that never took effect:  *)
(* a mark read back after a death, a queued result, a repeated answer are    *)
(* all preceded by a run (executeCommand marks after the handler returns).  *)
ExecutedWasRun == \A c \in Cmds : settled[c] = "EXECUTED" => Ran(c)

(* What makes it inductive: every place an EXECUTED can come from.          *)
ClaimsAreTrue ==
    /\ \A c \in marks \cup disk : Ran(c)
    /\ \A w \in Workers, c \in Cmds :
         At(w, c) => /\ pc[w] = "marking" => Ran(c)
                     /\ pc[w] = "telling" /\ told[w] = "EXECUTED" => Ran(c)
    /\ \A i \in 1 .. Len(queue) : queue[i].status = "EXECUTED" => Ran(queue[i].cmd)

(* A second run of a command needs two busy workers or a death: without      *)
(* them, one worker at most is between the look-up and the mark.            *)
OnceUnlessCause ==
    \A c \in Cmds : c \in overlap \/ kills > 0 \/
        /\ \A v, w \in Workers : Busy(v, c) /\ Busy(w, c) => v = w
        /\ \A w \in Workers :
             Busy(w, c) => c \notin marks /\ (pc[w] = "running" => runs[c] = 0)
        /\ runs[c] <= 1
        /\ Ran(c) => c \in marks \/ \E w \in Workers : At(w, c) /\ pc[w] = "marking"

IdleWhenDone == \A w \in Workers : todo[w] = {} => pc[w] = "idle"

HInv == TypeOK /\ ClaimsAreTrue /\ ExecutedWasRun /\ OnceUnlessCause /\ IdleWhenDone

(* A command takes effect a second time only when two workers had it at      *)
(* once, or a death lost the mark (or the step that was about to set it).    *)
RerunHasCause == \A c \in Cmds : runs[c] > 1 => c \in overlap \/ kills > 0

(* Every command the agent is handed gets an answer, although an answer that *)
(* the backend refuses may block the offline queue for ever.                *)
HandedIsSettled ==
    \A c \in Cmds : (\E w \in Workers : c \in todo[w]) ~> settled[c] # "open"

=============================================================================
