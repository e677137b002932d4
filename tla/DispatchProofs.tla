----------------------- MODULE DispatchProofs ----------------------------
(***************************************************************************)
(* The two sides of the dispatcher: what it lets into the queue, and the    *)
(* connection it sends to.  Its backpressure holds for any number of        *)
(* actions, calls and minutes and any limit; for any number of connections  *)
(* and sends, commands are never sent to a connection that has ended.       *)
(***************************************************************************)
EXTENDS CommandAdmission, Presence, FiniteSetTheorems, TLAPS

USE DEF NoTime

\* The keys are finitely many, so every set of rows has a cardinality.
LEMMA RowsAreFinite ==
    ASSUME NEW S \in SUBSET Key
    PROVE  IsFiniteSet(S) /\ Cardinality(S) \in Nat
<1>1. IsFiniteSet(0 .. MaxMinute)
  BY FS_Interval, AdmissionAssumption
<1>2. IsFiniteSet(Key)
  BY <1>1, FS_Product, AdmissionAssumption DEF Key
<1> QED
  BY <1>2, FS_Subset, FS_CardinalityType

\* A step that opens no row of the dispatcher leaves the bounds alone.
LEMMA FewerRows ==
    ASSUME TypeOK, Dispatched' \subseteq Dispatched
    PROVE  Cardinality(Dispatched') \in Nat /\ Cardinality(Dispatched) \in Nat
           /\ Cardinality(Dispatched') <= Cardinality(Dispatched)
<1>1. Dispatched \in SUBSET Key
  BY DEF Dispatched, Open
<1>2. IsFiniteSet(Dispatched)
  BY <1>1, RowsAreFinite
<1> QED
  BY <1>2, FS_Subset, FS_CardinalityType

\* An insert opens one row at most.
LEMMA OneMoreRow ==
    ASSUME TypeOK, NEW k \in Key, AddCommand(k)
    PROVE  Cardinality(Dispatched') <= Cardinality(Dispatched) + 1
           /\ Cardinality(Dispatched') \in Nat
<1>1. Dispatched' \subseteq Dispatched \cup {k}
  BY DEF Dispatched, Open, AddCommand, TypeOK
<1>2. Dispatched \in SUBSET Key /\ Dispatched \cup {k} \in SUBSET Key
  BY DEF Dispatched, Open
<1>3. IsFiniteSet(Dispatched) /\ IsFiniteSet(Dispatched \cup {k}) /\ Cardinality(Dispatched) \in Nat
  BY <1>2, RowsAreFinite
<1>4. Cardinality(Dispatched \cup {k}) <= Cardinality(Dispatched) + 1
  <2>1. CASE k \in Dispatched
    <3>1. Dispatched \cup {k} = Dispatched
      BY <2>1
    <3>2. Cardinality(Dispatched \cup {k}) = Cardinality(Dispatched)
      BY <3>1, Zenon
    <3> QED
      BY <3>2, <1>3
  <2>2. CASE k \notin Dispatched
    BY <2>2, <1>3, FS_AddElement
  <2> QED
    BY <2>1, <2>2
<1>5. Cardinality(Dispatched') <= Cardinality(Dispatched \cup {k}) /\ IsFiniteSet(Dispatched')
  BY <1>1, <1>3, FS_Subset
<1>6. Cardinality(Dispatched') \in Nat /\ Cardinality(Dispatched \cup {k}) \in Nat
  BY <1>3, <1>5, FS_CardinalityType
<1> QED
  BY <1>3, <1>4, <1>5, <1>6

\* The call that leaves was the one inside: nobody is inside afterwards.
LEMMA LeaveEmpties ==
    ASSUME TypeOK, OneInside, NEW d \in Inside, Leave(d)
    PROVE  Inside' = {} /\ call' \in [Dispatches -> Busy \cup {Idle}]
           /\ lockLine' \in Seq(Dispatches)
<1>1. lockLine # << >> /\ lockLine \in Seq(Dispatches)
  BY DEF OneInside, HoldsLock, TypeOK
<1>2. lockLine' \in Seq(Dispatches)
  BY <1>1 DEF Leave
<1>3. \A e \in Inside : e = d
  BY DEF OneInside, HoldsLock
<1>4. call' \in [Dispatches -> Busy \cup {Idle}]
  BY DEF Leave, TypeOK
<1>5. \A e \in Dispatches : e # d => call'[e] = call[e]
  BY DEF Leave, TypeOK
<1>6. call'[d].at = "idle"
  BY DEF Leave, TypeOK, Idle, Inside
<1> QED
  BY <1>2, <1>3, <1>4, <1>5, <1>6 DEF Inside

LEMMA InitIInv == Init => IInv
<1> SUFFICES ASSUME Init PROVE IInv
  OBVIOUS
<1>1. TypeOK
  BY AdmissionAssumption DEF Init, TypeOK
<1>2. Dispatched = {} /\ Inside = {}
  BY DEF Init, Dispatched, Open, Inside, Idle
<1>3. Cardinality(Dispatched) = 0
  BY <1>2, FS_EmptySet
<1>4. OneInside
  BY <1>2 DEF OneInside
<1>5. CountHolds
  BY <1>2 DEF CountHolds, Inside
<1>6. DispatcherIsBounded
  BY <1>3, AdmissionAssumption DEF DispatcherIsBounded
<1> QED
  BY <1>1, <1>4, <1>5, <1>6 DEF IInv

LEMMA NextIInv == IInv /\ [Next]_vars => IInv'
<1> SUFFICES ASSUME IInv, [Next]_vars PROVE IInv'
  OBVIOUS
<1> USE AdmissionAssumption
<1>0. TypeOK /\ OneInside /\ CountHolds /\ DispatcherIsBounded
  BY DEF IInv
<1>a. Cardinality(Dispatched) \in Nat
  BY RowsAreFinite DEF Dispatched, Open
<1>1. ASSUME NEW d \in Dispatches, NEW a \in Actions, Dispatch(d, a) PROVE IInv'
  <2>1. TypeOK'
    BY <1>0, <1>1 DEF TypeOK, Dispatch, Busy, Key
  <2>2. Dispatched' = Dispatched
    BY <1>1 DEF Dispatch, Dispatched, Open
  <2>3. \A e \in Dispatches : e # d => call'[e] = call[e]
    BY <1>0, <1>1 DEF TypeOK, Dispatch
  <2>4. call'[d].at = "waiting"
    BY <1>0, <1>1 DEF TypeOK, Dispatch
  <2>5. OneInside'
    <3> SUFFICES ASSUME NEW e \in Inside' PROVE HoldsLock(e)'
      BY DEF OneInside
    <3>1. e \in Inside
      BY <2>3, <2>4 DEF Inside
    <3>2. lockLine # << >> /\ Head(lockLine) = e /\ lockLine \in Seq(Dispatches)
      BY <3>1, <1>0 DEF OneInside, HoldsLock, TypeOK
    <3> QED
      BY <3>2, <1>1 DEF Dispatch, HoldsLock
  <2>6. CountHolds'
    BY <1>0, <2>2, <2>3, <2>4 DEF CountHolds
  <2> QED
    BY <1>0, <2>1, <2>2, <2>5, <2>6 DEF IInv, DispatcherIsBounded
<1>2. ASSUME NEW d \in Dispatches, Enter(d) PROVE IInv'
  <2>0. call[d] \in Busy
    BY <1>0, <1>2 DEF TypeOK, Enter, Idle
  <2>a. [at |-> "lookup", key |-> <<call[d].key[1], minute>>] \in Busy
    BY <1>0, <2>0 DEF TypeOK, Busy, Key
  <2>b. call' = [call EXCEPT ![d] = [at |-> "lookup", key |-> <<call[d].key[1], minute>>]]
    BY <1>2 DEF Enter
  <2>1. TypeOK'
    BY <1>0, <1>2, <2>a, <2>b DEF TypeOK, Enter
  <2>2. Dispatched' = Dispatched
    BY <1>2 DEF Enter, Dispatched, Open
  <2>3. \A e \in Dispatches : e # d => call'[e] = call[e]
    BY <1>0, <1>2 DEF TypeOK, Enter
  <2>4. call'[d].at = "lookup"
    BY <1>0, <2>b DEF TypeOK
  <2>5. OneInside'
    BY <1>0, <1>2, <2>3 DEF OneInside, Inside, HoldsLock, Enter
  <2>6. CountHolds'
    BY <1>0, <2>2, <2>3, <2>4 DEF CountHolds
  <2> QED
    BY <1>0, <2>1, <2>2, <2>5, <2>6 DEF IInv, DispatcherIsBounded
\* Lookup and Count either go on, with the same rows, or leave.
<1>b. ASSUME NEW d \in Inside, Leave(d), UNCHANGED <<row, minute, answer>> PROVE IInv'
  <2>1. Inside' = {} /\ TypeOK'
    BY <1>0, <1>b, LeaveEmpties DEF TypeOK
  <2>2. Dispatched' = Dispatched
    BY <1>b DEF Dispatched, Open
  <2>3. OneInside' /\ CountHolds'
    BY <2>1 DEF OneInside, CountHolds, Inside
  <2> QED
    BY <1>0, <2>1, <2>2, <2>3 DEF IInv, DispatcherIsBounded
<1>c. ASSUME NEW d \in Inside, NEW at \in {"count", "insert"},
             call' = [call EXCEPT ![d].at = at],
             at = "insert" => Cardinality(Dispatched) < Limit,
             UNCHANGED <<row, minute, lockLine, answer>>
      PROVE  IInv'
  <2>1. d \in Dispatches /\ call[d] \in Busy
    BY <1>0 DEF Inside, TypeOK, Idle
  <2>2. TypeOK'
    BY <1>0, <1>c, <2>1 DEF TypeOK, Busy
  <2>3. Dispatched' = Dispatched
    BY <1>c DEF Dispatched, Open
  <2>4. \A e \in Dispatches : e # d => call'[e] = call[e]
    BY <1>0, <1>c DEF TypeOK
  <2>5. call'[d].at = at
    BY <1>0, <1>c, <2>1 DEF TypeOK, Busy
  <2>6. OneInside'
    BY <1>0, <1>c, <2>1, <2>4 DEF OneInside, Inside, HoldsLock
  <2>7. CountHolds'
    BY <1>0, <1>c, <2>3, <2>4, <2>5 DEF CountHolds
  <2> QED
    BY <1>0, <2>2, <2>3, <2>6, <2>7 DEF IInv, DispatcherIsBounded
<1>3. ASSUME NEW d \in Dispatches, Lookup(d) PROVE IInv'
  <2>1. d \in Inside
    BY <1>3 DEF Lookup, Inside
  <2>2. CASE row[call[d].key] = "open"
    BY <1>3, <2>1, <2>2, <1>b DEF Lookup
  <2>3. CASE row[call[d].key] # "open"
    BY <1>3, <2>1, <2>3, <1>c DEF Lookup
  <2> QED
    BY <2>2, <2>3
<1>4. ASSUME NEW d \in Dispatches, Count(d) PROVE IInv'
  <2>1. d \in Inside
    BY <1>4 DEF Count, Inside
  <2>2. CASE Cardinality(Open) >= Limit
    BY <1>4, <2>1, <2>2, <1>b DEF Count
  <2>3. CASE ~(Cardinality(Open) >= Limit)
    <3>1. Open \in SUBSET Key /\ Dispatched \subseteq Open
      BY DEF Open, Dispatched
    <3>2. IsFiniteSet(Open) /\ Cardinality(Open) \in Nat
      BY <3>1, RowsAreFinite
    <3>3. Cardinality(Dispatched) <= Cardinality(Open)
      BY <3>1, <3>2, FS_Subset
    <3>4. Cardinality(Dispatched) < Limit
      BY <2>3, <3>2, <3>3, <1>a
    <3> QED
      BY <1>4, <2>1, <2>3, <3>4, <1>c DEF Count
  <2> QED
    BY <2>2, <2>3
<1>5. ASSUME NEW d \in Dispatches, Insert(d) PROVE IInv'
  <2>1. d \in Inside /\ call[d] \in Busy /\ call[d].key \in Key
    BY <1>0, <1>5 DEF Insert, Inside, TypeOK, Busy, Idle
  <2>2. row' \in [Key -> {"none", "open", "settled"}]
    BY <1>0, <1>5, <2>1 DEF Insert, AddCommand, TypeOK
  <2>3. Cardinality(Dispatched) < Limit
    BY <1>0, <1>5 DEF CountHolds, Insert
  <2>4. DispatcherIsBounded'
    BY <1>0, <1>5, <1>a, <2>1, <2>3, OneMoreRow DEF Insert, DispatcherIsBounded
  <2>5. CASE row[call[d].key] # "none"
    <3>1. Inside' = {} /\ TypeOK'
      BY <1>0, <1>5, <2>1, <2>2, <2>5, LeaveEmpties DEF Insert, TypeOK
    <3> QED
      BY <2>4, <3>1 DEF IInv, OneInside, CountHolds, Inside
  <2>6. CASE row[call[d].key] = "none"
    <3>1. TypeOK'
      BY <1>0, <1>5, <2>1, <2>2, <2>6 DEF Insert, TypeOK, Busy
    <3>2. \A e \in Dispatches : e # d => call'[e] = call[e]
      BY <1>0, <1>5, <2>6 DEF Insert, TypeOK
    <3>3. call'[d].at = "send"
      BY <1>0, <1>5, <2>1, <2>6 DEF Insert, TypeOK, Busy
    <3>4. \A e \in Inside : e = d
      BY <1>0, <2>1 DEF OneInside, HoldsLock
    <3>5. \A e \in Dispatches : call'[e].at # "insert"
      BY <3>2, <3>3, <3>4 DEF Inside
    <3>6. OneInside'
      BY <1>0, <1>5, <2>1, <2>6, <3>2, <3>4 DEF Insert, OneInside, Inside, HoldsLock
    <3> QED
      BY <2>4, <3>1, <3>5, <3>6 DEF IInv, CountHolds
  <2> QED
    BY <2>5, <2>6
<1>s. ASSUME NEW d \in Dispatches, Send(d) PROVE IInv'
  <2>1. d \in Inside
    BY <1>s DEF Send, Inside
  <2> QED
    BY <1>s, <2>1, <1>b DEF Send
<1>6. ASSUME NEW d \in Dispatches, Raise(d) PROVE IInv'
  <2>1. d \in Inside
    BY <1>6 DEF Raise, Inside
  <2> QED
    BY <1>6, <2>1, <1>b DEF Raise
\* REST, the device and the clock leave the calls and the lock alone, and open
\* no row of the dispatcher.
<1>d. ASSUME TypeOK', Dispatched' \subseteq Dispatched, UNCHANGED <<call, lockLine>> PROVE IInv'
  <2>1. Cardinality(Dispatched') <= Cardinality(Dispatched) /\ Cardinality(Dispatched') \in Nat
    BY <1>0, <1>d, FewerRows
  <2>2. OneInside'
    BY <1>0, <1>d DEF OneInside, Inside, HoldsLock
  <2>3. CountHolds'
    BY <1>0, <1>a, <1>d, <2>1 DEF CountHolds
  <2>4. DispatcherIsBounded'
    BY <1>0, <1>a, <2>1 DEF DispatcherIsBounded
  <2> QED
    BY <1>d, <2>2, <2>3, <2>4 DEF IInv
<1>7. ASSUME NEW a \in Actions, RestCreate(a) PROVE IInv'
  <2>1. RestKey(a) \in Key
    BY DEF RestKey, Key
  <2>2. TypeOK'
    BY <1>0, <1>7, <2>1 DEF TypeOK, RestCreate, AddCommand
  <2>3. Dispatched' \subseteq Dispatched
    BY <1>0, <1>7, <2>1 DEF TypeOK, RestCreate, AddCommand, Dispatched, Open, RestKey
  <2> QED
    BY <1>7, <2>2, <2>3, <1>d DEF RestCreate
<1>8. ASSUME NEW k \in Key, Settle(k) PROVE IInv'
  <2>1. TypeOK' /\ Dispatched' \subseteq Dispatched
    BY <1>0, <1>8 DEF TypeOK, Settle, Dispatched, Open
  <2> QED
    BY <1>8, <2>1, <1>d DEF Settle
<1>9. CASE Tick
  <2>1. TypeOK' /\ Dispatched' = Dispatched
    BY <1>0, <1>9 DEF TypeOK, Tick, Dispatched, Open
  <2> QED
    BY <1>9, <2>1, <1>d DEF Tick
<1>10. CASE Restart
  <2>1. Inside' = {} /\ TypeOK'
    BY <1>0, <1>10 DEF Restart, TypeOK, Inside, Idle
  <2>2. Dispatched' = Dispatched
    BY <1>10 DEF Restart, Dispatched, Open
  <2> QED
    BY <1>0, <2>1, <2>2 DEF IInv, OneInside, CountHolds, Inside, DispatcherIsBounded
<1>11. CASE UNCHANGED vars
  <2>1. TypeOK' /\ Dispatched' = Dispatched
    BY <1>0, <1>11 DEF TypeOK, vars, Dispatched, Open
  <2> QED
    BY <1>11, <2>1, <1>d DEF vars
<1> QED
  BY <1>1, <1>2, <1>3, <1>4, <1>5, <1>s, <1>6, <1>7, <1>8, <1>9, <1>10, <1>11
     DEF Next, DispatchStep

\* The inductive invariant holds in every reachable state.
THEOREM AdmissionInvariant == Spec => []IInv
BY InitIInv, NextIInv, PTL DEF Spec

\* However many calls race, whatever REST inserts in between and however often
\* the server restarts, the dispatcher never passes MAX_QUEUE_PER_DEVICE.
THEOREM BackpressureHolds == Spec => []DispatcherIsBounded
<1>1. IInv => DispatcherIsBounded
  BY DEF IInv
<1> QED
  BY <1>1, AdmissionInvariant, PTL
-----------------------------------------------------------------------------
(***************************************************************************)
(* Presence: the connection the dispatcher sends to.                       *)
(***************************************************************************)
USE DEF manager

LEMMA SocketsAreActors ==
    /\ Sockets \subseteq Nat \ {0} /\ Sockets \subseteq Actors
    /\ Watchdog \in Actors /\ Sender \in Actors
BY PresenceBounds DEF Sockets, Actors, Watchdog, Sender

LEMMA InitPInv == PInit => PInv
BY PresenceBounds DEF PInit, PInv, PTypeOK, RegisteredIsServed, EndedIsUnregistered, Sockets

\* The part of _set_offline before its first await.
LEMMA SetOfflineType ==
    ASSUME PTypeOK, NEW a \in Actors, SetOffline(a)
    PROVE  /\ off' \in [Actors -> {"no", "write", "tell"}] /\ news' \subseteq Actors
           /\ status' = "offline"
BY DEF PTypeOK, SetOffline

\* The steps of one connection's handler and of its device.
LEMMA ConnectionKeeps ==
    ASSUME PInv, NEW k \in Sockets, NewSocket(k) \/ Drop(k) \/ Handler(k) \/ Heartbeat(k) \/ Garbled(k)
    PROVE  PInv'
<1>1. PTypeOK /\ RegisteredIsServed /\ EndedIsUnregistered
  BY DEF PInv
<1>2. k \in Nat \ {0} /\ k \in Actors
  BY SocketsAreActors
<1>3. pc[k] \in {"none", "enter", "closing", "tell", "write", "hello", "loop", "sync",
                 "ending", "gone", "rejected"}
  BY <1>1 DEF PTypeOK
<1>4. PTypeOK'
  <2>1. CASE NewSocket(k)
    BY <1>1, <2>1 DEF NewSocket, Goto, PTypeOK
  <2>2. CASE Drop(k)
    BY <1>1, <2>2 DEF Drop, PTypeOK
  <2>3. CASE Unauthorized(k) \/ EnterFresh(k) \/ Register(k)
    BY <1>1, <2>3 DEF Unauthorized, EnterFresh, Register, Registered, Goto, PTypeOK
  <2>4. CASE EnterOverOld(k)
    BY <1>1, <2>4 DEF EnterOverOld, Goto, PTypeOK
  <2>5. CASE TellOnline(k) \/ WriteOnline(k)
    BY <1>1, <2>5 DEF TellOnline, WriteOnline, Goto, PTypeOK
  <2>6. CASE Hello(k) \/ HelloFails(k)
    BY <1>1, <2>6 DEF Hello, HelloFails, Goto, PTypeOK
  <2>7. CASE LazySync(k) \/ EndLoop(k)
    BY <1>1, <2>7 DEF LazySync, EndLoop, Goto, PTypeOK
  <2>8. CASE Disconnect(k)
    <3>1. off' \in [Actors -> {"no", "write", "tell"}] /\ news' \subseteq Actors
          /\ status' = "offline"
      BY <1>1, <1>2, <2>8, SetOfflineType DEF Disconnect
    <3> QED
      BY <1>1, <2>8, <3>1 DEF Disconnect, Goto, PTypeOK
  <2>9. CASE Heartbeat(k) \/ Garbled(k)
    BY <1>1, <2>9 DEF Heartbeat, Garbled, Goto, PTypeOK
  <2> QED
    BY <2>1, <2>2, <2>3, <2>4, <2>5, <2>6, <2>7, <2>8, <2>9 DEF Handler
<1>5. RegisteredIsServed' /\ EndedIsUnregistered'
  <2>1. pc \in [Sockets -> {"none", "enter", "closing", "tell", "write", "hello", "loop",
                            "sync", "ending", "gone", "rejected"}]
        /\ active \in {0} \cup Sockets
    BY <1>1 DEF PTypeOK
  <2>2. CASE EnterFresh(k) \/ Register(k)
    BY <1>2, <2>1, <2>2
       DEF EnterFresh, Register, Registered, Goto, RegisteredIsServed, EndedIsUnregistered
  <2>3. CASE Disconnect(k)
    BY <2>3 DEF Disconnect, SetOffline, RegisteredIsServed, EndedIsUnregistered
  <2>4. CASE NewSocket(k) \/ Unauthorized(k) \/ EnterOverOld(k)
    <3>1. active' = active /\ status' = status /\ active # k
          /\ pc' \in {[pc EXCEPT ![k] = "enter"], [pc EXCEPT ![k] = "none"],
                       [pc EXCEPT ![k] = "closing"]}
      BY <1>1, <1>2, <2>4
         DEF NewSocket, Unauthorized, EnterOverOld, Goto, RegisteredIsServed
    <3> QED
      BY <1>1, <2>1, <3>1 DEF RegisteredIsServed, EndedIsUnregistered
  <2>5. CASE TellOnline(k) \/ WriteOnline(k) \/ Hello(k) \/ HelloFails(k) \/ LazySync(k)
             \/ EndLoop(k) \/ Heartbeat(k) \/ Garbled(k)
    <3>1. active' = active /\ status' = status
          /\ pc' \in {pc} \cup {[pc EXCEPT ![k] = p] :
                  p \in {"write", "hello", "loop", "rejected", "ending", "sync"}}
      BY <2>5 DEF TellOnline, WriteOnline, Hello, HelloFails, LazySync, EndLoop, Heartbeat, Garbled, Goto
    <3> QED
      BY <1>1, <2>1, <3>1 DEF RegisteredIsServed, EndedIsUnregistered
  <2>6. CASE Drop(k)
    BY <1>1, <2>6 DEF Drop, RegisteredIsServed, EndedIsUnregistered
  <2> QED
    BY <2>2, <2>3, <2>4, <2>5, <2>6 DEF Handler
<1> QED
  BY <1>4, <1>5 DEF PInv

\* The presence watchdog, the dispatcher, time and the ends of _set_offline.
LEMMA OthersKeep ==
    ASSUME PInv, GoSilent \/ Sweep \/ SendCommand \/ GetSocket \/ Sent \/ SendFails
           \/ (\E a \in Actors : Going(a))
    PROVE  PInv'
<1>1. PTypeOK /\ RegisteredIsServed /\ EndedIsUnregistered
  BY DEF PInv
<1>2. PTypeOK'
  <2>1. CASE GoSilent \/ GetSocket \/ Sent
    BY <1>1, <2>1 DEF GoSilent, GetSocket, Sent, PTypeOK
  <2>2. CASE SendCommand
    BY <1>1, <2>2, PresenceBounds DEF SendCommand, PTypeOK
  <2>3. CASE Sweep
    <3>1. off' \in [Actors -> {"no", "write", "tell"}] /\ news' \subseteq Actors
          /\ status' = "offline"
      BY <1>1, <2>3, SetOfflineType, SocketsAreActors DEF Sweep
    <3> QED
      BY <1>1, <2>3, <3>1 DEF Sweep, PTypeOK
  <2>4. CASE SendFails
    <3>1. off' \in [Actors -> {"no", "write", "tell"}] /\ news' \subseteq Actors
          /\ status' = "offline"
      BY <1>1, <2>4, SetOfflineType, SocketsAreActors DEF SendFails
    <3> QED
      BY <1>1, <2>4, <3>1 DEF SendFails, PTypeOK
  <2>5. ASSUME NEW a \in Actors, Going(a) PROVE PTypeOK'
    BY <1>1, <2>5 DEF Going, OffWrite, OffTell, PTypeOK
  <2> QED
    BY <2>1, <2>2, <2>3, <2>4, <2>5
<1>3. RegisteredIsServed' /\ EndedIsUnregistered'
  BY <1>1 DEF GoSilent, Sweep, SendCommand, GetSocket, Sent, SendFails, Going, OffWrite, OffTell, SetOffline,
              RegisteredIsServed, EndedIsUnregistered
<1> QED
  BY <1>2, <1>3 DEF PInv

LEMMA StepPInv == PInv /\ [PNext]_pvars => PInv'
<1>1. ASSUME PInv, UNCHANGED pvars PROVE PInv'
  BY <1>1 DEF pvars, PInv, PTypeOK, RegisteredIsServed, EndedIsUnregistered
<1> QED
  BY <1>1, ConnectionKeeps, OthersKeep DEF PNext

\* connect_device, disconnect_device and their callers: the registered socket is
\* always one whose handler has registered it and has not cleaned up.
THEOREM PresenceInvariant == PSpec => []PInv
BY InitPInv, StepPInv, PTL DEF PSpec

\* A command that finds the device online finds a connection whose handler has not ended: none
\* whose handler has is registered, and a device shown online has a registered connection.  The
\* exception is a handshake that fails after its registration, which leaves its entry.
THEOREM EndedStaysUnregistered == PSpec => []EndedIsUnregistered
<1>1. PInv => EndedIsUnregistered
  BY DEF PInv
<1> QED
  BY <1>1, PresenceInvariant, PTL
=============================================================================
