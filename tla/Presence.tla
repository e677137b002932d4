------------------------------- MODULE Presence -------------------------------
(***************************************************************************)
(* Who is online: ConnectionManager and _PresenceStore (websockets.py) with *)
(* the per-connection handler websocket_device (websocket_routes.py), for   *)
(* one device.  Everything runs in one asyncio loop, so a step goes from    *)
(* one await to the next; the awaits are the closing of an old socket, the  *)
(* broadcasts, the sends and the database writes.                           *)
(*                                                                         *)
(* The device reconnects whenever its link is down; the backend may learn   *)
(* of the old link's end before or after the new connection arrives.        *)
(*                                                                         *)
(* The names that CommandAdmission has too begin with a P here, so that      *)
(* DispatchProofs can extend both.                                          *)
(***************************************************************************)
EXTENDS Naturals

CONSTANTS
    MaxSockets,  \* bound: connections the device ever makes
    MaxSends,    \* bound: commands the dispatcher sends while the device is online
    NamesBound   \* FALSE: the code as shipped, where websocket_routes uses
                 \* Device without importing it and every handshake is
                 \* rejected (and websockets uses utcnow without it).
                 \* TRUE: the same code with both names imported.

ASSUME PresenceBounds ==
    MaxSockets \in Nat \ {0} /\ MaxSends \in Nat /\ NamesBound \in BOOLEAN

VARIABLES
    link,    \* the sockets whose client side is up
    closed,  \* the sockets the backend has closed
    pc,      \* where the handler of each socket is
    active,  \* active_devices[device_id]: a socket, or 0
    status,  \* presence status: "none", "online" or "offline"
    silent,  \* the last heartbeat is older than HEARTBEAT_TIMEOUT_SECONDS
    off,     \* where each actor is in _set_offline: "no", "write" or "tell"
    news,    \* the actors whose _set_offline changed the status
    sending, \* the socket the dispatcher is sending to, Sender before it has one, or 0
    sends,   \* sends so far
    db,      \* Device.status in the database
    shown    \* the status the dashboards were told last

manager == <<active, status, silent>>
pvars == <<link, closed, pc, active, status, silent, off, news, sending, sends, db, shown>>

Sockets  == 1 .. MaxSockets
Watchdog == 0
Sender   == MaxSockets + 1
Actors   == 0 .. MaxSockets + 1     \* a handler is known by its socket

PInit ==
    /\ link = {} /\ closed = {} /\ pc = [k \in Sockets |-> "none"]
    /\ active = 0 /\ status = "none" /\ silent = TRUE
    /\ off = [a \in Actors |-> "no"] /\ news = {}
    /\ sending = 0 /\ sends = 0
    /\ db = "offline" /\ shown = "offline"

Goto(k, p) == pc' = [pc EXCEPT ![k] = p]

-----------------------------------------------------------------------------
(* The device.                                                             *)

(* A new connection, once the device has lost or dropped the last one.      *)
NewSocket(k) ==
    /\ link = {} /\ pc[k] = "none" /\ \A j \in Sockets : j < k => pc[j] # "none"
    /\ link' = {k} /\ Goto(k, "enter")
    /\ UNCHANGED <<closed, manager, off, news, sending, sends, db, shown>>

(* The link goes down; nobody tells the backend.                            *)
Drop(k) ==
    /\ k \in link
    /\ link' = link \ {k}
    /\ UNCHANGED <<closed, pc, manager, off, news, sending, sends, db, shown>>

GoSilent ==
    /\ ~silent
    /\ silent' = TRUE
    /\ UNCHANGED <<link, closed, pc, active, status, off, news, sending, sends, db, shown>>

-----------------------------------------------------------------------------
(* connect_device.                                                         *)

Registered(k) ==
    /\ active' = k /\ status' = "online" /\ silent' = FALSE

(* No such device, an inactive one or a wrong token; as shipped, any device, *)
(* for the lookup raises NameError.  The handler answers unauthorized and    *)
(* closes with 4002, and the device may try again.                          *)
Unauthorized(k) ==
    /\ pc[k] = "enter"
    /\ link' = link \ {k} /\ Goto(k, "none")
    /\ UNCHANGED <<closed, manager, off, news, sending, sends, db, shown>>

(* No old socket: no await before the registration.                        *)
EnterFresh(k) ==
    /\ NamesBound /\ pc[k] = "enter" /\ active = 0
    /\ Registered(k) /\ Goto(k, "tell")
    /\ UNCHANGED <<link, closed, off, news, sending, sends, db, shown>>

(* The old socket is closed with 4001, and the handler waits for it.        *)
EnterOverOld(k) ==
    /\ NamesBound /\ pc[k] = "enter" /\ active # 0
    /\ closed' = closed \cup {active} /\ link' = link \ {active}
    /\ Goto(k, "closing")
    /\ UNCHANGED <<manager, off, news, sending, sends, db, shown>>

Register(k) ==
    /\ pc[k] = "closing"
    /\ Registered(k) /\ Goto(k, "tell")
    /\ UNCHANGED <<link, closed, off, news, sending, sends, db, shown>>

TellOnline(k) ==
    /\ pc[k] = "tell"
    /\ shown' = "online" /\ Goto(k, "write")
    /\ UNCHANGED <<link, closed, manager, off, news, sending, sends, db>>

(* _write_status_to_db logs an error and goes on.                           *)
WriteOnline(k) ==
    /\ pc[k] = "write"
    /\ db' \in {db, "online"} /\ Goto(k, "hello")
    /\ UNCHANGED <<link, closed, manager, off, news, sending, sends, shown>>

(* The CONNECTED frame and the flush; then receiver and server ping start.  *)
Hello(k) ==
    /\ pc[k] = "hello" /\ k \notin closed
    /\ Goto(k, "loop")
    /\ UNCHANGED <<link, closed, manager, off, news, sending, sends, db, shown>>

(* The frame cannot be sent: the handshake is given up as unauthorized.     *)
HelloFails(k) ==
    /\ pc[k] = "hello" /\ k \notin link
    /\ Goto(k, "rejected") /\ closed' = closed \cup {k}
    /\ UNCHANGED <<link, manager, off, news, sending, sends, db, shown>>

-----------------------------------------------------------------------------
(* _device_receiver and _server_ping_loop.                                 *)

(* A ping, or any message but cmd_ack and cmd_result.                       *)
Heartbeat(k) ==
    /\ pc[k] = "loop" /\ k \in link \ closed
    /\ silent' = FALSE
    /\ pc' \in {pc, [pc EXCEPT ![k] = "sync"]}
    /\ UNCHANGED <<link, closed, active, status, off, news, sending, sends, db, shown>>

(* persist_online_lazy: every five minutes the heartbeat writes the row.    *)
LazySync(k) ==
    /\ pc[k] = "sync"
    /\ db' \in {db, "online"} /\ Goto(k, "loop")
    /\ UNCHANGED <<link, closed, manager, off, news, sending, sends, shown>>

(* What the device sends is no JSON, and the receiver ends by the exception. *)
Garbled(k) ==
    /\ pc[k] = "loop" /\ k \in link \ closed
    /\ Goto(k, "ending")
    /\ UNCHANGED <<link, closed, manager, off, news, sending, sends, db, shown>>

(* The link's end is noticed, the socket has been closed, nothing has been   *)
(* received for 65 seconds, or the server ping fails.                       *)
EndLoop(k) ==
    /\ pc[k] \in {"loop", "sync"} /\ (k \notin link \/ k \in closed \/ silent)
    /\ Goto(k, "ending")
    /\ UNCHANGED <<link, closed, manager, off, news, sending, sends, db, shown>>

-----------------------------------------------------------------------------
(* _set_offline, up to its first await.                                    *)
SetOffline(a) ==
    /\ off' = [off EXCEPT ![a] = "write"]
    /\ news' = IF status # "offline" THEN news \cup {a} ELSE news \ {a}
    /\ status' = "offline"

(* Mutant: the entry is only removed when the status changes.              *)
DisconnectIfOnline(k) ==
    /\ pc[k] = "ending"
    /\ active' = IF status = "online" THEN 0 ELSE active
    /\ SetOffline(k) /\ Goto(k, "gone")
    /\ link' = link \ {k}
    /\ UNCHANGED <<closed, silent, sending, sends, db, shown>>

(* disconnect_device("loop_ended"): whatever socket is registered goes.     *)
Disconnect(k) ==
    /\ pc[k] = "ending"
    /\ active' = 0
    /\ SetOffline(k) /\ Goto(k, "gone")
    /\ link' = link \ {k}
    /\ UNCHANGED <<closed, silent, sending, sends, db, shown>>

OffWrite(a) ==
    /\ off[a] = "write"
    /\ db' \in {db, "offline"}
    /\ off' = [off EXCEPT ![a] = IF a \in news THEN "tell" ELSE "no"]
    /\ UNCHANGED <<link, closed, pc, manager, news, sending, sends, shown>>

OffTell(a) ==
    /\ off[a] = "tell"
    /\ shown' = "offline"
    /\ off' = [off EXCEPT ![a] = "no"] /\ news' = news \ {a}
    /\ UNCHANGED <<link, closed, pc, manager, sending, sends, db>>

-----------------------------------------------------------------------------
(* Mutant: the sweep goes by the age of the last heartbeat of a socket that  *)
(* is still registered and running.                                         *)
SweepRunning ==
    /\ off[Watchdog] = "no"
    /\ silent /\ status = "online"
    /\ active # 0 /\ pc[active] # "rejected"
    /\ SetOffline(Watchdog)
    /\ UNCHANGED <<link, closed, pc, active, silent, sending, sends, db, shown>>

(* _sweep_zombie_devices: it marks the device and leaves the socket.        *)
Sweep ==
    /\ off[Watchdog] = "no"
    /\ silent /\ status = "online"
    /\ SetOffline(Watchdog)
    /\ UNCHANGED <<link, closed, pc, active, silent, sending, sends, db, shown>>

(* The dispatcher: is_device_online; the row's commit; then the socket that   *)
(* is registered now, if there still is one.                               *)
SendCommand ==
    /\ sending = 0 /\ off[Sender] = "no" /\ sends < MaxSends
    /\ active # 0 /\ status = "online"
    /\ sending' = Sender /\ sends' = sends + 1
    /\ UNCHANGED <<link, closed, pc, manager, off, news, db, shown>>

GetSocket ==
    /\ sending = Sender
    /\ sending' = active
    /\ UNCHANGED <<link, closed, pc, manager, off, news, sends, db, shown>>

Sent ==
    /\ sending \in Sockets
    /\ sending' = 0
    /\ UNCHANGED <<link, closed, pc, manager, off, news, sends, db, shown>>

(* A socket error: disconnect_device("send_error").                         *)
SendFails ==
    /\ sending \in Sockets \ link
    /\ sending' = 0 /\ active' = 0
    /\ SetOffline(Sender)
    /\ UNCHANGED <<link, closed, pc, silent, sends, db, shown>>

-----------------------------------------------------------------------------
Handler(k) ==
    \/ Unauthorized(k) \/ EnterFresh(k) \/ EnterOverOld(k) \/ Register(k)
    \/ TellOnline(k)
    \/ WriteOnline(k) \/ Hello(k) \/ HelloFails(k)
    \/ LazySync(k) \/ EndLoop(k) \/ Disconnect(k)

Going(a) == OffWrite(a) \/ OffTell(a)

PNext ==
    \/ \E k \in Sockets : NewSocket(k) \/ Drop(k) \/ Handler(k) \/ Heartbeat(k) \/ Garbled(k)
    \/ GoSilent \/ Sweep \/ SendCommand \/ GetSocket \/ Sent \/ SendFails
    \/ \E a \in Actors : Going(a)

PSpec == PInit /\ [][PNext]_pvars

(* The event loop runs every ready task, the sweep comes every 30 seconds,   *)
(* time passes, and an operating system reports a dead link in the end.      *)
(* Nothing obliges the device to stay, to speak or to come back.            *)
Fairness ==
    /\ WF_pvars(Sweep) /\ WF_pvars(GetSocket \/ Sent \/ SendFails)
    /\ WF_pvars(GoSilent /\ link = {})
    /\ \A k \in Sockets : WF_pvars(Handler(k))
    /\ \A a \in Actors  : WF_pvars(Going(a))

LiveSpec == PSpec /\ Fairness

-----------------------------------------------------------------------------
(* Properties.                                                             *)

PTypeOK ==
    /\ link \subseteq Sockets /\ closed \subseteq Sockets
    /\ pc \in [Sockets -> {"none", "enter", "closing", "tell", "write", "hello",
                           "loop", "sync", "ending", "gone", "rejected"}]
    /\ active \in {0} \cup Sockets /\ sending \in {0, Sender} \cup Sockets
    /\ status \in {"none", "online", "offline"} /\ silent \in BOOLEAN
    /\ off \in [Actors -> {"no", "write", "tell"}] /\ news \subseteq Actors
    /\ sends \in 0 .. MaxSends
    /\ db \in {"online", "offline"} /\ shown \in {"online", "offline"}

(* A socket whose handler has ended is never the registered one, however     *)
(* in whatever order handlers, watchdog and dispatcher clean up.  Only a     *)
(* handshake that fails after its registration leaves an entry behind.      *)
EndedIsUnregistered ==
    /\ active # 0 => pc[active] # "gone"
    /\ status = "online" => active # 0

(* What makes it inductive: the registered socket's handler has registered    *)
(* it and has not cleaned up.                                               *)
RegisteredIsServed ==
    active # 0 => pc[active] \in {"tell", "write", "hello", "loop", "sync", "ending",
                                   "rejected"}

PInv == PTypeOK /\ RegisteredIsServed /\ EndedIsUnregistered

(* ... and that entry, like a link that died unnoticed, does not keep the    *)
(* device online for ever.                                                  *)
GoneGoesOffline ==
    <>[](link = {}) => <>[](status # "online")

-----------------------------------------------------------------------------
(* What the comments say and the code does not do.                         *)

(* connect_device, "Anti-duplicidade: Fecha socket antigo antes de registrar *)
(* o novo": the connection that replaced the others stays registered while   *)
(* it is up and speaks.                                                     *)
NewestIsRegistered ==
    \A k \in Sockets :
        pc[k] = "loop" /\ k \in link \ closed /\ ~silent /\ sending = 0 => active = k
=============================================================================
