--------------------------- MODULE HttpConnection ---------------------------
(***************************************************************************)
(* One file descriptor of facil.io's server and the HTTP/1.1 connections   *)
(* that use it one after the other (fio.c, http1.c), between the threads   *)
(* of the pool.                                                            *)
(*                                                                         *)
(* fd_data(fd) is the slot.  Its counter is part of the uuid of the        *)
(* connection: fio_clear_fd adds one, so that a uuid that was kept tells   *)
(* whether the connection is still there.  Events become tasks; a task is  *)
(* run by any thread, at any later time.  Whatever reads shared state      *)
(* outside a lock is a step of its own; what a spin lock covers is one,    *)
(* except for the write to the socket, during which others see sock_lock.  *)
(*                                                                         *)
(* A request is <<connection, number, close>>: whether it asks for         *)
(* "connection: close".  One read takes whole requests (HttpParser).       *)
(***************************************************************************)
EXTENDS Naturals, Sequences, FiniteSets, Folds

CONSTANTS
  Threads,      \* the threads of the pool
  MaxConns,     \* bound: connections
  MaxEvents,    \* bound: connections, requests, hang-ups, timeouts and full buffers together
  MaxPending,   \* http1_consume_data throttles a client with more answers waiting
  Pipeline      \* pipeline_limit

ASSUME HttpAssumption ==
  /\ IsFiniteSet(Threads) /\ Threads # {}
  /\ MaxConns \in Nat \ {0} /\ MaxEvents \in Nat \ {0}
  /\ MaxPending \in Nat /\ Pipeline \in Nat \ {0}

Conns == 1 .. MaxConns
None == 0
Locks == {"task", "write", "state"}
Requests == Conns \X (1 .. MaxEvents) \X BOOLEAN

VARIABLES
  slot,      \* fd_data(fd)
  sock,      \* the connection the fd is open for
  armed,     \* the events epoll waits for
  accepted,  \* how many connections were accepted
  inbox,     \* what each client sent and nobody read
  asked,     \* how many requests it sent
  hungup,    \* the clients that closed
  outbox,    \* what was written to each socket
  proto,     \* the protocol objects (http1pr_s), one for each accept
  urgent,    \* the urgent tasks
  normal,    \* the other tasks
  thread,    \* the threads
  mishaps,   \* how many timeouts and full socket buffers there were
  dropped,   \* the connections that a close took answers or requests from
  mixed,     \* a system call or a close met another connection than it meant
  strays     \* passes over this connection's requests by tasks of earlier ones

env == <<inbox, asked, hungup, mishaps>>
ghost == <<dropped, mixed, strays>>
vars == <<slot, sock, armed, accepted, env, outbox, proto, urgent, normal, thread, ghost>>

(* A task: its function, its uuid (or, of deferred_on_close, protocol) and *)
(* whether the event was forced.                                           *)
Task(kind, id, force) == [kind |-> kind, id |-> id, force |-> force]

Valid(uuid) == uuid = slot.counter
IsClosed(uuid) == ~Valid(uuid) \/ ~slot.open \/ slot.closing # 0

(* The uuid that the socket's connection was given, or None.               *)
SockUuid == IF sock = None THEN None ELSE proto[sock].uuid

Goto(t, place) == thread' = [thread EXCEPT ![t].at = place]

Idle == [at |-> "idle", uuid |-> 0, target |-> 0, pr |-> None, left |-> 0,
         force |-> FALSE, again |-> FALSE, stack |-> <<>>]

Rest(t) == thread' = [thread EXCEPT ![t] = Idle]

(* Calls of fio_flush, fio_close and fio_force_close, and their returns.   *)
Call(t, place, uuid, back) ==
  thread' = [thread EXCEPT ![t].at = place,
                           ![t].target = uuid,
                           ![t].stack = <<back>> \o @]
Return(t) ==
  LET back == Head(thread[t].stack) IN
  IF back = "idle"
  THEN Rest(t)
  ELSE thread' = [thread EXCEPT ![t].at = back,
                                ![t].target = IF back \in {"flushed", "end"} THEN @ ELSE 0,
                                ![t].again = FALSE,
                                ![t].stack = Tail(@)]

PushNormal(task) == normal' = Append(normal, task)
PushUrgent(task) == urgent' = Append(urgent, task)

(* epoll_ctl of a descriptor that is not open fails.                       *)
Arm(events) == armed' = IF sock = None THEN armed ELSE armed \cup events

Init ==
  /\ slot = [counter |-> 0, open |-> FALSE, closing |-> 0, protocol |-> None,
             packets |-> <<>>, sock_lock |-> FALSE, scheduled |-> FALSE,
             quiet |-> FALSE]
  /\ sock = None /\ armed = {} /\ accepted = 0
  /\ inbox = [c \in Conns |-> <<>>]
  /\ asked = [c \in Conns |-> 0]
  /\ hungup = {}
  /\ outbox = [c \in Conns |-> <<>>]
  /\ proto = [c \in Conns |-> [uuid |-> 0, life |-> "none", locks |-> {},
                              buf |-> <<>>, stop |-> FALSE, close |-> FALSE]]
  /\ urgent = <<>> /\ normal = <<>>
  /\ thread = [t \in Threads |-> Idle]
  /\ mishaps = 0
  /\ dropped = {} /\ mixed = FALSE /\ strays = 0

-----------------------------------------------------------------------------
(* The clients.                                                            *)

Happened ==
  accepted + Cardinality(hungup) + mishaps
  + MapThenFoldSet(+, 0, LAMBDA c : asked[c], LAMBDA S : CHOOSE c \in S : TRUE, Conns)

Send(c) ==
  /\ sock = c /\ c \notin hungup
  /\ Happened < MaxEvents
  /\ asked' = [asked EXCEPT ![c] = @ + 1]
  /\ \E close \in BOOLEAN :
       inbox' = [inbox EXCEPT ![c] = Append(@, <<c, asked'[c], close>>)]
  /\ UNCHANGED <<slot, sock, armed, accepted, hungup, outbox, proto, urgent,
                 normal, thread, mishaps, ghost>>

HangUp(c) ==
  /\ sock = c /\ c \notin hungup
  /\ Happened < MaxEvents
  /\ hungup' = hungup \cup {c}
  /\ UNCHANGED <<slot, sock, armed, accepted, inbox, asked, outbox, proto,
                 urgent, normal, thread, mishaps, ghost>>

-----------------------------------------------------------------------------
(* Opening and closing.                                                    *)

(* fio_clear_fd; the caller holds protocol_lock.  (The counter has 8 bits  *)
(* in the code; Nat stands for fewer than 256 connections on a descriptor.)*)
ClearFd(open) ==
  /\ ~slot.sock_lock
  /\ slot' = [counter |-> slot.counter + 1, open |-> open, closing |-> 0,
              protocol |-> None, packets |-> <<>>, sock_lock |-> FALSE,
              scheduled |-> FALSE, quiet |-> FALSE]
  /\ strays' = 0
  /\ IF slot.protocol = None
     THEN UNCHANGED normal
     ELSE PushNormal(Task("on_close", slot.protocol, FALSE))

(* fio_listen_on_data: accept gives the descriptor while it is not open.   *)
Accept(t) ==
  /\ thread[t].at = "idle"
  /\ sock = None
  /\ accepted < MaxConns /\ Happened < MaxEvents
  /\ accepted' = accepted + 1
  /\ sock' = accepted'
  /\ thread' = [thread EXCEPT ![t].at = "open", ![t].pr = accepted']
  /\ UNCHANGED <<slot, armed, env, outbox, proto, urgent, normal, ghost>>

Open(t) ==
  /\ thread[t].at = "open"
  /\ ClearFd(TRUE)
  /\ Goto(t, "name")
  /\ UNCHANGED <<sock, armed, accepted, env, outbox, proto, urgent, dropped, mixed>>

(* The uuid is made when protocol_lock was released.                       *)
Name(t) ==
  LET c == thread[t].pr IN
  /\ thread[t].at = "name"
  /\ proto' = [proto EXCEPT ![c].uuid = slot.counter, ![c].life = "live"]
  /\ Goto(t, "attach")
  /\ UNCHANGED <<slot, sock, armed, accepted, env, outbox, urgent, normal, ghost>>

(* http1_new: fio_attach, which takes the uuid's validity for the socket's.*)
Attach(t) ==
  LET c == thread[t].pr IN
  /\ thread[t].at = "attach"
  /\ IF Valid(proto[c].uuid)
     THEN /\ slot' = [slot EXCEPT !.open = TRUE, !.protocol = c, !.quiet = FALSE]
          /\ IF slot.protocol = None
             THEN Arm({"in", "out"}) /\ UNCHANGED normal
             ELSE PushNormal(Task("on_close", slot.protocol, FALSE)) /\ UNCHANGED armed
     ELSE /\ PushNormal(Task("on_close", c, FALSE))
          /\ UNCHANGED <<slot, armed>>
  /\ Rest(t)
  /\ UNCHANGED <<sock, accepted, env, outbox, proto, urgent, ghost>>

(* fio_force_close: the uuid is looked at once, before all that follows.   *)
ForceClose(t) ==
  /\ thread[t].at = "close"
  /\ IF Valid(thread[t].target)
     THEN /\ slot' = [slot EXCEPT !.closing = IF @ = 0 THEN 1 ELSE @]
          /\ Goto(t, "drop")
     ELSE /\ Return(t)
          /\ UNCHANGED slot
  /\ UNCHANGED <<sock, armed, accepted, env, outbox, proto, urgent, normal, ghost>>

(* A closer that comes late meets the connection after its own.            *)
Late(t) == slot.open /\ ~Valid(thread[t].target)

DropPackets(t) ==
  /\ thread[t].at = "drop"
  /\ ~slot.sock_lock
  /\ slot' = [slot EXCEPT !.packets = <<>>]
  /\ dropped' = IF slot.packets = <<>> THEN dropped ELSE dropped \cup {slot.protocol}
  /\ mixed' = (mixed \/ Late(t))
  /\ Goto(t, "clear")
  /\ UNCHANGED <<sock, armed, accepted, env, outbox, proto, urgent, normal, strays>>

ClearClosed(t) ==
  /\ thread[t].at = "clear"
  /\ ClearFd(FALSE)
  /\ mixed' = (mixed \/ Late(t))
  /\ Goto(t, "shut")
  /\ UNCHANGED <<sock, armed, accepted, env, outbox, proto, urgent, dropped>>

CloseSocket(t) ==
  /\ thread[t].at = "shut"
  /\ sock' = None
  /\ armed' = {}
  /\ mixed' = (mixed \/ (sock # None /\ SockUuid # thread[t].target))
  /\ Return(t)
  /\ UNCHANGED <<slot, accepted, env, outbox, proto, urgent, normal, dropped, strays>>

(* fio_close: is there something left to be sent?                          *)
CloseLater(t) ==
  /\ thread[t].at = "end"
  /\ IF ~Valid(thread[t].target)
     THEN Return(t)
     ELSE Goto(t, IF slot.packets # <<>> \/ slot.sock_lock THEN "mark" ELSE "close")
  /\ UNCHANGED <<slot, sock, armed, accepted, env, outbox, proto, urgent, normal, ghost>>

MarkClosing(t) ==
  /\ thread[t].at = "mark"
  /\ slot' = [slot EXCEPT !.closing = 1]
  /\ mixed' = (mixed \/ Late(t))
  /\ IF Valid(thread[t].target)
     THEN PushUrgent(Task("on_ready", thread[t].target, FALSE))
     ELSE UNCHANGED urgent
  /\ Return(t)
  /\ UNCHANGED <<sock, armed, accepted, env, outbox, proto, normal, dropped, strays>>

(* deferred_on_close that does not look at the locks.                      *)
OnClose_NoLockBug(t) ==
  LET c == thread[t].uuid IN
  /\ thread[t].at = "on_close"
  /\ proto' = [proto EXCEPT ![c] = [@ EXCEPT !.life = "gone", !.buf = <<>>]]
  /\ Rest(t)
  /\ UNCHANGED <<slot, sock, armed, accepted, env, outbox, urgent, normal, ghost>>

(* deferred_on_close, then http1_on_close.                                 *)
OnClose(t) ==
  LET c == thread[t].uuid IN
  /\ thread[t].at = "on_close"
  /\ IF proto[c].locks # {}
     THEN /\ PushNormal(Task("on_close", c, FALSE))
          /\ UNCHANGED proto
     ELSE /\ proto' = [proto EXCEPT ![c] = [@ EXCEPT !.life = "gone", !.buf = <<>>]]
          /\ UNCHANGED normal
  /\ Rest(t)
  /\ UNCHANGED <<slot, sock, armed, accepted, env, outbox, urgent, ghost>>

-----------------------------------------------------------------------------
(* Events and tasks.                                                       *)

Readable == inbox[sock] # <<>>

(* fio_poll gets an event of the descriptor; an event is given once until  *)
(* it is armed again.  A client that is gone is no event to read or write. *)
Poll(t) ==
  /\ thread[t].at = "idle"
  /\ sock # None
  /\ \E event \in armed :
       /\ armed' = armed \ {event}
       /\ IF sock \in hungup
          THEN Goto(t, "polled hup")
          ELSE /\ event = "in" => Readable
               /\ Goto(t, IF event = "in" THEN "polled in" ELSE "polled out")
  /\ UNCHANGED <<slot, sock, accepted, env, outbox, proto, urgent, normal, ghost>>

(* It makes a task of it, for the uuid the slot has by then.               *)
Polled(t) ==
  /\ \/ /\ thread[t].at = "polled in"
        /\ PushNormal(Task("on_data", slot.counter, FALSE))
        /\ Rest(t)
        /\ UNCHANGED <<slot, urgent>>
     \/ /\ thread[t].at = "polled out"
        /\ PushUrgent(Task("on_ready", slot.counter, FALSE))
        /\ Rest(t)
        /\ UNCHANGED <<slot, normal>>
     \/ /\ thread[t].at = "polled hup"
        /\ slot' = [slot EXCEPT !.closing = 2]
        /\ Call(t, "close", slot.counter, "idle")
        /\ UNCHANGED <<urgent, normal>>
  /\ UNCHANGED <<sock, armed, accepted, env, outbox, proto, ghost>>

(* fio_defer_perform.                                                      *)
Take(t) ==
  /\ thread[t].at = "idle"
  /\ LET task == IF urgent # <<>> THEN Head(urgent) ELSE Head(normal) IN
     /\ urgent \o normal # <<>>
     /\ thread' = [thread EXCEPT ![t] =
                     IF task.kind = "on_ready"
                     THEN [Idle EXCEPT !.at = "flush", !.target = task.id, !.stack = <<"idle">>]
                     ELSE [Idle EXCEPT !.at = task.kind, !.uuid = task.id, !.force = task.force]]
  /\ IF urgent # <<>>
     THEN urgent' = Tail(urgent) /\ UNCHANGED normal
     ELSE normal' = Tail(normal) /\ UNCHANGED urgent
  /\ UNCHANGED <<slot, sock, armed, accepted, env, outbox, proto, ghost>>

(* protocol_try_lock, of the slot's protocol whatever its uuid.  What      *)
(* protocol_lock covers is a step, so nobody is met inside it; a task that *)
(* would block there is pushed again, as one that meets another's lock.    *)
CanLock(lock) == slot.protocol # None /\ lock \notin proto[slot.protocol].locks

Lock(t, lock, place) ==
  /\ proto' = [proto EXCEPT ![slot.protocol].locks = @ \cup {lock}]
  /\ thread' = [thread EXCEPT ![t].at = place, ![t].pr = slot.protocol]

Unlock(t, lock) == proto' = [proto EXCEPT ![thread[t].pr].locks = @ \ {lock}]

-----------------------------------------------------------------------------
(* Sending.                                                                *)

(* deferred_on_ready begins with fio_flush; so does the write of an answer *)
(* to a connection that had none waiting.                                  *)
Flush(t) ==
  /\ thread[t].at = "flush"
  /\ IF Valid(thread[t].target) /\ ~slot.sock_lock
     THEN /\ slot' = [slot EXCEPT !.sock_lock = TRUE]
          /\ Goto(t, "write")
     ELSE /\ thread' = [thread EXCEPT ![t].at = "flushed",
                                     ![t].again = Valid(thread[t].target)]
          /\ UNCHANGED slot
  /\ UNCHANGED <<sock, armed, accepted, env, outbox, proto, urgent, normal, ghost>>

(* The packet is written, or the socket's buffer is full, or the client is *)
(* known to be gone: of the errors that tell so some lead to the close     *)
(* (EPIPE), others leave the packet and are taken for nothing to send      *)
(* (ECONNRESET).  Without a packet nothing is done.  A write is a whole    *)
(* packet: what is left of one that was written in part waits as if none   *)
(* of it were.                                                             *)
Write(t) ==
  /\ thread[t].at = "write"
  /\ \/ /\ slot.packets = <<>>
        /\ slot' = [slot EXCEPT !.sock_lock = FALSE]
        /\ thread' = [thread EXCEPT ![t].at = "flushed", ![t].again = FALSE]
        /\ UNCHANGED <<outbox, mishaps>>
     \/ /\ slot.packets # <<>>
        /\ sock # None
        /\ outbox' = [outbox EXCEPT ![sock] = Append(@, Head(slot.packets))]
        /\ slot' = [slot EXCEPT !.packets = Tail(@), !.sock_lock = FALSE]
        /\ Goto(t, "sent")
        /\ UNCHANGED mishaps
     \/ /\ slot.packets # <<>>
        /\ sock # None
        /\ Happened < MaxEvents
        /\ mishaps' = mishaps + 1
        /\ slot' = [slot EXCEPT !.sock_lock = FALSE]
        /\ thread' = [thread EXCEPT ![t].at = "flushed", ![t].again = TRUE]
        /\ UNCHANGED outbox
     \/ /\ slot.packets # <<>>
        /\ sock \in hungup \cup {None}
        /\ slot' = [slot EXCEPT !.sock_lock = FALSE]
        /\ Goto(t, "failed")
        /\ UNCHANGED <<outbox, mishaps>>
     \/ /\ slot.packets # <<>>
        /\ sock \in hungup
        /\ slot' = [slot EXCEPT !.sock_lock = FALSE]
        /\ thread' = [thread EXCEPT ![t].at = "flushed", ![t].again = FALSE]
        /\ UNCHANGED <<outbox, mishaps>>
  /\ UNCHANGED <<sock, armed, accepted, inbox, asked, hungup, proto, urgent, normal, ghost>>

Failed(t) ==
  /\ thread[t].at = "failed"
  /\ slot' = [slot EXCEPT !.closing = 1]
  /\ mixed' = (mixed \/ Late(t))
  /\ thread' = [thread EXCEPT ![t].at = "close", ![t].again = FALSE,
                             ![t].stack = <<"flushed">> \o @]
  /\ UNCHANGED <<sock, armed, accepted, env, outbox, proto, urgent, normal, dropped,
                 strays>>

(* The marker of fio_close is looked at when sock_lock was released.       *)
Sent(t) ==
  /\ thread[t].at = "sent"
  /\ thread' = IF slot.packets = <<>> /\ slot.closing # 0
               THEN [thread EXCEPT ![t].at = "close", ![t].again = FALSE,
                                   ![t].stack = <<"flushed">> \o @]
               ELSE [thread EXCEPT ![t].at = "flushed",
                                   ![t].again = slot.open /\ slot.packets # <<>>]
  /\ UNCHANGED <<slot, sock, armed, accepted, env, outbox, proto, urgent, normal, ghost>>

(* The rest of deferred_on_ready.                                          *)
Flushed(t) ==
  LET uuid == thread[t].target IN
  /\ thread[t].at = "flushed"
  /\ IF thread[t].again
     THEN IF thread[t].force
          THEN PushUrgent(Task("on_ready", uuid, FALSE)) /\ UNCHANGED <<armed, normal>>
          ELSE Arm({"out"}) /\ UNCHANGED <<urgent, normal>>
     ELSE /\ IF slot.protocol = None
             THEN UNCHANGED normal
             ELSE PushNormal(Task("on_ready_usr", uuid, FALSE))
          /\ UNCHANGED <<armed, urgent>>
  /\ Return(t)
  /\ UNCHANGED <<slot, sock, accepted, env, outbox, proto, ghost>>

(* deferred_on_ready_usr looks at no uuid.                                 *)
OnReadyUsr(t) ==
  /\ thread[t].at = "on_ready_usr"
  /\ IF CanLock("write")
     THEN Lock(t, "write", "ready") /\ UNCHANGED normal
     ELSE /\ IF slot.protocol = None
             THEN UNCHANGED normal
             ELSE PushNormal(Task("on_ready", thread[t].uuid, FALSE))
          /\ Rest(t)
          /\ UNCHANGED proto
  /\ UNCHANGED <<slot, sock, armed, accepted, env, outbox, urgent, ghost>>

(* fio_force_event of on_data.                                             *)
ForceData(uuid) ==
  IF Valid(uuid)
  THEN /\ slot' = [slot EXCEPT !.scheduled = TRUE]
       /\ PushNormal(Task("on_data", uuid, TRUE))
  ELSE UNCHANGED <<slot, normal>>

(* http1_on_ready ends the throttling of a client.                         *)
Ready(t) ==
  LET c == thread[t].pr IN
  /\ thread[t].at = "ready"
  /\ IF proto[c].stop
     THEN /\ proto' = [proto EXCEPT ![c].stop = FALSE]
          /\ ForceData(thread[t].uuid)
     ELSE UNCHANGED <<proto, slot, normal>>
  /\ Goto(t, "unlock write")
  /\ UNCHANGED <<sock, armed, accepted, env, outbox, urgent, ghost>>

UnlockWrite(t) ==
  /\ thread[t].at = "unlock write"
  /\ Unlock(t, "write")
  /\ Rest(t)
  /\ UNCHANGED <<slot, sock, armed, accepted, env, outbox, urgent, normal, ghost>>

-----------------------------------------------------------------------------
(* Receiving.                                                              *)

(* deferred_on_data: a task for a connection that is closed does nothing.  *)
OnData(t) ==
  LET uuid == thread[t].uuid IN
  /\ thread[t].at = "on_data"
  /\ IF IsClosed(uuid)
     THEN Rest(t)
     ELSE IF slot.protocol = None
          THEN Call(t, "flush", uuid, "idle")
          ELSE Goto(t, "lock task")
  /\ UNCHANGED <<slot, sock, armed, accepted, env, outbox, proto, urgent, normal, ghost>>

(* Another thread may be in on_data; a forced event must not be lost.      *)
LockTask(t) ==
  /\ thread[t].at = "lock task"
  /\ IF CanLock("task")
     THEN /\ Lock(t, "task", "data")
          /\ slot' = [slot EXCEPT !.scheduled = FALSE]
          /\ UNCHANGED <<armed, normal>>
     ELSE /\ IF slot.protocol = None
             THEN UNCHANGED <<armed, normal>>
             ELSE IF thread[t].force
                  THEN PushNormal(Task("on_data", thread[t].uuid, TRUE)) /\ UNCHANGED armed
                  ELSE Arm({"in"}) /\ UNCHANGED normal
          /\ Rest(t)
          /\ UNCHANGED <<proto, slot>>
  /\ UNCHANGED <<sock, accepted, env, outbox, urgent, ghost>>

Suspend(uuid) == slot' = [slot EXCEPT !.scheduled = @ \/ Valid(uuid)]

(* http1_on_data; fio_read begins with the uuid ...                        *)
Data(t) ==
  LET uuid == thread[t].uuid IN
  /\ thread[t].at = "data"
  /\ IF proto[thread[t].pr].stop
     THEN Suspend(uuid) /\ Goto(t, "unlock task")
     ELSE Goto(t, IF Valid(uuid) /\ slot.open THEN "read" ELSE "consume") /\ UNCHANGED slot
  /\ UNCHANGED <<sock, armed, accepted, env, outbox, proto, urgent, normal, ghost>>

(* ... and reads what the descriptor is open for.                          *)
Read(t) ==
  /\ thread[t].at = "read"
  /\ IF sock = None \/ (inbox[sock] = <<>> /\ sock \in hungup)
     THEN Call(t, "close", thread[t].uuid, "consume") /\ UNCHANGED <<slot, proto, inbox, ghost>>
     ELSE /\ proto' = [proto EXCEPT ![thread[t].pr].buf = @ \o inbox[sock]]
          /\ inbox' = [inbox EXCEPT ![sock] = <<>>]
          /\ mixed' = (mixed \/ (inbox[sock] # <<>> /\ sock # thread[t].pr))
          /\ slot' = [slot EXCEPT !.quiet = @ /\ ~(Valid(thread[t].uuid) /\ Readable)]
          /\ UNCHANGED <<dropped, strays>>
        /\ Goto(t, "consume")
  /\ UNCHANGED <<sock, armed, accepted, asked, hungup, outbox, urgent, normal,
                 mishaps>>

(* The loop over the requests in the buffer, which may leave some for a    *)
(* forced event.                                                           *)
Loop(buf, left) ==
  IF left = 0 THEN "force" ELSE IF buf = <<>> THEN "unlock task" ELSE "answer"

ForceMore(t) ==
  /\ thread[t].at = "force"
  /\ ForceData(thread[t].uuid)
  /\ Goto(t, "unlock task")
  /\ UNCHANGED <<sock, armed, accepted, env, outbox, proto, urgent, ghost>>

(* A client that reads slowly is not throttled.                            *)
Consume_NoThrottleBug(t) ==
  /\ thread[t].at = "consume"
  /\ thread' = [thread EXCEPT ![t].at = Loop(proto[thread[t].pr].buf, Pipeline),
                             ![t].left = Pipeline]
  /\ UNCHANGED <<slot, sock, armed, accepted, env, outbox, proto, urgent, normal, ghost>>

(* http1_consume_data: fio_pending, which is 0 for a uuid that is not      *)
(* valid: a task of an earlier connection does not throttle this one.      *)
Consume(t) ==
  /\ thread[t].at = "consume"
  /\ thread' = IF Valid(thread[t].uuid) /\ Len(slot.packets) > MaxPending
               THEN [thread EXCEPT ![t].at = "throttle"]
               ELSE [thread EXCEPT ![t].at = Loop(proto[thread[t].pr].buf, Pipeline),
                                   ![t].left = Pipeline]
  /\ strays' = IF ~Valid(thread[t].uuid) /\ thread[t].pr = slot.protocol
               THEN strays + 1 ELSE strays
  /\ UNCHANGED <<slot, sock, armed, accepted, env, outbox, proto, urgent, normal,
                 dropped, mixed>>

Throttle(t) ==
  /\ thread[t].at = "throttle"
  /\ proto' = [proto EXCEPT ![thread[t].pr].stop = TRUE]
  /\ Suspend(thread[t].uuid)
  /\ Goto(t, "unlock task")
  /\ UNCHANGED <<sock, armed, accepted, env, outbox, urgent, normal, ghost>>

(* fio_write2 without the second test of the uuid.                         *)
Answer_StaleBug(t) ==
  LET c == thread[t].pr
      request == Head(proto[c].buf)
      uuid == proto[c].uuid
      close == proto[c].close \/ request[3]
      after == IF close THEN <<"end", "answered">> ELSE <<"answered">>
      flush == Valid(uuid) /\ slot.packets = <<>>
  IN
  /\ thread[t].at = "answer"
  /\ ~slot.sock_lock
  /\ proto' = [proto EXCEPT ![c].close = close]
  /\ slot' = [slot EXCEPT !.packets = Append(@, request), !.quiet = @ /\ ~flush]
  /\ thread' = [thread EXCEPT ![t].at = IF flush THEN "flush" ELSE Head(after),
                             ![t].target = IF flush \/ close THEN uuid ELSE 0,
                             ![t].force = TRUE,
                             ![t].stack = IF flush THEN after ELSE Tail(after)]
  /\ UNCHANGED <<sock, armed, accepted, env, outbox, urgent, normal, ghost>>

(* http1_send_body: headers2str, and fio_write2, which tests the uuid when *)
(* it has sock_lock.                                                       *)
Answer(t) ==
  LET c == thread[t].pr
      request == Head(proto[c].buf)
      uuid == proto[c].uuid
      close == proto[c].close \/ request[3]
      after == IF close THEN <<"end", "answered">> ELSE <<"answered">>
      flush == Valid(uuid) /\ slot.packets = <<>>
  IN
  /\ thread[t].at = "answer"
  /\ ~slot.sock_lock
  /\ proto' = [proto EXCEPT ![c].close = close]
  /\ IF Valid(uuid)
     THEN slot' = [slot EXCEPT !.packets = Append(@, request), !.quiet = @ /\ ~flush]
     ELSE UNCHANGED slot
  /\ thread' = [thread EXCEPT ![t].at = IF flush THEN "flush" ELSE Head(after),
                             ![t].target = IF flush \/ close THEN uuid ELSE 0,
                             ![t].force = TRUE,
                             ![t].stack = IF flush THEN after ELSE Tail(after)]
  /\ UNCHANGED <<sock, armed, accepted, env, outbox, urgent, normal, ghost>>

(* http1_on_request says whether to go on; if not, http1_on_error, and the *)
(* rest of the buffer is dropped.                                          *)
Answered(t) ==
  LET p == proto[thread[t].pr]
      buf == IF IsClosed(p.uuid) THEN <<>> ELSE Tail(p.buf)
      next == Loop(buf, thread[t].left - 1)
      error == IsClosed(p.uuid) /\ ~p.close
  IN
  /\ thread[t].at = "answered"
  /\ proto' = [proto EXCEPT ![thread[t].pr].buf = buf]
  /\ thread' = [thread EXCEPT ![t].at = IF error THEN "end" ELSE next,
                             ![t].target = IF error THEN p.uuid ELSE 0,
                             ![t].left = IF next = "answer" THEN @ - 1 ELSE 0,
                             ![t].stack = IF error THEN <<next>> ELSE <<>>]
  /\ dropped' = IF IsClosed(p.uuid) /\ Tail(p.buf) # <<>>
                THEN dropped \cup {thread[t].pr} ELSE dropped
  /\ UNCHANGED <<slot, sock, armed, accepted, env, outbox, urgent, normal, mixed, strays>>

UnlockTask(t) ==
  /\ thread[t].at = "unlock task"
  /\ Unlock(t, "task")
  /\ Goto(t, "rearm")
  /\ UNCHANGED <<slot, sock, armed, accepted, env, outbox, urgent, normal, ghost>>

(* The end of deferred_on_data: the next event, unless there is one or     *)
(* the client is throttled.                                                *)
Rearm(t) ==
  /\ thread[t].at = "rearm"
  /\ IF slot.scheduled
     THEN UNCHANGED <<slot, armed>>
     ELSE slot' = [slot EXCEPT !.scheduled = TRUE] /\ Arm({"in"})
  /\ Rest(t)
  /\ UNCHANGED <<sock, accepted, env, outbox, proto, urgent, normal, ghost>>

-----------------------------------------------------------------------------
(* Timeouts.                                                               *)

(* fio_review_timeout, when nothing happened for longer than the timeout.  *)
Review(t) ==
  /\ thread[t].at = "idle"
  /\ slot.open
  /\ Happened < MaxEvents
  /\ mishaps' = mishaps + 1
  /\ CanLock("state")
  /\ Lock(t, "state", "review")
  /\ slot' = [slot EXCEPT !.quiet = TRUE]
  /\ UNCHANGED <<sock, armed, accepted, inbox, asked, hungup, outbox, urgent, normal, ghost>>

(* No ping while a callback runs: the two locks are looked at one after    *)
(* the other.                                                              *)
Reviewed(t) ==
  /\ \/ /\ thread[t].at = "review"
        /\ Goto(t, IF "task" \in proto[thread[t].pr].locks THEN "unlock state" ELSE "reviewed")
     \/ /\ thread[t].at = "reviewed"
        /\ Goto(t, IF "write" \in proto[thread[t].pr].locks THEN "unlock state" ELSE "fd2uuid")
  /\ UNCHANGED <<slot, sock, armed, accepted, env, outbox, proto, urgent, normal, ghost>>

(* fio_fd2uuid opens a slot that was closed.                               *)
FindUuid(t) ==
  /\ thread[t].at = "fd2uuid"
  /\ Goto(t, IF slot.open THEN "push ping" ELSE "reopen")
  /\ UNCHANGED <<slot, sock, armed, accepted, env, outbox, proto, urgent, normal, ghost>>

Reopen(t) ==
  /\ thread[t].at = "reopen"
  /\ ClearFd(TRUE)
  /\ mixed' = (mixed \/ slot.open)
  /\ Goto(t, "push ping")
  /\ UNCHANGED <<sock, armed, accepted, env, outbox, proto, urgent, dropped>>

PushPing(t) ==
  /\ thread[t].at = "push ping"
  /\ PushNormal(Task("ping", slot.counter, FALSE))
  /\ Goto(t, "unlock state")
  /\ UNCHANGED <<slot, sock, armed, accepted, env, outbox, proto, urgent, ghost>>

UnlockState(t) ==
  /\ thread[t].at = "unlock state"
  /\ Unlock(t, "state")
  /\ Rest(t)
  /\ UNCHANGED <<slot, sock, armed, accepted, env, outbox, urgent, normal, ghost>>

(* deferred_ping and mock_ping, unless something happened since.           *)
Ping(t) ==
  /\ thread[t].at = "ping"
  /\ IF slot.protocol = None \/ ~slot.quiet
     THEN Rest(t) /\ UNCHANGED <<proto, normal>>
     ELSE IF CanLock("write")
          THEN /\ proto' = [proto EXCEPT ![slot.protocol].locks = @ \cup {"write"}]
               /\ thread' = [thread EXCEPT ![t].at = "close", ![t].target = thread[t].uuid,
                                          ![t].pr = slot.protocol,
                                          ![t].stack = <<"unlock write">>]
               /\ UNCHANGED normal
          ELSE /\ PushNormal(Task("ping", thread[t].uuid, FALSE))
               /\ Rest(t)
               /\ UNCHANGED proto
  /\ UNCHANGED <<slot, sock, armed, accepted, env, outbox, urgent, ghost>>

-----------------------------------------------------------------------------
Closing(t) == ForceClose(t) \/ DropPackets(t) \/ ClearClosed(t) \/ CloseSocket(t)
              \/ CloseLater(t) \/ MarkClosing(t) \/ OnClose(t)
Sending(t) == Flush(t) \/ Write(t) \/ Failed(t) \/ Sent(t) \/ Flushed(t)
              \/ OnReadyUsr(t) \/ Ready(t) \/ UnlockWrite(t)
Receiving(t) == OnData(t) \/ LockTask(t) \/ Data(t) \/ Read(t) \/ Consume(t)
                \/ Throttle(t) \/ Answer(t) \/ Answered(t) \/ ForceMore(t)
                \/ UnlockTask(t) \/ Rearm(t)
TimingOut(t) == Reviewed(t) \/ FindUuid(t) \/ Reopen(t) \/ PushPing(t) \/ UnlockState(t)
                \/ Ping(t)

Step(t) == Open(t) \/ Name(t) \/ Attach(t) \/ Polled(t) \/ Take(t)
           \/ Closing(t) \/ Sending(t) \/ Receiving(t) \/ TimingOut(t)

Next ==
  \/ \E c \in Conns : Send(c) \/ HangUp(c)
  \/ \E t \in Threads : Accept(t) \/ Poll(t) \/ Review(t) \/ Step(t)

Spec == Init /\ [][Next]_vars

-----------------------------------------------------------------------------
(* What is written to a client are the answers to its own requests, in the *)
(* order it sent them, although the descriptor had other connections       *)
(* before; and none is left out before one that is written, unless a close *)
(* of the connection has thrown it away.  It is claimed of a connection    *)
(* until a system call or a close met it in place of another (mixed).      *)
OwnAnswersInOrder ==
  mixed \/ \A c \in Conns :
             LET out == outbox[c] IN
             /\ \A n \in DOMAIN out : out[n][1] = c
             /\ \A m, n \in DOMAIN out : m < n => out[m][2] < out[n][2]
             /\ c \in dropped \/ \A n \in DOMAIN out : out[n][2] = n

(* Throttling bounds the answers that wait for a slow client: tasks of     *)
(* earlier connections on the descriptor are not throttled, but each adds  *)
(* at most a pipeline of answers.                                          *)
WaitingBounded ==
  mixed \/ Len(slot.packets) <= MaxPending + Pipeline * (1 + strays)

(* The protocol objects live as facil.io promises.                         *)
Life == INSTANCE ProtocolLife WITH
          Protocols <- Conns,
          NoProtocol <- None,
          attached <- slot.protocol,
          ever <- {c \in Conns : proto[c].life # "none"
                                /\ \A t \in Threads : ~(thread[t].at = "attach" /\ thread[t].pr = c)},
          ended <- {c \in Conns : proto[c].life = "gone"},
          busy <- [c \in Conns |-> proto[c].locks]
ImplementsLife == Life!Spec
=============================================================================
