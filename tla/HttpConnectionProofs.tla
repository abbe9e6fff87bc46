------------------------ MODULE HttpConnectionProofs ------------------------
(***************************************************************************)
(* The protocol objects of a descriptor, for any number of threads and     *)
(* connections: callbacks run under their locks, and on_close is called    *)
(* once, for an object that the descriptor has no more and that no         *)
(* callback uses (ProtocolLife).                                           *)
(*                                                                         *)
(* Most steps leave the objects, their locks and the tasks that close them *)
(* alone (Quiet); the others are taken one by one.                         *)
(***************************************************************************)
EXTENDS HttpConnection, SequenceTheorems, TLAPS

(* Where a thread is between callbacks, under each lock of a protocol, and *)
(* in the functions that are called from several places.                   *)
FreePlaces == {"idle", "open", "name", "attach", "polled in", "polled out", "polled hup",
               "on_data", "lock task", "on_close", "on_ready_usr", "ping", "rearm"}
TaskPlaces == {"data", "read", "consume", "throttle", "force", "answer", "answered",
               "unlock task"}
WritePlaces == {"ready", "unlock write"}
StatePlaces == {"review", "reviewed", "fd2uuid", "reopen", "push ping", "unlock state"}
SendPlaces == {"flush", "write", "sent", "failed", "flushed"}
ClosePlaces == {"end", "mark", "close", "drop", "clear", "shut"}

(* Where those functions return to.                                        *)
TaskStacks == {<<"consume">>, <<"answered">>, <<"force">>, <<"unlock task">>, <<"answer">>,
               <<"end", "answered">>, <<"flushed", "answered">>,
               <<"flushed", "end", "answered">>}
SendStacks == {<<"idle">>, <<"answered">>, <<"end", "answered">>}
CloseStacks == {<<"idle">>, <<"flushed", "idle">>, <<"unlock write">>}
                 \cup (TaskStacks \ {<<"end", "answered">>})

Shape(th) ==
  /\ DOMAIN th = {"at", "uuid", "target", "pr", "left", "force", "again", "stack"}
  /\ th.uuid \in Nat /\ th.target \in Nat
  /\ \/ th.at \in FreePlaces \cup TaskPlaces \cup WritePlaces \cup StatePlaces /\ th.stack = <<>>
     \/ th.at \in SendPlaces /\ th.stack \in SendStacks
     \/ th.at \in ClosePlaces /\ th.stack \in CloseStacks

(* The lock of the protocol th.pr that a thread holds.                     *)
Holds(th, l) ==
  \/ l = "task" /\ (th.at \in TaskPlaces
                    \/ (th.at \in SendPlaces \cup ClosePlaces /\ th.stack \in TaskStacks))
  \/ l = "write" /\ (th.at \in WritePlaces
                     \/ (th.at \in ClosePlaces /\ th.stack = <<"unlock write">>))
  \/ l = "state" /\ th.at \in StatePlaces

(* A thread that accepted a connection and has not attached its protocol.  *)
Making(th) == th.at \in {"open", "name", "attach"}

Ever == {c \in Conns : /\ proto[c].life # "none"
                       /\ \A t \in Threads : ~(thread[t].at = "attach" /\ thread[t].pr = c)}

(* An object that waits for its on_close.                                  *)
Closable(c) == c \in Ever /\ proto[c].life = "live" /\ c # slot.protocol

TaskSet == [kind : {"on_data", "on_ready", "on_ready_usr", "on_close", "ping"},
            id : Nat, force : BOOLEAN]

SlotInv ==
  /\ DOMAIN slot = {"counter", "open", "closing", "protocol", "packets", "sock_lock",
                    "scheduled", "quiet"}
  /\ slot.counter \in Nat
  /\ slot.protocol \in Ever \cup {None}
  /\ slot.protocol # None => proto[slot.protocol].life = "live"

ProtoShape ==
  /\ DOMAIN proto = Conns
  /\ \A c \in Conns : /\ DOMAIN proto[c] = {"uuid", "life", "locks", "buf", "stop", "close"}
                      /\ proto[c].uuid \in Nat

ProtoInv ==
  /\ ProtoShape
  /\ accepted \in 0 .. MaxConns
  /\ \A c \in Conns : c > accepted => proto[c].life = "none"

QueueInv ==
  /\ normal \in Seq(TaskSet) /\ urgent \in Seq(TaskSet)
  /\ \A n \in DOMAIN urgent : urgent[n].kind # "on_close"
  /\ \A n \in DOMAIN normal : normal[n].kind = "on_close" => Closable(normal[n].id)
  /\ \A m, n \in DOMAIN normal :
       normal[m].kind = "on_close" /\ normal[n].kind = "on_close"
         /\ normal[m].id = normal[n].id => m = n

ThreadInv(t) ==
  /\ Shape(thread[t])
  /\ Making(thread[t]) =>
       /\ thread[t].pr \in Conns /\ thread[t].pr <= accepted
       /\ proto[thread[t].pr].life = IF thread[t].at = "attach" THEN "live" ELSE "none"
  /\ thread[t].at = "on_close" =>
       /\ Closable(thread[t].uuid)
       /\ \A n \in DOMAIN normal :
            ~(normal[n].kind = "on_close" /\ normal[n].id = thread[t].uuid)
  /\ \A l \in Locks : Holds(thread[t], l) =>
       thread[t].pr \in Conns /\ l \in proto[thread[t].pr].locks

(* Two threads do not make, close or hold the same.                        *)
Apart(t, u) ==
  /\ Making(thread[t]) /\ Making(thread[u]) => thread[t].pr # thread[u].pr
  /\ thread[t].at = "on_close" /\ thread[u].at = "on_close" => thread[t].uuid # thread[u].uuid
  /\ \A l \in Locks :
       Holds(thread[t], l) /\ Holds(thread[u], l) => thread[t].pr # thread[u].pr

Inv ==
  /\ SlotInv /\ ProtoInv /\ QueueInv
  /\ DOMAIN thread = Threads
  /\ \A t \in Threads : ThreadInv(t)
  /\ \A t, u \in Threads : t # u => Apart(t, u)

-----------------------------------------------------------------------------
(* Tasks.                                                                  *)

LEMMA Appended ==
  ASSUME NEW q \in Seq(TaskSet), NEW k \in TaskSet
  PROVE  /\ Append(q, k) \in Seq(TaskSet)
         /\ DOMAIN Append(q, k) = 1 .. (Len(q) + 1)
         /\ DOMAIN q = 1 .. Len(q) /\ Len(q) \in Nat
         /\ \A n \in 1 .. Len(q) : Append(q, k)[n] = q[n]
         /\ Append(q, k)[Len(q) + 1] = k
OBVIOUS

LEMMA Popped ==
  ASSUME NEW q \in Seq(TaskSet), q # <<>>
  PROVE  /\ Tail(q) \in Seq(TaskSet) /\ Head(q) \in TaskSet
         /\ Head(q) = q[1] /\ 1 \in DOMAIN q
         /\ \A n \in DOMAIN Tail(q) : n + 1 \in DOMAIN q /\ Tail(q)[n] = q[n + 1] /\ n \in Nat \ {0}
<1>1. Len(q) \in Nat \ {0} /\ DOMAIN q = 1 .. Len(q)
  OBVIOUS
<1>2. Tail(q) \in Seq(TaskSet) /\ DOMAIN Tail(q) = 1 .. (Len(q) - 1)
      /\ \A n \in 1 .. (Len(q) - 1) : Tail(q)[n] = q[n + 1]
  BY <1>1
<1>3. Head(q) = q[1] /\ q[1] \in TaskSet
  BY <1>1
<1> QED
  BY <1>1, <1>2, <1>3

(* Stacks.                                                                 *)
LEMMA Pushed1 ==
  ASSUME NEW a, NEW b
  PROVE  <<a>> \o <<b>> = <<a, b>>
<1>1. <<a>> \in Seq({a, b}) /\ <<b>> \in Seq({a, b}) /\ <<a, b>> \in Seq({a, b})
  OBVIOUS
<1>2. Len(<<a>> \o <<b>>) = 2 /\ \A i \in 1 .. 2 : (<<a>> \o <<b>>)[i] = <<a, b>>[i]
  BY <1>1
<1> QED
  BY <1>1, <1>2, SeqEqual, ConcatProperties

LEMMA Pushed2 ==
  ASSUME NEW a, NEW b, NEW c
  PROVE  <<a>> \o <<b, c>> = <<a, b, c>>
<1>1. /\ <<a>> \in Seq({a, b, c}) /\ <<b, c>> \in Seq({a, b, c})
      /\ <<a, b, c>> \in Seq({a, b, c})
  OBVIOUS
<1>2. Len(<<a>> \o <<b, c>>) = 3 /\ \A i \in 1 .. 3 : (<<a>> \o <<b, c>>)[i] = <<a, b, c>>[i]
  BY <1>1
<1> QED
  BY <1>1, <1>2, SeqEqual, ConcatProperties

-----------------------------------------------------------------------------
(* Steps that concern no object.                                           *)

Special(th) == Making(th) \/ th.at = "on_close"

QuietSlot ==
  /\ DOMAIN slot' = DOMAIN slot
  /\ slot'.counter \in Nat
  /\ slot'.protocol = slot.protocol

CalmProto ==
  /\ DOMAIN proto' = Conns
  /\ \A c \in Conns : /\ DOMAIN proto'[c] = DOMAIN proto[c]
                      /\ proto'[c].uuid \in Nat
                      /\ proto'[c].life = proto[c].life
  /\ accepted' = accepted

QuietProto == CalmProto /\ \A c \in Conns : proto'[c].locks = proto[c].locks

(* Tasks that close nothing may be pushed.                                 *)
QuietQueues ==
  /\ normal' = normal \/ \E k \in TaskSet : k.kind # "on_close" /\ normal' = Append(normal, k)
  /\ urgent' = urgent \/ \E k \in TaskSet : k.kind # "on_close" /\ urgent' = Append(urgent, k)

CalmThreads(t) ==
  /\ DOMAIN thread' = Threads
  /\ \A u \in Threads \ {t} : thread'[u] = thread[u]
  /\ Shape(thread'[t])
  /\ ~Special(thread[t]) /\ ~Special(thread'[t])

QuietThreads(t) ==
  /\ CalmThreads(t)
  /\ \A l \in Locks : Holds(thread'[t], l) => Holds(thread[t], l) /\ thread'[t].pr = thread[t].pr

(* A calm step may take or release locks, a quiet one does not.            *)
Calm(t) == QuietSlot /\ CalmProto /\ QuietQueues /\ CalmThreads(t)
Quiet(t) == QuietSlot /\ QuietProto /\ QuietQueues /\ QuietThreads(t)

(* The parts of Inv about locks.                                           *)
Held ==
  \A u \in Threads : \A l \in Locks : Holds(thread[u], l) =>
    /\ thread[u].pr \in Conns /\ l \in proto[thread[u].pr].locks
    /\ \A v \in Threads \ {u} : Holds(thread[v], l) => thread[v].pr # thread[u].pr

SameLife ==
  /\ slot'.protocol = slot.protocol
  /\ Ever' = Ever
  /\ \A c \in Conns : proto'[c].life = proto[c].life /\ proto'[c].locks = proto[c].locks

LEMMA CalmClosable ==
  ASSUME Inv, NEW t \in Threads, Calm(t)
  PROVE  Ever' = Ever /\ \A c : Closable(c)' <=> Closable(c)
<1>1. Ever' = Ever
  BY DEF Ever, Calm, CalmProto, CalmThreads, Special, Making
<1> QED
  BY <1>1 DEF Closable, Ever, Calm, CalmProto, QuietSlot

LEMMA QuietPush ==
  ASSUME NEW q \in Seq(TaskSet), NEW k \in TaskSet, k.kind # "on_close"
  PROVE  /\ Append(q, k) \in Seq(TaskSet)
         /\ \A n \in DOMAIN Append(q, k) : Append(q, k)[n].kind = "on_close" =>
              n \in DOMAIN q /\ Append(q, k)[n] = q[n]
<1>1. ASSUME NEW n \in DOMAIN Append(q, k), n \notin DOMAIN q
      PROVE  Append(q, k)[n] = k
  <2>1. n = Len(q) + 1
    BY <1>1, Appended
  <2> QED
    BY <2>1, Appended
<1> QED
  BY <1>1, Appended

LEMMA QuietQueue ==
  ASSUME Inv, QuietQueues
  PROVE  /\ normal' \in Seq(TaskSet) /\ urgent' \in Seq(TaskSet)
         /\ \A n \in DOMAIN urgent' : urgent'[n].kind # "on_close"
         /\ \A n \in DOMAIN normal' : normal'[n].kind = "on_close" =>
              n \in DOMAIN normal /\ normal'[n] = normal[n]
<1>1. normal \in Seq(TaskSet) /\ urgent \in Seq(TaskSet)
  BY DEF Inv, QueueInv
<1>2. /\ normal' \in Seq(TaskSet)
      /\ \A n \in DOMAIN normal' : normal'[n].kind = "on_close" =>
              n \in DOMAIN normal /\ normal'[n] = normal[n]
  <2>1. ASSUME NEW k \in TaskSet, k.kind # "on_close", normal' = Append(normal, k)
        PROVE  /\ normal' \in Seq(TaskSet)
               /\ \A n \in DOMAIN normal' : normal'[n].kind = "on_close" =>
                    n \in DOMAIN normal /\ normal'[n] = normal[n]
    BY <1>1, <2>1, QuietPush
  <2> QED
    BY <1>1, <2>1 DEF QuietQueues
<1>3. /\ urgent' \in Seq(TaskSet)
      /\ \A n \in DOMAIN urgent' : urgent'[n].kind # "on_close"
  <2>1. CASE urgent' = urgent
    BY <1>1, <2>1 DEF Inv, QueueInv
  <2>2. ASSUME NEW k \in TaskSet, k.kind # "on_close", urgent' = Append(urgent, k)
        PROVE  /\ urgent' \in Seq(TaskSet)
               /\ \A n \in DOMAIN urgent' : urgent'[n].kind # "on_close"
    BY <1>1, <2>2, QuietPush DEF Inv, QueueInv
  <2> QED
    BY <2>1, <2>2 DEF QuietQueues
<1> QED
  BY <1>2, <1>3

LEMMA CalmStep ==
  ASSUME Inv, NEW t \in Threads, Calm(t), Held'
  PROVE  Inv' /\ Ever' = Ever
<1>1. Ever' = Ever /\ \A c : Closable(c)' <=> Closable(c)
  BY CalmClosable
<1>2. SlotInv'
  BY <1>1 DEF Inv, SlotInv, Calm, QuietSlot, CalmProto, Ever
<1>3. ProtoInv'
  BY DEF Inv, ProtoInv, ProtoShape, Calm, CalmProto
<1>4. QueueInv'
  BY <1>1, QuietQueue DEF Inv, QueueInv, Calm
<1>5. ASSUME NEW u \in Threads PROVE ThreadInv(u)'
  <2>1. CASE u = t
    BY <2>1 DEF ThreadInv, Calm, CalmThreads, Special, Held
  <2>2. CASE u # t
    <3>1. thread'[u] = thread[u] /\ ThreadInv(u)
      BY <2>2 DEF Inv, Calm, CalmThreads
    <3>2. \A c \in Conns : proto'[c].life = proto[c].life
      BY DEF Calm, CalmProto
    <3>3. Shape(thread[u])' /\ (Making(thread[u])' <=> Making(thread[u]))
      BY <3>1 DEF ThreadInv, Shape, Making
    <3>4. thread[u].at = "on_close" => \A n \in DOMAIN normal' :
            ~(normal'[n].kind = "on_close" /\ normal'[n].id = thread[u].uuid)
      BY <3>1, QuietQueue DEF ThreadInv, Calm
    <3> QED
      BY <1>1, <3>1, <3>2, <3>3, <3>4 DEF ThreadInv, Calm, CalmProto, Held
  <2> QED
    BY <2>1, <2>2
<1>6. ASSUME NEW u \in Threads, NEW v \in Threads, u # v PROVE Apart(u, v)'
  <2>1. Apart(u, v)
    BY <1>6 DEF Inv
  <2>2. \A x \in Threads : Special(thread'[x]) => thread'[x] = thread[x]
    BY DEF Calm, CalmThreads
  <2> QED
    BY <1>6, <2>1, <2>2 DEF Apart, Special, Making, Held
<1> QED
  BY <1>1, <1>2, <1>3, <1>4, <1>5, <1>6 DEF Inv, Calm, CalmThreads

LEMMA QuietStep ==
  ASSUME Inv, NEW t \in Threads, Quiet(t)
  PROVE  Inv' /\ SameLife
<1>1. Calm(t)
  BY DEF Quiet, QuietProto, QuietThreads, Calm
<1>2. ASSUME NEW u \in Threads, NEW l \in Locks, Holds(thread'[u], l)
      PROVE  Holds(thread[u], l) /\ thread'[u].pr = thread[u].pr
  BY <1>2 DEF Quiet, QuietThreads, CalmThreads
<1>3. Held
  BY DEF Inv, ThreadInv, Apart, Held
<1>4. Held'
  BY <1>2, <1>3 DEF Held, Quiet, QuietProto
<1>5. Inv' /\ Ever' = Ever
  BY <1>1, <1>4, CalmStep
<1> QED
  BY <1>5 DEF SameLife, Quiet, QuietSlot, QuietProto, CalmProto

(* The parts of a quiet step.                                              *)
LEMMA ProtoKept ==
  ASSUME Inv, UNCHANGED <<proto, accepted>>
  PROVE  QuietProto
BY DEF Inv, ProtoInv, ProtoShape, QuietProto, CalmProto

LEMMA QueuesKept ==
  ASSUME UNCHANGED <<normal, urgent>>
  PROVE  QuietQueues
BY DEF QuietQueues

LEMMA NormalPushed ==
  ASSUME NEW kind \in {"on_data", "on_ready", "on_ready_usr", "ping"}, NEW id \in Nat,
         NEW force \in BOOLEAN, PushNormal(Task(kind, id, force)), UNCHANGED urgent
  PROVE  QuietQueues
<1>1. Task(kind, id, force) \in TaskSet /\ Task(kind, id, force).kind # "on_close"
  BY DEF Task, TaskSet
<1> QED
  BY <1>1 DEF QuietQueues, PushNormal

LEMMA UrgentPushed ==
  ASSUME NEW kind \in {"on_data", "on_ready", "on_ready_usr", "ping"}, NEW id \in Nat,
         NEW force \in BOOLEAN, PushUrgent(Task(kind, id, force)), UNCHANGED normal
  PROVE  QuietQueues
<1>1. Task(kind, id, force) \in TaskSet /\ Task(kind, id, force).kind # "on_close"
  BY DEF Task, TaskSet
<1> QED
  BY <1>1 DEF QuietQueues, PushUrgent

LEMMA ShapeOf ==
  ASSUME NEW th, Shape(th)
  PROVE  /\ th.at \in FreePlaces \cup TaskPlaces
                      \cup WritePlaces \cup StatePlaces => th.stack = <<>>
         /\ th.at \in SendPlaces => th.stack \in SendStacks
         /\ th.at \in ClosePlaces => th.stack \in CloseStacks
BY DEF Shape, FreePlaces, TaskPlaces, WritePlaces, StatePlaces, SendPlaces, ClosePlaces

Kinds == {FreePlaces \ {"open", "name", "attach", "on_close"}, TaskPlaces, WritePlaces,
          StatePlaces, SendPlaces, ClosePlaces}

(* A thread goes from one place to another of the same kind.               *)
LEMMA Moved ==
  ASSUME Inv, NEW t \in Threads, NEW place, ~Special(thread[t]),
         \E places \in Kinds : thread[t].at \in places /\ place \in places,
         DOMAIN thread' = Threads, \A u \in Threads \ {t} : thread'[u] = thread[u],
         thread'[t].at = place, thread'[t].stack = thread[t].stack,
         thread'[t].pr = thread[t].pr, thread'[t].uuid = thread[t].uuid,
         thread'[t].target = thread[t].target, DOMAIN thread'[t] = DOMAIN thread[t]
  PROVE  QuietThreads(t)
<1>1. Shape(thread[t])
  BY DEF Inv, ThreadInv
<1>2. Shape(thread'[t])
  <2>1. CASE thread[t].at \in FreePlaces \cup TaskPlaces \cup WritePlaces \cup StatePlaces
    <3>1. place \in FreePlaces \cup TaskPlaces \cup WritePlaces \cup StatePlaces
      BY <2>1 DEF Kinds, FreePlaces, TaskPlaces, WritePlaces, StatePlaces, SendPlaces, ClosePlaces
    <3> QED
      BY <1>1, <2>1, <3>1, ShapeOf DEF Shape
  <2>2. CASE thread[t].at \in SendPlaces
    <3>1. place \in SendPlaces
      BY <2>2 DEF Kinds, FreePlaces, TaskPlaces, WritePlaces, StatePlaces, SendPlaces, ClosePlaces
    <3> QED
      BY <1>1, <2>2, <3>1, ShapeOf DEF Shape
  <2>3. CASE thread[t].at \in ClosePlaces
    <3>1. place \in ClosePlaces
      BY <2>3 DEF Kinds, FreePlaces, TaskPlaces, WritePlaces, StatePlaces, SendPlaces, ClosePlaces
    <3> QED
      BY <1>1, <2>3, <3>1, ShapeOf DEF Shape
  <2> QED
    BY <1>1, <2>1, <2>2, <2>3 DEF Shape
<1>3. ~Special(thread'[t])
  BY DEF Special, Making, Kinds, FreePlaces, TaskPlaces, WritePlaces, StatePlaces, SendPlaces,
         ClosePlaces
<1>4. \A l : Holds(thread'[t], l) => Holds(thread[t], l)
  BY DEF Holds, Kinds, FreePlaces, TaskPlaces, WritePlaces, StatePlaces, SendPlaces, ClosePlaces
<1> QED
  BY <1>2, <1>3, <1>4 DEF QuietThreads, CalmThreads

LEMMA Went ==
  ASSUME Inv, NEW t \in Threads, NEW place, Goto(t, place), ~Special(thread[t]),
         \E places \in Kinds : thread[t].at \in places /\ place \in places
  PROVE  QuietThreads(t)
<1>1. /\ DOMAIN thread = Threads /\ Shape(thread[t])
      /\ thread' = [thread EXCEPT ![t].at = place]
  BY DEF Inv, ThreadInv, Goto
<1>2. /\ thread'[t].at = place /\ thread'[t].stack = thread[t].stack
      /\ thread'[t].pr = thread[t].pr /\ thread'[t].uuid = thread[t].uuid
      /\ thread'[t].target = thread[t].target /\ DOMAIN thread'[t] = DOMAIN thread[t]
      /\ DOMAIN thread' = Threads /\ \A u \in Threads \ {t} : thread'[u] = thread[u]
  BY <1>1 DEF Shape
<1> QED
  BY <1>2, Moved

(* A flush that closes the connection.                                     *)
LEMMA FlushCloses ==
  ASSUME Inv, NEW t \in Threads, thread[t].at \in SendPlaces,
         thread' = [thread EXCEPT ![t].at = "close", ![t].again = FALSE,
                                  ![t].stack = <<"flushed">> \o @]
  PROVE  QuietThreads(t)
<1>1. DOMAIN thread = Threads /\ Shape(thread[t]) /\ ~Special(thread[t])
  BY DEF Inv, ThreadInv, Special, Making, SendPlaces
<1>2. thread[t].stack \in SendStacks
  BY <1>1 DEF Shape, FreePlaces, TaskPlaces, WritePlaces, StatePlaces, SendPlaces, ClosePlaces
<1>3. /\ thread'[t].at = "close" /\ thread'[t].stack = <<"flushed">> \o thread[t].stack
      /\ thread'[t].pr = thread[t].pr /\ thread'[t].uuid = thread[t].uuid
      /\ thread'[t].target = thread[t].target /\ DOMAIN thread'[t] = DOMAIN thread[t]
  BY <1>1 DEF Shape
<1>4. \/ thread'[t].stack = <<"flushed", "idle">>
      \/ /\ thread'[t].stack \in {<<"flushed", "answered">>, <<"flushed", "end", "answered">>}
         /\ thread[t].stack \in TaskStacks
  <2>1. <<"answered">> \in TaskStacks /\ <<"end", "answered">> \in TaskStacks
    BY DEF TaskStacks
  <2>2. CASE thread[t].stack = <<"idle">>
    BY <1>3, <2>2, Pushed1
  <2>3. CASE thread[t].stack = <<"answered">>
    BY <1>3, <2>1, <2>3, Pushed1
  <2>4. CASE thread[t].stack = <<"end", "answered">>
    BY <1>3, <2>1, <2>4, Pushed2
  <2> QED
    BY <1>2, <2>2, <2>3, <2>4 DEF SendStacks
<1>5. /\ <<"flushed", "idle">> \in CloseStacks /\ <<"flushed", "answered">> \in CloseStacks
      /\ <<"flushed", "end", "answered">> \in CloseStacks
      /\ <<"flushed", "idle">> \notin TaskStacks
      /\ \A a, b : <<a, b>> # <<"unlock write">>
      /\ \A a, b, c : <<a, b, c>> # <<"unlock write">>
  <2>1. /\ <<"flushed", "answered">> # <<"end", "answered">>
        /\ <<"flushed", "end", "answered">> # <<"end", "answered">>
    OBVIOUS
  <2> QED
    BY <2>1 DEF CloseStacks, TaskStacks
<1>6. Shape(thread'[t])
  BY <1>1, <1>3, <1>4, <1>5 DEF Shape, ClosePlaces
<1>7. \A l : Holds(thread'[t], l) => Holds(thread[t], l)
  <2>1. thread'[t].stack \in TaskStacks => thread[t].stack \in TaskStacks
    BY <1>4, <1>5
  <2>2. thread'[t].stack # <<"unlock write">>
    BY <1>4, <1>5
  <2> QED
    BY <1>3, <2>1, <2>2 DEF Holds, TaskPlaces, WritePlaces, StatePlaces, SendPlaces, ClosePlaces
<1>8. ~Special(thread'[t])
  BY <1>3 DEF Special, Making
<1> QED
  BY <1>1, <1>3, <1>6, <1>7, <1>8 DEF QuietThreads, CalmThreads

(* It is done and takes another task.                                      *)
LEMMA Rested ==
  ASSUME Inv, NEW t \in Threads, Rest(t), ~Special(thread[t])
  PROVE  QuietThreads(t)
<1>1. /\ DOMAIN thread = Threads /\ thread' = [thread EXCEPT ![t] = Idle]
  BY DEF Inv, Rest
<1>2. Shape(Idle) /\ ~Special(Idle) /\ \A l : ~Holds(Idle, l)
  BY DEF Idle, Shape, Special, Making, Holds, FreePlaces, TaskPlaces, WritePlaces, StatePlaces,
         SendPlaces, ClosePlaces
<1> QED
  BY <1>1, <1>2 DEF QuietThreads, CalmThreads

(* It calls a function, and comes back from one.                           *)
LEMMA Called ==
  ASSUME Inv, NEW t \in Threads, NEW place, NEW uuid \in Nat, NEW back,
         Call(t, place, uuid, back), ~Special(thread[t]),
         \/ thread[t].at \in FreePlaces /\ place \in {"flush", "close"} /\ back = "idle"
         \/ thread[t].at \in TaskPlaces /\ place = "close" /\ back = "consume"
  PROVE  QuietThreads(t)
<1>1. /\ DOMAIN thread = Threads /\ Shape(thread[t])
      /\ thread' = [thread EXCEPT ![t].at = place,
                                  ![t].target = uuid,
                                  ![t].stack = <<back>> \o @]
  BY DEF Inv, ThreadInv, Call
<1>2. thread[t].stack = <<>>
  BY <1>1 DEF Shape, FreePlaces, TaskPlaces, SendPlaces, ClosePlaces
<1>3. /\ thread'[t].at = place /\ thread'[t].stack = <<back>>
      /\ thread'[t].pr = thread[t].pr /\ thread'[t].uuid = thread[t].uuid
      /\ thread'[t].target = uuid /\ DOMAIN thread'[t] = DOMAIN thread[t]
  BY <1>1, <1>2 DEF Shape
<1>4. Shape(thread'[t])
  <2>1. <<"idle">> \in SendStacks /\ <<"idle">> \in CloseStacks /\ <<"consume">> \in CloseStacks
    BY DEF SendStacks, CloseStacks, TaskStacks
  <2> QED
    BY <1>1, <1>3, <2>1 DEF Shape, SendPlaces, ClosePlaces
<1>5. ~Special(thread'[t])
  BY <1>3 DEF Special, Making
<1>6. \A l : Holds(thread'[t], l) => Holds(thread[t], l)
  <2>1. /\ <<"idle">> \notin TaskStacks /\ <<"idle">> # <<"unlock write">>
        /\ <<"consume">> # <<"unlock write">>
    BY DEF TaskStacks
  <2> QED
    BY <1>3, <2>1 DEF Holds, TaskPlaces, WritePlaces, StatePlaces, SendPlaces, ClosePlaces
<1> QED
  BY <1>1, <1>3, <1>4, <1>5, <1>6 DEF QuietThreads, CalmThreads

LEMMA Single ==
  ASSUME NEW a
  PROVE  Head(<<a>>) = a /\ Tail(<<a>>) = <<>>
<1>1. Head(<<a>>) = a
  OBVIOUS
<1>2. Tail(<<a>>) = <<>>
  <2>1. <<a>> \in Seq({a}) /\ Len(<<a>>) = 1
    OBVIOUS
  <2>2. Tail(<<a>>) \in Seq({a}) /\ Len(Tail(<<a>>)) = 0
    BY <2>1
  <2> QED
    BY <2>2
<1> QED
  BY <1>1, <1>2

LEMMA Tops ==
  ASSUME NEW s \in SendStacks \cup CloseStacks, s # <<"idle">>
  PROVE  /\ Head(s) # "idle"
         /\ \/ Head(s) \in TaskPlaces /\ Tail(s) = <<>> /\ s \in TaskStacks
            \/ Head(s) = "unlock write" /\ Tail(s) = <<>> /\ s = <<"unlock write">>
            \/ /\ Head(s) = "end" /\ Tail(s) \in CloseStacks
               /\ Tail(s) # <<"unlock write">> /\ s \in TaskStacks
            \/ /\ Head(s) = "flushed" /\ Tail(s) \in SendStacks
               /\ Tail(s) \in TaskStacks => s \in TaskStacks
<1>1. CASE s \in {<<"consume">>, <<"answered">>, <<"force">>, <<"unlock task">>, <<"answer">>}
  <2>1. PICK a \in {"consume", "answered", "force", "unlock task", "answer"} : s = <<a>>
    BY <1>1
  <2>2. Head(s) = a /\ Tail(s) = <<>>
    BY <2>1, Single
  <2>3. s \in TaskStacks
    BY <1>1 DEF TaskStacks
  <2> QED
    BY <2>1, <2>2, <2>3 DEF TaskPlaces
<1>2. CASE s = <<"unlock write">>
  <2>1. Head(s) = "unlock write" /\ Tail(s) = <<>>
    BY <1>2, Single
  <2> QED
    BY <1>2, <2>1
<1>3. CASE s = <<"end", "answered">>
  <2>1. Head(s) = "end" /\ Tail(s) = <<"answered">>
    BY <1>3
  <2>2. <<"answered">> # <<"end", "answered">> /\ <<"answered">> # <<"unlock write">>
    OBVIOUS
  <2> QED
    BY <1>3, <2>1, <2>2 DEF CloseStacks, TaskStacks
<1>4. CASE s = <<"flushed", "idle">>
  <2>1. Head(s) = "flushed" /\ Tail(s) = <<"idle">>
    BY <1>4
  <2>2. <<"idle">> \notin TaskStacks
    BY DEF TaskStacks
  <2> QED
    BY <2>1, <2>2 DEF SendStacks
<1>5. CASE s = <<"flushed", "answered">>
  <2>1. Head(s) = "flushed" /\ Tail(s) = <<"answered">>
    BY <1>5
  <2> QED
    BY <1>5, <2>1 DEF SendStacks, TaskStacks
<1>6. CASE s = <<"flushed", "end", "answered">>
  <2>1. Head(s) = "flushed" /\ Tail(s) = <<"end", "answered">>
    BY <1>6
  <2> QED
    BY <1>6, <2>1 DEF SendStacks, TaskStacks
<1> QED
  BY <1>1, <1>2, <1>3, <1>4, <1>5, <1>6, Zenon DEF SendStacks, CloseStacks, TaskStacks

LEMMA Returned ==
  ASSUME Inv, NEW t \in Threads, Return(t), thread[t].at \in SendPlaces \cup ClosePlaces
  PROVE  QuietThreads(t)
<1> DEFINE s == thread[t].stack
<1>1. DOMAIN thread = Threads /\ Shape(thread[t])
  BY DEF Inv, ThreadInv
<1>2. ~Special(thread[t])
  BY DEF Special, Making, SendPlaces, ClosePlaces
<1>3. CASE s = <<"idle">>
  <2>1. Head(s) = "idle"
    BY <1>3
  <2> QED
    BY <1>2, <2>1, Rested DEF Return
<1>4. CASE s # <<"idle">>
  <2>1. s \in SendStacks \cup CloseStacks
    BY <1>1 DEF Shape, SendPlaces, ClosePlaces, FreePlaces, TaskPlaces, WritePlaces, StatePlaces
  <2>2. Head(s) # "idle"
    BY <1>4, <2>1, Tops
  <2>3. thread' = [thread EXCEPT ![t].at = Head(s),
                                 ![t].target = IF Head(s) \in {"flushed", "end"} THEN @ ELSE 0,
                                 ![t].again = FALSE,
                                 ![t].stack = Tail(@)]
    BY <2>2 DEF Return
  <2>4. /\ thread'[t].at = Head(s) /\ thread'[t].stack = Tail(s)
        /\ thread'[t].pr = thread[t].pr /\ thread'[t].uuid = thread[t].uuid
        /\ thread'[t].target \in Nat /\ DOMAIN thread'[t] = DOMAIN thread[t]
    BY <1>1, <2>3 DEF Shape
  <2> HIDE DEF s
  <2>5. Shape(thread'[t])
    BY <1>1, <1>4, <2>1, <2>4, Tops DEF Shape, SendPlaces, ClosePlaces, WritePlaces
  <2>6. ~Special(thread'[t])
    BY <1>4, <2>1, <2>4, Tops DEF Special, Making, TaskPlaces
  <2>7. \A l : Holds(thread'[t], l) => Holds(thread[t], l)
    <3>1. s \in TaskStacks => Holds(thread[t], "task")
      BY DEF Holds, s
    <3>2. CASE Head(s) \in TaskPlaces /\ s \in TaskStacks
      BY <2>4, <3>1, <3>2 DEF Holds, TaskPlaces, WritePlaces, StatePlaces, SendPlaces, ClosePlaces
    <3>3. CASE Head(s) = "unlock write" /\ s = <<"unlock write">>
      <4>1. thread[t].at \in ClosePlaces
        <5>1. <<"unlock write">> \notin SendStacks
          BY DEF SendStacks
        <5>2. thread[t].at \in SendPlaces => thread[t].stack \in SendStacks
          BY <1>1 DEF Shape, FreePlaces, TaskPlaces, WritePlaces, StatePlaces, SendPlaces,
                      ClosePlaces
        <5> QED
          BY <3>3, <5>1, <5>2 DEF s
      <4>2. Holds(thread[t], "write")
        BY <3>3, <4>1 DEF Holds, s
      <4> QED
        BY <2>4, <3>3, <4>2 DEF Holds, TaskPlaces, StatePlaces, SendPlaces, ClosePlaces
    <3>4. CASE Head(s) = "end" /\ s \in TaskStacks /\ Tail(s) # <<"unlock write">>
      BY <2>4, <3>1, <3>4 DEF Holds, TaskPlaces, WritePlaces, StatePlaces, SendPlaces, ClosePlaces
    <3>5. CASE Head(s) = "flushed" /\ (Tail(s) \in TaskStacks => s \in TaskStacks)
      BY <2>4, <3>1, <3>5 DEF Holds, TaskPlaces, WritePlaces, StatePlaces, SendPlaces, ClosePlaces
    <3> QED
      BY <1>4, <2>1, <3>2, <3>3, <3>4, <3>5, Tops
  <2> QED
    BY <1>1, <1>2, <2>3, <2>4, <2>5, <2>6, <2>7 DEF QuietThreads, CalmThreads
<1> QED
  BY <1>3, <1>4

-----------------------------------------------------------------------------
(* The quiet steps of the program.                                         *)

LEMMA PollQuiet ==
  ASSUME Inv, NEW t \in Threads, Poll(t) \/ Polled(t)
  PROVE  Quiet(t)
<1>1. QuietProto
  BY ProtoKept DEF Poll, Polled
<1>2. slot.counter \in Nat
  BY DEF Inv, SlotInv
<1>3. CASE Poll(t)
  <2>1. \E place \in {"polled in", "polled out", "polled hup"} : Goto(t, place)
    BY <1>3 DEF Poll
  <2>2. QuietThreads(t)
    BY <1>3, <2>1, Went DEF Poll, Special, Making, Kinds, FreePlaces
  <2> QED
    BY <1>1, <1>2, <1>3, <2>2, QueuesKept DEF Poll, Quiet, QuietSlot
<1>4. CASE Polled(t)
  <2>1. ~Special(thread[t]) /\ thread[t].at \in FreePlaces
    BY <1>4 DEF Polled, Special, Making, FreePlaces
  <2>2. CASE thread[t].at = "polled in"
    <3>1. QuietQueues
      BY <1>2, <1>4, <2>2, NormalPushed DEF Polled
    <3> QED
      BY <1>1, <1>2, <1>4, <2>1, <2>2, <3>1, Rested DEF Polled, Quiet, QuietSlot
  <2>3. CASE thread[t].at = "polled out"
    <3>1. QuietQueues
      BY <1>2, <1>4, <2>3, UrgentPushed DEF Polled
    <3> QED
      BY <1>1, <1>2, <1>4, <2>1, <2>3, <3>1, Rested DEF Polled, Quiet, QuietSlot
  <2>4. CASE thread[t].at = "polled hup"
    <3>1. QuietSlot
      BY <1>4, <2>4 DEF Polled, Inv, SlotInv, QuietSlot
    <3>2. QuietThreads(t)
      BY <1>2, <1>4, <2>1, <2>4, Called DEF Polled
    <3> QED
      BY <1>1, <1>4, <2>4, <3>1, <3>2, QueuesKept DEF Polled, Quiet
  <2> QED
    BY <1>4, <2>2, <2>3, <2>4 DEF Polled
<1> QED
  BY <1>3, <1>4

LEMMA CloseQuiet ==
  ASSUME Inv, NEW t \in Threads,
         ForceClose(t) \/ DropPackets(t) \/ CloseSocket(t) \/ CloseLater(t) \/ MarkClosing(t)
  PROVE  Quiet(t)
<1>1. QuietProto
  BY ProtoKept DEF ForceClose, DropPackets, CloseSocket, CloseLater, MarkClosing
<1>2. thread[t].at \in ClosePlaces /\ ~Special(thread[t])
  BY DEF ForceClose, DropPackets, CloseSocket, CloseLater, MarkClosing, ClosePlaces, Special,
         Making
<1>3. QuietSlot
  BY DEF ForceClose, DropPackets, CloseSocket, CloseLater, MarkClosing, Inv, SlotInv, QuietSlot
<1>4. QuietThreads(t)
  <2>1. CASE \E place \in ClosePlaces : Goto(t, place)
    BY <1>2, <2>1, Went DEF Kinds
  <2>2. CASE Return(t)
    BY <1>2, <2>2, Returned
  <2> QED
    BY <2>1, <2>2 DEF ForceClose, DropPackets, CloseSocket, CloseLater, MarkClosing, ClosePlaces
<1>5. QuietQueues
  <2>1. thread[t].target \in Nat
    BY DEF Inv, ThreadInv, Shape
  <2>2. CASE MarkClosing(t)
    BY <2>1, <2>2, UrgentPushed, QueuesKept DEF MarkClosing
  <2> QED
    BY <2>2, QueuesKept DEF ForceClose, DropPackets, CloseSocket, CloseLater
<1> QED
  BY <1>1, <1>3, <1>4, <1>5 DEF Quiet

LEMMA SendQuiet ==
  ASSUME Inv, NEW t \in Threads,
         Flush(t) \/ Write(t) \/ Failed(t) \/ Sent(t) \/ Flushed(t)
  PROVE  Quiet(t)
<1>1. QuietProto
  BY ProtoKept DEF Flush, Write, Failed, Sent, Flushed
<1>2. thread[t].at \in SendPlaces /\ ~Special(thread[t])
  BY DEF Flush, Write, Failed, Sent, Flushed, SendPlaces, Special, Making
<1>3. QuietSlot
  BY DEF Flush, Write, Failed, Sent, Flushed, Inv, SlotInv, QuietSlot
<1>4. QuietThreads(t)
  <2>1. CASE \E place \in SendPlaces : Goto(t, place)
    BY <1>2, <2>1, Went DEF Kinds
  <2>2. CASE \E again : thread' = [thread EXCEPT ![t].at = "flushed", ![t].again = again]
    <3>1. DOMAIN thread = Threads /\ Shape(thread[t])
      BY DEF Inv, ThreadInv
    <3>2. /\ thread'[t].at = "flushed" /\ thread'[t].stack = thread[t].stack
          /\ thread'[t].pr = thread[t].pr /\ thread'[t].uuid = thread[t].uuid
          /\ thread'[t].target = thread[t].target /\ DOMAIN thread'[t] = DOMAIN thread[t]
          /\ DOMAIN thread' = Threads /\ \A u \in Threads \ {t} : thread'[u] = thread[u]
      BY <2>2, <3>1 DEF Shape
    <3>3. "flushed" \in SendPlaces /\ SendPlaces \in Kinds
      BY DEF SendPlaces, Kinds
    <3> QED
      BY <1>2, <3>2, <3>3, Moved
  <2>3. CASE thread' = [thread EXCEPT ![t].at = "close", ![t].again = FALSE,
                                     ![t].stack = <<"flushed">> \o @]
    BY <1>2, <2>3, FlushCloses
  <2>4. CASE Return(t)
    BY <1>2, <2>4, Returned
  <2> QED
    BY <2>1, <2>2, <2>3, <2>4 DEF Flush, Write, Failed, Sent, Flushed, SendPlaces
<1>5. QuietQueues
  <2>1. thread[t].target \in Nat
    BY DEF Inv, ThreadInv, Shape
  <2>2. CASE Flushed(t)
    BY <2>1, <2>2, UrgentPushed, NormalPushed, QueuesKept DEF Flushed
  <2> QED
    BY <2>2, QueuesKept DEF Flush, Write, Failed, Sent
<1> QED
  BY <1>1, <1>3, <1>4, <1>5 DEF Quiet

(* Under the lock of on_data: another place there, or a function that      *)
(* returns there.                                                          *)
LEMMA InTask ==
  ASSUME Inv, NEW t \in Threads, thread[t].at \in TaskPlaces,
         DOMAIN thread' = Threads, \A u \in Threads \ {t} : thread'[u] = thread[u],
         thread'[t].pr = thread[t].pr, thread'[t].uuid = thread[t].uuid,
         thread'[t].target \in Nat, DOMAIN thread'[t] = DOMAIN thread[t],
         \/ thread'[t].at \in TaskPlaces /\ thread'[t].stack = <<>>
         \/ thread'[t].at \in SendPlaces /\ thread'[t].stack \in SendStacks \cap TaskStacks
         \/ thread'[t].at \in ClosePlaces /\ thread'[t].stack \in CloseStacks \cap TaskStacks
  PROVE  QuietThreads(t)
<1>1. Shape(thread[t])
  BY DEF Inv, ThreadInv
<1>2. Shape(thread'[t])
  BY <1>1 DEF Shape
<1>3. ~Special(thread[t]) /\ ~Special(thread'[t])
  BY DEF Special, Making, TaskPlaces, SendPlaces, ClosePlaces
<1>4. \A l : Holds(thread'[t], l) => Holds(thread[t], l)
  <2>1. <<"unlock write">> \notin TaskStacks
    BY DEF TaskStacks
  <2>2. thread'[t].at \notin WritePlaces \cup StatePlaces
    BY DEF TaskPlaces, SendPlaces, ClosePlaces, WritePlaces, StatePlaces
  <2>3. thread'[t].at \in ClosePlaces => thread'[t].stack # <<"unlock write">>
    BY <2>1 DEF TaskPlaces, SendPlaces, ClosePlaces
  <2> QED
    BY <2>2, <2>3 DEF Holds
<1> QED
  BY <1>2, <1>3, <1>4 DEF QuietThreads, CalmThreads

(* The fields of a protocol object that no lock and no life are.           *)
LEMMA ProtoSet ==
  ASSUME Inv, NEW c, NEW value, UNCHANGED accepted,
         \/ proto' = [proto EXCEPT ![c].stop = value]
         \/ proto' = [proto EXCEPT ![c].buf = value]
         \/ proto' = [proto EXCEPT ![c].close = value]
  PROVE  QuietProto
<1>1. ProtoShape
  BY DEF Inv, ProtoInv
<1> QED
  BY <1>1 DEF ProtoShape, QuietProto, CalmProto

LEMMA Forced ==
  ASSUME Inv, NEW uuid \in Nat, ForceData(uuid), UNCHANGED urgent
  PROVE  QuietSlot /\ QuietQueues
<1>1. SlotInv
  BY DEF Inv
<1>2. CASE Valid(uuid)
  BY <1>1, <1>2, NormalPushed DEF ForceData, SlotInv, QuietSlot
<1>3. CASE ~Valid(uuid)
  BY <1>1, <1>3, QueuesKept DEF ForceData, SlotInv, QuietSlot
<1> QED
  BY <1>2, <1>3

LEMMA SlotKept ==
  ASSUME Inv, slot' = slot \/ \E value : slot' = [slot EXCEPT !.scheduled = value]
                           \/ slot' = [slot EXCEPT !.quiet = value]
  PROVE  QuietSlot
BY DEF Inv, SlotInv, QuietSlot

LEMMA ReadyQuiet ==
  ASSUME Inv, NEW t \in Threads, Ready(t)
  PROVE  Quiet(t)
<1>1. thread[t].uuid \in Nat
  BY DEF Inv, ThreadInv, Shape
<1>2. QuietThreads(t)
  BY Went DEF Ready, Special, Making, Kinds, WritePlaces
<1>3. QuietProto
  BY ProtoSet, ProtoKept DEF Ready
<1>4. QuietSlot /\ QuietQueues
  BY <1>1, Forced, SlotKept, QueuesKept DEF Ready
<1> QED
  BY <1>2, <1>3, <1>4 DEF Quiet

LEMMA DataQuiet ==
  ASSUME Inv, NEW t \in Threads,
         OnData(t) \/ Data(t) \/ Read(t) \/ Throttle(t) \/ ForceMore(t) \/ Rearm(t)
  PROVE  Quiet(t)
<1>1. thread[t].uuid \in Nat
  BY DEF Inv, ThreadInv, Shape
<1>2. CASE OnData(t)
  <2>1. thread[t].at \in FreePlaces /\ ~Special(thread[t])
    BY <1>2 DEF OnData, FreePlaces, Special, Making
  <2>2. QuietThreads(t)
    <3>1. CASE Rest(t)
      BY <2>1, <3>1, Rested
    <3>2. CASE Call(t, "flush", thread[t].uuid, "idle")
      BY <1>1, <2>1, <3>2, Called
    <3>3. CASE Goto(t, "lock task")
      BY <1>2, <2>1, <3>3, Went DEF OnData, Kinds, FreePlaces
    <3> QED
      BY <1>2, <3>1, <3>2, <3>3 DEF OnData
  <2> QED
    BY <1>2, <2>2, SlotKept, ProtoKept, QueuesKept DEF OnData, Quiet
<1>3. CASE Data(t)
  <2>1. QuietThreads(t)
    <3>1. \E place \in TaskPlaces : Goto(t, place)
      BY <1>3 DEF Data, TaskPlaces
    <3> QED
      BY <1>3, <3>1, Went DEF Data, Special, Making, Kinds, TaskPlaces
  <2>2. QuietSlot
    BY <1>3, SlotKept DEF Data, Suspend
  <2> QED
    BY <1>3, <2>1, <2>2, ProtoKept, QueuesKept DEF Data, Quiet
<1>4. CASE Read(t)
  <2>1. thread[t].at \in TaskPlaces /\ ~Special(thread[t])
    BY <1>4 DEF Read, TaskPlaces, Special, Making
  <2>2. QuietThreads(t)
    <3>1. CASE Call(t, "close", thread[t].uuid, "consume")
      BY <1>1, <2>1, <3>1, Called
    <3>2. CASE Goto(t, "consume")
      BY <2>1, <3>2, Went DEF Kinds, TaskPlaces
    <3> QED
      BY <1>4, <3>1, <3>2 DEF Read
  <2>3. QuietProto
    BY <1>4, ProtoSet, ProtoKept DEF Read
  <2>4. QuietSlot
    BY <1>4, SlotKept DEF Read
  <2> QED
    BY <1>4, <2>2, <2>3, <2>4, QueuesKept DEF Read, Quiet
<1>5. CASE Throttle(t)
  <2>1. QuietThreads(t)
    BY <1>5, Went DEF Throttle, Special, Making, Kinds, TaskPlaces
  <2>2. QuietSlot
    BY <1>5, SlotKept DEF Throttle, Suspend
  <2>3. QuietProto
    BY <1>5, ProtoSet DEF Throttle
  <2> QED
    BY <1>5, <2>1, <2>2, <2>3, QueuesKept DEF Throttle, Quiet
<1>6. CASE ForceMore(t)
  <2>1. QuietThreads(t)
    BY <1>6, Went DEF ForceMore, Special, Making, Kinds, TaskPlaces
  <2>2. QuietSlot /\ QuietQueues
    BY <1>1, <1>6, Forced DEF ForceMore
  <2> QED
    BY <1>6, <2>1, <2>2, ProtoKept DEF ForceMore, Quiet
<1>7. CASE Rearm(t)
  <2>1. QuietThreads(t)
    BY <1>7, Rested DEF Rearm, Special, Making
  <2>2. QuietSlot
    BY <1>7, SlotKept DEF Rearm
  <2> QED
    BY <1>7, <2>1, <2>2, ProtoKept, QueuesKept DEF Rearm, Quiet
<1> QED
  BY <1>2, <1>3, <1>4, <1>5, <1>6, <1>7

LEMMA ConsumeQuiet ==
  ASSUME Inv, NEW t \in Threads, Consume(t)
  PROVE  Quiet(t)
<1>1. DOMAIN thread = Threads /\ Shape(thread[t])
  BY DEF Inv, ThreadInv
<1>2. thread[t].at \in TaskPlaces /\ thread[t].stack = <<>> /\ thread[t].target \in Nat
  BY <1>1, ShapeOf DEF Consume, TaskPlaces, Shape
<1>3. QuietThreads(t)
  <2>1. PICK place \in TaskPlaces :
          \/ thread' = [thread EXCEPT ![t].at = place]
          \/ \E left : thread' = [thread EXCEPT ![t].at = place, ![t].left = left]
    BY DEF Consume, Loop, TaskPlaces
  <2>2. /\ thread'[t].at = place /\ thread'[t].stack = thread[t].stack
        /\ thread'[t].pr = thread[t].pr /\ thread'[t].uuid = thread[t].uuid
        /\ thread'[t].target = thread[t].target /\ DOMAIN thread'[t] = DOMAIN thread[t]
        /\ DOMAIN thread' = Threads /\ \A u \in Threads \ {t} : thread'[u] = thread[u]
    BY <1>1, <2>1 DEF Shape
  <2> QED
    BY <1>2, <2>2, InTask
<1> QED
  BY <1>3, SlotKept, ProtoKept, QueuesKept DEF Consume, Quiet

LEMMA AnswerQuiet ==
  ASSUME Inv, NEW t \in Threads, Answer(t)
  PROVE  Quiet(t)
<1> DEFINE c == thread[t].pr
           uuid == proto[c].uuid
           close == proto[c].close \/ Head(proto[c].buf)[3]
           after == IF close THEN <<"end", "answered">> ELSE <<"answered">>
           flush == Valid(uuid) /\ slot.packets = <<>>
           request == Head(proto[c].buf)
<1>1. DOMAIN thread = Threads /\ Shape(thread[t]) /\ thread[t].at \in TaskPlaces
  BY DEF Inv, ThreadInv, Answer, TaskPlaces
<1>2. c \in Conns
  BY <1>1 DEF Inv, ThreadInv, Holds, Locks
<1>3. uuid \in Nat
  BY <1>2 DEF Inv, ProtoInv, ProtoShape
<1>4. thread' = [thread EXCEPT ![t].at = IF flush THEN "flush" ELSE Head(after),
                               ![t].target = IF flush \/ close THEN uuid ELSE 0,
                               ![t].force = TRUE,
                               ![t].stack = IF flush THEN after ELSE Tail(after)]
  BY DEF Answer
<1>5. QuietThreads(t)
  <2> HIDE DEF uuid, flush, close, after
  <2>1. /\ thread'[t].at = IF flush THEN "flush" ELSE Head(after)
        /\ thread'[t].stack = IF flush THEN after ELSE Tail(after)
        /\ thread'[t].pr = thread[t].pr /\ thread'[t].uuid = thread[t].uuid
        /\ thread'[t].target \in Nat /\ DOMAIN thread'[t] = DOMAIN thread[t]
        /\ DOMAIN thread' = Threads /\ \A u \in Threads \ {t} : thread'[u] = thread[u]
    BY <1>1, <1>3, <1>4 DEF Shape
  <2>2. after \in SendStacks \cap TaskStacks
    <3>1. /\ <<"answered">> \in SendStacks /\ <<"answered">> \in TaskStacks
          /\ <<"end", "answered">> \in SendStacks /\ <<"end", "answered">> \in TaskStacks
      BY DEF SendStacks, TaskStacks
    <3> QED
      BY <3>1 DEF after
  <2>3. CASE flush
    BY <1>1, <2>1, <2>2, <2>3, InTask DEF SendPlaces
  <2>4. CASE ~flush /\ close
    <3>1. Head(after) = "end" /\ Tail(after) = <<"answered">>
      BY <2>4 DEF after
    <3>2. <<"answered">> \in CloseStacks \cap TaskStacks
      <4>1. <<"answered">> # <<"end", "answered">>
        OBVIOUS
      <4> QED
        BY <4>1 DEF CloseStacks, TaskStacks
    <3> QED
      BY <1>1, <2>1, <2>4, <3>1, <3>2, InTask DEF ClosePlaces
  <2>5. CASE ~flush /\ ~close
    <3>1. Head(after) = "answered" /\ Tail(after) = <<>>
      BY <2>5, Single DEF after
    <3> QED
      BY <1>1, <2>1, <2>5, <3>1, InTask DEF TaskPlaces
  <2> QED
    BY <2>3, <2>4, <2>5
<1>6. QuietSlot
  BY DEF Answer, Inv, SlotInv, QuietSlot
<1>7. QuietProto
  BY ProtoSet DEF Answer
<1> QED
  BY <1>5, <1>6, <1>7, QueuesKept DEF Answer, Quiet

LEMMA AnsweredQuiet ==
  ASSUME Inv, NEW t \in Threads, Answered(t)
  PROVE  Quiet(t)
<1> DEFINE p == proto[thread[t].pr]
           buf == IF IsClosed(p.uuid) THEN <<>> ELSE Tail(p.buf)
           next == Loop(buf, thread[t].left - 1)
           error == IsClosed(p.uuid) /\ ~p.close
<1>1. DOMAIN thread = Threads /\ Shape(thread[t]) /\ thread[t].at \in TaskPlaces
  BY DEF Inv, ThreadInv, Answered, TaskPlaces
<1>2. thread[t].pr \in Conns
  BY <1>1 DEF Inv, ThreadInv, Holds, Locks
<1>3. p.uuid \in Nat
  BY <1>2 DEF Inv, ProtoInv, ProtoShape
<1>4. thread' = [thread EXCEPT ![t].at = IF error THEN "end" ELSE next,
                               ![t].target = IF error THEN p.uuid ELSE 0,
                               ![t].left = IF next = "answer" THEN @ - 1 ELSE 0,
                               ![t].stack = IF error THEN <<next>> ELSE <<>>]
  BY DEF Answered
<1>5. next \in {"force", "unlock task", "answer"}
  BY DEF Loop
<1>6. QuietThreads(t)
  <2> HIDE DEF p, next, error
  <2>1. /\ thread'[t].at = IF error THEN "end" ELSE next
        /\ thread'[t].stack = IF error THEN <<next>> ELSE <<>>
        /\ thread'[t].pr = thread[t].pr /\ thread'[t].uuid = thread[t].uuid
        /\ thread'[t].target \in Nat /\ DOMAIN thread'[t] = DOMAIN thread[t]
        /\ DOMAIN thread' = Threads /\ \A u \in Threads \ {t} : thread'[u] = thread[u]
    BY <1>1, <1>3, <1>4 DEF Shape
  <2>2. <<next>> \in CloseStacks \cap TaskStacks
    <3>1. <<next>> \in TaskStacks
      BY <1>5 DEF TaskStacks
    <3>2. <<next>> # <<"end", "answered">>
      OBVIOUS
    <3> QED
      BY <3>1, <3>2 DEF CloseStacks
  <2>3. CASE error
    BY <1>1, <2>1, <2>2, <2>3, InTask DEF ClosePlaces
  <2>4. CASE ~error
    BY <1>1, <1>5, <2>1, <2>4, InTask DEF TaskPlaces
  <2> QED
    BY <2>3, <2>4
<1>7. QuietProto
  BY ProtoSet DEF Answered
<1> QED
  BY <1>6, <1>7, SlotKept, QueuesKept DEF Answered, Quiet

LEMMA ReviewQuiet ==
  ASSUME Inv, NEW t \in Threads, Reviewed(t) \/ FindUuid(t) \/ PushPing(t)
  PROVE  Quiet(t)
<1>1. QuietThreads(t)
  <2>1. \E place \in StatePlaces : Goto(t, place)
    BY DEF Reviewed, FindUuid, PushPing, StatePlaces
  <2> QED
    BY <2>1, Went DEF Reviewed, FindUuid, PushPing, Special, Making, Kinds, StatePlaces
<1>2. QuietQueues
  BY NormalPushed, QueuesKept DEF Reviewed, FindUuid, PushPing, Inv, SlotInv
<1> QED
  BY <1>1, <1>2, SlotKept, ProtoKept DEF Reviewed, FindUuid, PushPing, Quiet

-----------------------------------------------------------------------------
(* The steps that concern an object.                                       *)

(* What the abstract specification sees.                                   *)
lifeVars == <<slot.protocol, Ever, {c \in Conns : proto[c].life = "gone"},
              [c \in Conns |-> proto[c].locks]>>

LEMMA SameLifeVars ==
  ASSUME SameLife
  PROVE  lifeVars' = lifeVars
BY DEF SameLife, lifeVars

(* A callback begins ...                                                   *)
LEMMA Locked ==
  ASSUME Inv, NEW t \in Threads, NEW l \in Locks, CanLock(l),
         proto' = [proto EXCEPT ![slot.protocol].locks = @ \cup {l}], UNCHANGED accepted,
         QuietSlot, QuietQueues, CalmThreads(t), thread'[t].pr = slot.protocol,
         \A m \in Locks : Holds(thread'[t], m) => m = l
  PROVE  Inv' /\ Life!Begin(slot.protocol, l)
<1> DEFINE p == slot.protocol
<1>1. p \in Conns /\ p \in Ever /\ l \notin proto[p].locks /\ ProtoShape
  BY DEF CanLock, Inv, SlotInv, ProtoInv, Ever
<1>2. /\ DOMAIN proto' = Conns /\ proto'[p].locks = proto[p].locks \cup {l}
      /\ \A c \in Conns : /\ DOMAIN proto'[c] = DOMAIN proto[c]
                          /\ proto'[c].uuid = proto[c].uuid
                          /\ proto'[c].life = proto[c].life
                          /\ c # p => proto'[c].locks = proto[c].locks
  BY <1>1 DEF ProtoShape
<1> HIDE DEF p
<1>3. Calm(t)
  BY <1>1, <1>2 DEF Calm, CalmProto, ProtoShape
<1>4. Held
  BY DEF Inv, ThreadInv, Apart, Held
<1>5. Held'
  <2>1. \A u \in Threads \ {t} : thread'[u] = thread[u]
    BY DEF CalmThreads
  <2>2. \A u \in Threads : ~(Holds(thread[u], l) /\ thread[u].pr = p)
    BY <1>1, <1>4 DEF Held
  <2>3. thread'[t].pr = p
    BY DEF p
  <2> QED
    BY <1>1, <1>2, <1>4, <2>1, <2>2, <2>3 DEF Held
<1>6. Inv' /\ Ever' = Ever
  BY <1>3, <1>5, CalmStep
<1>7. Life!Begin(p, l)
  <2>1. [c \in Conns |-> proto[c].locks]'
          = [[c \in Conns |-> proto[c].locks] EXCEPT ![p] = @ \cup {l}]
    <3>1. [c \in Conns |-> proto[c].locks]'
            = [c \in Conns |-> IF c = p THEN proto[p].locks \cup {l} ELSE proto[c].locks]
      BY <1>1, <1>2
    <3> QED
      BY <1>1, <3>1
  <2>2. {c \in Conns : proto[c].life = "gone"}' = {c \in Conns : proto[c].life = "gone"}
    BY <1>2
  <2>3. l \notin [c \in Conns |-> proto[c].locks][p]
    BY <1>1
  <2>4. slot'.protocol = slot.protocol
    BY DEF QuietSlot
  <2> QED
    BY <1>6, <2>1, <2>2, <2>3, <2>4 DEF Life!Begin, Ever, p
<1> QED
  BY <1>6, <1>7 DEF p

(* ... and ends.                                                           *)
LEMMA Unlocked ==
  ASSUME Inv, NEW t \in Threads, NEW l \in Locks, Holds(thread[t], l), Unlock(t, l),
         UNCHANGED accepted, QuietSlot, QuietQueues, CalmThreads(t),
         \A m \in Locks : ~Holds(thread'[t], m)
  PROVE  Inv' /\ Life!End(thread[t].pr, l)
<1> DEFINE p == thread[t].pr
<1>1. p \in Conns /\ l \in proto[p].locks /\ ProtoShape
  BY DEF Inv, ThreadInv, ProtoInv
<1>2. /\ DOMAIN proto' = Conns /\ proto'[p].locks = proto[p].locks \ {l}
      /\ \A c \in Conns : /\ DOMAIN proto'[c] = DOMAIN proto[c]
                          /\ proto'[c].uuid = proto[c].uuid
                          /\ proto'[c].life = proto[c].life
                          /\ c # p => proto'[c].locks = proto[c].locks
  BY <1>1 DEF ProtoShape, Unlock
<1>3. Calm(t)
  BY <1>1, <1>2 DEF Calm, CalmProto, ProtoShape
<1>4. Held
  BY DEF Inv, ThreadInv, Apart, Held
<1>5. Held'
  <2>1. \A u \in Threads \ {t} : thread'[u] = thread[u]
    BY DEF CalmThreads
  <2>2. \A u \in Threads \ {t} : ~(Holds(thread[u], l) /\ thread[u].pr = p)
    BY <1>4 DEF Held
  <2> QED
    BY <1>1, <1>2, <1>4, <2>1, <2>2 DEF Held
<1>6. Inv' /\ Ever' = Ever
  BY <1>3, <1>5, CalmStep
<1>7. Life!End(p, l)
  <2> HIDE DEF p
  <2>1. [c \in Conns |-> proto[c].locks]'
          = [[c \in Conns |-> proto[c].locks] EXCEPT ![p] = @ \ {l}]
    BY <1>1, <1>2
  <2>2. {c \in Conns : proto[c].life = "gone"}' = {c \in Conns : proto[c].life = "gone"}
    BY <1>2
  <2>3. l \in [c \in Conns |-> proto[c].locks][p]
    BY <1>1
  <2>4. slot'.protocol = slot.protocol
    BY DEF QuietSlot
  <2> QED
    BY <1>6, <2>1, <2>2, <2>3, <2>4 DEF Life!End, Ever
<1> QED
  BY <1>6, <1>7

(* A new task of deferred_on_close.                                        *)
LEMMA CloseTask ==
  ASSUME NEW c \in Conns, normal \in Seq(TaskSet), PushNormal(Task("on_close", c, FALSE))
  PROVE  /\ normal' \in Seq(TaskSet)
         /\ \A n \in DOMAIN normal' :
              \/ n \in DOMAIN normal /\ normal'[n] = normal[n]
              \/ n = Len(normal) + 1 /\ n \notin DOMAIN normal /\ normal'[n].id = c
<1>1. Task("on_close", c, FALSE) \in TaskSet /\ Task("on_close", c, FALSE).id = c
  BY DEF Task, TaskSet, Conns
<1>2. normal' = Append(normal, Task("on_close", c, FALSE))
  BY DEF PushNormal
<1>3. DOMAIN normal = 1 .. Len(normal) /\ Len(normal) \in Nat
  OBVIOUS
<1>4. ASSUME NEW n \in DOMAIN normal', n # Len(normal) + 1
      PROVE  n \in DOMAIN normal /\ normal'[n] = normal[n]
  <2>1. n \in 1 .. (Len(normal) + 1)
    BY <1>1, <1>2, <1>4, Appended
  <2>2. n \in 1 .. Len(normal)
    BY <1>3, <1>4, <2>1
  <2> QED
    BY <1>1, <1>2, <1>3, <2>2, Appended
<1>5. normal'[Len(normal) + 1].id = c /\ Len(normal) + 1 \notin DOMAIN normal
  <2>1. \A k \in TaskSet : Append(normal, k)[Len(normal) + 1] = k
    BY Appended
  <2>2. Len(normal) + 1 \notin DOMAIN normal
    BY <1>3
  <2> QED
    BY <1>1, <1>2, <2>1, <2>2, Zenon
<1>6. normal' \in Seq(TaskSet)
  BY <1>1, <1>2, Appended
<1> QED
  BY <1>4, <1>5, <1>6

(* It goes with the object that becomes closable, and no other closes it.  *)
LEMMA CloseQueued ==
  ASSUME Inv, NEW c \in Conns, PushNormal(Task("on_close", c, FALSE)), UNCHANGED urgent,
         \A n \in DOMAIN normal : ~(normal[n].kind = "on_close" /\ normal[n].id = c),
         Closable(c)', \A d : Closable(d) => Closable(d)'
  PROVE  QueueInv'
<1>1. QueueInv
  BY DEF Inv
<1>2. /\ normal' \in Seq(TaskSet)
      /\ \A n \in DOMAIN normal' :
           \/ n \in DOMAIN normal /\ normal'[n] = normal[n]
           \/ n = Len(normal) + 1 /\ n \notin DOMAIN normal /\ normal'[n].id = c
  BY <1>1, CloseTask DEF QueueInv
<1>3. (\A n \in DOMAIN normal : normal[n].kind = "on_close" => Closable(normal[n].id))'
  BY <1>1, <1>2 DEF QueueInv
<1>4. \A m, n \in DOMAIN normal' :
        normal'[m].kind = "on_close" /\ normal'[n].kind = "on_close"
          /\ normal'[m].id = normal'[n].id => m = n
  BY <1>1, <1>2 DEF QueueInv
<1> QED
  BY <1>1, <1>2, <1>3, <1>4 DEF QueueInv

(* fio_clear_fd takes the protocol from the descriptor.                    *)
LEMMA Cleared ==
  ASSUME Inv, NEW t \in Threads, NEW open \in BOOLEAN, ClearFd(open),
         UNCHANGED <<proto, urgent, accepted>>,
         DOMAIN thread' = Threads, \A u \in Threads \ {t} : thread'[u] = thread[u],
         Shape(thread'[t]), thread'[t].pr = thread[t].pr,
         Making(thread'[t]) <=> Making(thread[t]),
         thread[t].at \notin {"attach", "on_close"}, thread'[t].at \notin {"attach", "on_close"},
         \A l \in Locks : Holds(thread'[t], l) => Holds(thread[t], l)
  PROVE  Inv' /\ (Life!Detach \/ lifeVars' = lifeVars)
<1> DEFINE p == slot.protocol
<1>1. SlotInv /\ ProtoInv /\ QueueInv
  BY DEF Inv
<1>2. /\ DOMAIN slot' = DOMAIN slot /\ slot'.counter \in Nat /\ slot'.protocol = None
      /\ slot'.counter = slot.counter + 1
  BY <1>1 DEF ClearFd, SlotInv
<1>3. Ever' = Ever
  BY DEF Ever
<1>4. /\ p # None => p \in Conns
      /\ \A c \in Conns : c = p => Closable(c)' /\ ~Closable(c)
      /\ \A c : Closable(c) => Closable(c)'
  <2>1. Ever \subseteq Conns /\ None \notin Conns
    BY DEF Ever, Conns, None
  <2>2. p \in Ever \cup {None} /\ (p # None => proto[p].life = "live")
    BY <1>1 DEF SlotInv
  <2>3. proto' = proto
    OBVIOUS
  <2> QED
    BY <1>2, <1>3, <2>1, <2>2, <2>3 DEF Closable
<1>5. QueueInv'
  <2>1. CASE p = None
    BY <1>1, <1>4, <2>1 DEF ClearFd, QueueInv
  <2>2. CASE p # None
    <3>1. PICK c \in Conns : c = p
      BY <1>4, <2>2
    <3>2. \A n \in DOMAIN normal : ~(normal[n].kind = "on_close" /\ normal[n].id = c)
      BY <1>1, <1>4, <3>1 DEF QueueInv
    <3>3. PushNormal(Task("on_close", c, FALSE))
      BY <2>2, <3>1 DEF ClearFd
    <3> QED
      BY <1>4, <3>1, <3>2, <3>3, CloseQueued
  <2> QED
    BY <2>1, <2>2
<1>6. \A n \in DOMAIN normal' : normal'[n].kind = "on_close" =>
        \/ n \in DOMAIN normal /\ normal'[n] = normal[n]
        \/ p # None /\ normal'[n].id = p
  <2>1. CASE p = None
    BY <2>1 DEF ClearFd
  <2>2. CASE p # None
    BY <1>1, <1>4, <2>2, CloseTask DEF ClearFd, QueueInv
  <2> QED
    BY <2>1, <2>2
<1>7. ASSUME NEW u \in Threads PROVE ThreadInv(u)'
  <2>1. ThreadInv(u) /\ Shape(thread'[u]) /\ thread'[u].pr = thread[u].pr
    BY <1>7 DEF Inv, ThreadInv
  <2>2. \A l \in Locks : Holds(thread'[u], l) => Holds(thread[u], l)
    BY <1>7
  <2>3. Making(thread'[u])
         => Making(thread[u]) /\ (thread'[u].at = "attach" <=> thread[u].at = "attach")
    BY <1>7
  <2>4. thread'[u].at = "on_close" => thread'[u] = thread[u]
    BY <1>7
  <2>5. thread'[u].at = "on_close" => \A n \in DOMAIN normal' :
          ~(normal'[n].kind = "on_close" /\ normal'[n].id = thread'[u].uuid)
    BY <1>4, <1>6, <2>1, <2>4 DEF ThreadInv
  <2> QED
    BY <1>4, <2>1, <2>2, <2>3, <2>4, <2>5 DEF ThreadInv
<1>8. ASSUME NEW u \in Threads, NEW v \in Threads, u # v PROVE Apart(u, v)'
  <2>1. Apart(u, v)
    BY <1>8 DEF Inv
  <2>2. \A x \in Threads :
          /\ thread'[x].pr = thread[x].pr /\ (Making(thread'[x]) => Making(thread[x]))
          /\ thread'[x].at = "on_close" => thread'[x] = thread[x]
          /\ \A l \in Locks : Holds(thread'[x], l) => Holds(thread[x], l)
    OBVIOUS
  <2> QED
    BY <1>8, <2>1, <2>2 DEF Apart
<1>9. SlotInv' /\ ProtoInv'
  BY <1>1, <1>2, <1>3 DEF SlotInv, ProtoInv, ProtoShape
<1>10. Life!Detach \/ lifeVars' = lifeVars
  BY <1>2, <1>3 DEF Life!Detach, lifeVars, Ever
<1> QED
  BY <1>5, <1>7, <1>8, <1>9, <1>10 DEF Inv

LEMMA LockPlace ==
  ASSUME Inv, NEW t \in Threads, NEW l \in Locks, NEW place, Lock(t, l, place),
         thread[t].at \in FreePlaces, ~Special(thread[t]),
         \/ l = "task" /\ place = "data"
         \/ l = "write" /\ place = "ready"
         \/ l = "state" /\ place = "review"
  PROVE  /\ CalmThreads(t) /\ thread'[t].pr = slot.protocol
         /\ \A m \in Locks : Holds(thread'[t], m) => m = l
<1>1. /\ DOMAIN thread = Threads /\ Shape(thread[t])
      /\ thread' = [thread EXCEPT ![t].at = place, ![t].pr = slot.protocol]
  BY DEF Inv, ThreadInv, Lock
<1>2. thread[t].stack = <<>>
  BY <1>1, ShapeOf
<1>3. /\ thread'[t].at = place /\ thread'[t].stack = <<>> /\ thread'[t].pr = slot.protocol
      /\ thread'[t].uuid = thread[t].uuid /\ thread'[t].target = thread[t].target
      /\ DOMAIN thread'[t] = DOMAIN thread[t]
  BY <1>1, <1>2 DEF Shape
<1>4. Shape(thread'[t]) /\ ~Special(thread'[t])
  BY <1>1, <1>3 DEF Shape, Special, Making, TaskPlaces, WritePlaces, StatePlaces
<1>5. \A m \in Locks : Holds(thread'[t], m) => m = l
  <2>1. place \notin SendPlaces \cup ClosePlaces
    BY DEF SendPlaces, ClosePlaces
  <2>2. /\ place \in TaskPlaces => l = "task"
        /\ place \in WritePlaces => l = "write"
        /\ place \in StatePlaces => l = "state"
    BY DEF TaskPlaces, WritePlaces, StatePlaces
  <2> QED
    BY <1>3, <2>1, <2>2 DEF Holds
<1> QED
  BY <1>1, <1>3, <1>4, <1>5 DEF CalmThreads

(* Each callback: it begins, or is put off.                                *)
Lives == Inv' /\ (Life!Next \/ lifeVars' = lifeVars)

LEMMA BeginsLives ==
  ASSUME Inv, NEW l \in Locks, CanLock(l), Inv', Life!Begin(slot.protocol, l)
  PROVE  Lives
<1>1. slot.protocol \in Conns
  BY DEF CanLock, Inv, SlotInv, Ever
<1> QED
  BY <1>1 DEF Lives, Life!Next

LEMMA EndsLives ==
  ASSUME Inv, NEW t \in Threads, NEW l \in Locks, Holds(thread[t], l), Inv',
         Life!End(thread[t].pr, l)
  PROVE  Lives
<1>1. thread[t].pr \in Conns
  BY DEF Inv, ThreadInv
<1> QED
  BY <1>1 DEF Lives, Life!Next

LEMMA QuietLives ==
  ASSUME Inv, NEW t \in Threads, Quiet(t)
  PROVE  Lives
BY QuietStep, SameLifeVars DEF Lives

LEMMA LockTaskLives ==
  ASSUME Inv, NEW t \in Threads, LockTask(t)
  PROVE  Lives
<1>1. thread[t].at \in FreePlaces /\ ~Special(thread[t]) /\ thread[t].uuid \in Nat
  BY DEF LockTask, FreePlaces, Special, Making, Inv, ThreadInv, Shape
<1>2. CASE CanLock("task")
  <2>1. "task" \in Locks
    BY DEF Locks
  <2>2. Lock(t, "task", "data")
    BY <1>2 DEF LockTask
  <2>3. QuietSlot
    BY <1>2, SlotKept DEF LockTask
  <2>4. QuietQueues
    BY <1>2, QueuesKept DEF LockTask
  <2>5. /\ CalmThreads(t) /\ thread'[t].pr = slot.protocol
        /\ \A m \in Locks : Holds(thread'[t], m) => m = "task"
    BY <1>1, <2>1, <2>2, LockPlace
  <2>6. Inv' /\ Life!Begin(slot.protocol, "task")
    BY <1>2, <2>1, <2>2, <2>3, <2>4, <2>5, Locked DEF LockTask, Lock
  <2> QED
    BY <1>2, <2>1, <2>6, BeginsLives
<1>3. CASE ~CanLock("task")
  <2>1. QuietThreads(t)
    BY <1>1, <1>3, Rested DEF LockTask
  <2>2. QuietQueues
    BY <1>1, <1>3, NormalPushed, QueuesKept DEF LockTask
  <2>3. Quiet(t)
    BY <1>3, <2>1, <2>2, SlotKept, ProtoKept DEF LockTask, Quiet
  <2> QED
    BY <2>3, QuietLives
<1> QED
  BY <1>2, <1>3

LEMMA OnReadyUsrLives ==
  ASSUME Inv, NEW t \in Threads, OnReadyUsr(t)
  PROVE  Lives
<1>1. thread[t].at \in FreePlaces /\ ~Special(thread[t]) /\ thread[t].uuid \in Nat
  BY DEF OnReadyUsr, FreePlaces, Special, Making, Inv, ThreadInv, Shape
<1>2. CASE CanLock("write")
  <2>1. "write" \in Locks
    BY DEF Locks
  <2>2. Lock(t, "write", "ready")
    BY <1>2 DEF OnReadyUsr
  <2>3. QuietSlot
    BY SlotKept DEF OnReadyUsr
  <2>4. QuietQueues
    BY <1>2, QueuesKept DEF OnReadyUsr
  <2>5. /\ CalmThreads(t) /\ thread'[t].pr = slot.protocol
        /\ \A m \in Locks : Holds(thread'[t], m) => m = "write"
    BY <1>1, <2>1, <2>2, LockPlace
  <2>6. Inv' /\ Life!Begin(slot.protocol, "write")
    BY <1>2, <2>1, <2>2, <2>3, <2>4, <2>5, Locked DEF OnReadyUsr, Lock
  <2> QED
    BY <1>2, <2>1, <2>6, BeginsLives
<1>3. CASE ~CanLock("write")
  <2>1. QuietThreads(t)
    BY <1>1, <1>3, Rested DEF OnReadyUsr
  <2>2. QuietQueues
    BY <1>1, <1>3, NormalPushed, QueuesKept DEF OnReadyUsr
  <2>3. Quiet(t)
    BY <1>3, <2>1, <2>2, SlotKept, ProtoKept DEF OnReadyUsr, Quiet
  <2> QED
    BY <2>3, QuietLives
<1> QED
  BY <1>2, <1>3

LEMMA ReviewLives ==
  ASSUME Inv, NEW t \in Threads, Review(t)
  PROVE  Lives
<1>1. thread[t].at \in FreePlaces /\ ~Special(thread[t]) /\ "state" \in Locks
  BY DEF Review, FreePlaces, Special, Making, Locks
<1>2. CanLock("state") /\ Lock(t, "state", "review")
  BY DEF Review
<1>3. QuietSlot /\ QuietQueues
  BY SlotKept, QueuesKept DEF Review
<1>4. /\ CalmThreads(t) /\ thread'[t].pr = slot.protocol
      /\ \A m \in Locks : Holds(thread'[t], m) => m = "state"
  BY <1>1, <1>2, LockPlace
<1>5. Inv' /\ Life!Begin(slot.protocol, "state")
  BY <1>1, <1>2, <1>3, <1>4, Locked DEF Review, Lock
<1> QED
  BY <1>1, <1>2, <1>5, BeginsLives

LEMMA PingLives ==
  ASSUME Inv, NEW t \in Threads, Ping(t)
  PROVE  Lives
<1>1. /\ thread[t].at \in FreePlaces /\ ~Special(thread[t]) /\ thread[t].uuid \in Nat
      /\ "write" \in Locks
  BY DEF Ping, FreePlaces, Special, Making, Inv, ThreadInv, Shape, Locks
<1>2. QuietSlot
  BY SlotKept DEF Ping
<1>3. CASE slot.protocol # None /\ slot.quiet /\ CanLock("write")
  <2>1. /\ DOMAIN thread = Threads /\ Shape(thread[t])
        /\ thread' = [thread EXCEPT ![t].at = "close", ![t].target = thread[t].uuid,
                                    ![t].pr = slot.protocol,
                                    ![t].stack = <<"unlock write">>]
    BY <1>3 DEF Ping, Inv, ThreadInv
  <2>2. /\ thread'[t].at = "close" /\ thread'[t].stack = <<"unlock write">>
        /\ thread'[t].pr = slot.protocol /\ thread'[t].uuid = thread[t].uuid
        /\ thread'[t].target = thread[t].uuid /\ DOMAIN thread'[t] = DOMAIN thread[t]
    BY <2>1 DEF Shape
  <2>3. <<"unlock write">> \in CloseStacks /\ <<"unlock write">> \notin TaskStacks
    BY DEF CloseStacks, TaskStacks
  <2>4. CalmThreads(t)
    BY <1>1, <2>1, <2>2, <2>3 DEF CalmThreads, Shape, ClosePlaces, Special, Making
  <2>5. \A m \in Locks : Holds(thread'[t], m) => m = "write"
    BY <2>2, <2>3 DEF Holds, TaskPlaces, StatePlaces
  <2>6. QuietQueues
    BY <1>3, QueuesKept DEF Ping
  <2>7. Inv' /\ Life!Begin(slot.protocol, "write")
    BY <1>1, <1>2, <1>3, <2>2, <2>4, <2>5, <2>6, Locked DEF Ping
  <2> QED
    BY <1>1, <1>3, <2>7, BeginsLives
<1>4. CASE ~(slot.protocol # None /\ slot.quiet /\ CanLock("write"))
  <2>1. QuietThreads(t)
    BY <1>1, <1>4, Rested DEF Ping
  <2>2. QuietQueues
    BY <1>1, <1>4, NormalPushed, QueuesKept DEF Ping
  <2>3. Quiet(t)
    BY <1>2, <1>4, <2>1, <2>2, ProtoKept DEF Ping, Quiet
  <2> QED
    BY <2>3, QuietLives
<1> QED
  BY <1>3, <1>4

LEMMA UnlockLives ==
  ASSUME Inv, NEW t \in Threads, UnlockTask(t) \/ UnlockWrite(t) \/ UnlockState(t)
  PROVE  Lives
<1>1. DOMAIN thread = Threads /\ Shape(thread[t]) /\ ~Special(thread[t])
  BY DEF Inv, ThreadInv, Special, Making, UnlockTask, UnlockWrite, UnlockState
<1>2. PICK l \in Locks : Unlock(t, l) /\ Holds(thread[t], l)
  BY DEF UnlockTask, UnlockWrite, UnlockState, Locks, Holds, TaskPlaces, WritePlaces, StatePlaces
<1>3. QuietSlot /\ QuietQueues
  BY SlotKept, QueuesKept DEF UnlockTask, UnlockWrite, UnlockState
<1>4. CalmThreads(t) /\ \A m \in Locks : ~Holds(thread'[t], m)
  <2>1. CASE Goto(t, "rearm") /\ thread[t].at = "unlock task"
    <3>1. thread[t].stack = <<>>
      BY <1>1, <2>1, ShapeOf DEF TaskPlaces
    <3>2. /\ thread'[t].at = "rearm" /\ thread'[t].stack = <<>>
          /\ thread'[t].uuid = thread[t].uuid /\ thread'[t].target = thread[t].target
          /\ DOMAIN thread'[t] = DOMAIN thread[t]
          /\ DOMAIN thread' = Threads /\ \A u \in Threads \ {t} : thread'[u] = thread[u]
      BY <1>1, <2>1, <3>1 DEF Goto, Shape
    <3>3. Shape(thread'[t])
      BY <1>1, <3>2 DEF Shape, FreePlaces
    <3> QED
      BY <1>1, <3>2, <3>3 DEF CalmThreads, Special, Making, Holds, TaskPlaces, WritePlaces,
                              StatePlaces, SendPlaces, ClosePlaces
  <2>2. CASE Rest(t)
    <3>1. QuietThreads(t)
      BY <1>1, <2>2, Rested
    <3>2. thread'[t] = Idle
      BY <1>1, <2>2 DEF Rest
    <3>3. \A m : ~Holds(Idle, m)
      BY DEF Idle, Holds, TaskPlaces, WritePlaces, StatePlaces, SendPlaces, ClosePlaces
    <3> QED
      BY <3>1, <3>2, <3>3 DEF QuietThreads
  <2> QED
    BY <2>1, <2>2 DEF UnlockTask, UnlockWrite, UnlockState
<1>5. UNCHANGED accepted
  BY DEF UnlockTask, UnlockWrite, UnlockState
<1>6. Inv' /\ Life!End(thread[t].pr, l)
  BY <1>2, <1>3, <1>4, <1>5, Unlocked
<1> QED
  BY <1>2, <1>6, EndsLives

LEMMA ClearLives ==
  ASSUME Inv, NEW t \in Threads, Open(t) \/ ClearClosed(t) \/ Reopen(t)
  PROVE  Lives
<1>1. /\ DOMAIN thread = Threads /\ Shape(thread[t])
      /\ \E open \in BOOLEAN : ClearFd(open)
      /\ UNCHANGED <<proto, urgent, accepted>>
  BY DEF Inv, ThreadInv, Open, ClearClosed, Reopen
<1>2. CASE Open(t)
  <2>1. thread[t].stack = <<>>
    BY <1>1, <1>2, ShapeOf DEF Open, FreePlaces
  <2>2. /\ thread'[t].at = "name" /\ thread'[t].stack = <<>> /\ thread'[t].pr = thread[t].pr
        /\ thread'[t].uuid = thread[t].uuid /\ thread'[t].target = thread[t].target
        /\ DOMAIN thread'[t] = DOMAIN thread[t]
        /\ DOMAIN thread' = Threads /\ \A u \in Threads \ {t} : thread'[u] = thread[u]
    BY <1>1, <1>2, <2>1 DEF Open, Goto, Shape
  <2>3. Shape(thread'[t]) /\ Making(thread'[t]) /\ Making(thread[t]) /\ thread[t].at = "open"
    BY <1>1, <1>2, <2>2 DEF Shape, Making, FreePlaces, Open
  <2>4. \A l \in Locks : ~Holds(thread'[t], l)
    BY <2>2 DEF Holds, TaskPlaces, WritePlaces, StatePlaces, SendPlaces, ClosePlaces
  <2>5. Inv' /\ (Life!Detach \/ lifeVars' = lifeVars)
    BY <1>1, <2>2, <2>3, <2>4, Cleared
  <2> QED
    BY <2>5 DEF Lives, Life!Next
<1>3. CASE ClearClosed(t) \/ Reopen(t)
  <2>1. /\ thread[t].at \in {"clear", "reopen"} /\ thread'[t].at \in {"shut", "push ping"}
        /\ thread'[t].pr = thread[t].pr
    BY <1>1, <1>3 DEF ClearClosed, Reopen, Goto, Shape
  <2>2. ~Special(thread[t]) /\ ~Special(thread'[t])
    BY <2>1 DEF Special, Making
  <2>3. QuietThreads(t)
    <3>1. CASE ClearClosed(t)
      BY <2>2, <3>1, Went DEF ClearClosed, Kinds, ClosePlaces
    <3>2. CASE Reopen(t)
      BY <2>2, <3>2, Went DEF Reopen, Kinds, StatePlaces
    <3> QED
      BY <1>3, <3>1, <3>2
  <2>4. Inv' /\ (Life!Detach \/ lifeVars' = lifeVars)
    BY <1>1, <2>1, <2>2, <2>3, Cleared DEF QuietThreads, CalmThreads, Special
  <2> QED
    BY <2>4 DEF Lives, Life!Next
<1> QED
  BY <1>2, <1>3

(* A thread takes a task, or ends one that is under no lock.               *)
LEMMA Freed ==
  ASSUME Inv, NEW t \in Threads,
         DOMAIN thread' = Threads, \A u \in Threads \ {t} : thread'[u] = thread[u],
         Shape(thread'[t]), \A l \in Locks : ~Holds(thread'[t], l),
         accepted' \in Nat, accepted' >= accepted,
         \A c \in Conns : proto'[c].locks = proto[c].locks,
         Making(thread'[t]) =>
           /\ thread'[t].pr \in Conns /\ thread'[t].pr <= accepted'
           /\ proto'[thread'[t].pr].life = IF thread'[t].at = "attach" THEN "live" ELSE "none"
           /\ \A u \in Threads \ {t} : Making(thread[u]) => thread[u].pr # thread'[t].pr,
         thread'[t].at = "on_close" =>
           /\ \A d : d = thread'[t].uuid => Closable(d)'
           /\ \A n \in DOMAIN normal' :
                ~(normal'[n].kind = "on_close" /\ normal'[n].id = thread'[t].uuid)
           /\ \A u \in Threads \ {t} :
                thread[u].at = "on_close" => thread[u].uuid # thread'[t].uuid,
         \A u \in Threads \ {t} : Making(thread[u]) =>
           proto'[thread[u].pr].life = proto[thread[u].pr].life,
         \A u \in Threads \ {t} : thread[u].at = "on_close" =>
           /\ \A d : d = thread[u].uuid => Closable(d)'
           /\ \A n \in DOMAIN normal' :
                ~(normal'[n].kind = "on_close" /\ normal'[n].id = thread[u].uuid)
  PROVE  /\ \A u \in Threads : ThreadInv(u)'
         /\ \A u, v \in Threads : u # v => Apart(u, v)'
<1>1. accepted \in Nat
  BY DEF Inv, ProtoInv
<1>2. ASSUME NEW u \in Threads PROVE ThreadInv(u)'
  <2>1. CASE u = t
    BY <2>1 DEF ThreadInv
  <2>2. CASE u # t
    <3>1. thread'[u] = thread[u] /\ ThreadInv(u)
      BY <2>2 DEF Inv
    <3>2. Shape(thread'[u])
      BY <3>1 DEF ThreadInv
    <3>3. Making(thread'[u]) =>
            /\ thread'[u].pr \in Conns /\ thread'[u].pr <= accepted'
            /\ proto'[thread'[u].pr].life = IF thread'[u].at = "attach" THEN "live" ELSE "none"
      <4>1. ASSUME Making(thread[u])
            PROVE  /\ thread[u].pr \in Conns /\ thread[u].pr <= accepted'
                   /\ proto'[thread[u].pr].life = IF thread[u].at = "attach" THEN "live" ELSE "none"
        <5>1. /\ thread[u].pr \in Conns /\ thread[u].pr <= accepted
              /\ proto[thread[u].pr].life = IF thread[u].at = "attach" THEN "live" ELSE "none"
          BY <3>1, <4>1 DEF ThreadInv
        <5>2. proto'[thread[u].pr].life = proto[thread[u].pr].life
          BY <2>2, <4>1
        <5>3. thread[u].pr <= accepted'
          BY <1>1, <5>1 DEF Conns
        <5> QED
          BY <5>1, <5>2, <5>3
      <4> QED
        BY <3>1, <4>1
    <3>4. thread'[u].at = "on_close" =>
            /\ Closable(thread[u].uuid)'
            /\ \A n \in DOMAIN normal' :
                 ~(normal'[n].kind = "on_close" /\ normal'[n].id = thread'[u].uuid)
      BY <2>2, <3>1
    <3>5. \A l \in Locks : Holds(thread'[u], l) =>
            thread'[u].pr \in Conns /\ l \in proto'[thread'[u].pr].locks
      BY <3>1 DEF ThreadInv
    <3> QED
      BY <3>2, <3>3, <3>4, <3>5 DEF ThreadInv
  <2> QED
    BY <2>1, <2>2
<1>3. ASSUME NEW u \in Threads, NEW v \in Threads, u # v PROVE Apart(u, v)'
  <2>1. CASE u # t /\ v # t
    <3>1. thread'[u] = thread[u] /\ thread'[v] = thread[v] /\ Apart(u, v)
      BY <1>3, <2>1 DEF Inv
    <3> QED
      BY <3>1 DEF Apart
  <2>2. CASE u = t
    BY <1>3, <2>2 DEF Apart
  <2>3. CASE v = t
    BY <1>3, <2>3 DEF Apart
  <2> QED
    BY <2>1, <2>2, <2>3
<1> QED
  BY <1>2, <1>3

LEMMA Free ==
  ASSUME NEW th, th.at \in FreePlaces
  PROVE  \A l : ~Holds(th, l)
BY DEF Holds, FreePlaces, TaskPlaces, WritePlaces, StatePlaces, SendPlaces, ClosePlaces

LEMMA IdleShape ==
  Shape(Idle) /\ ~Special(Idle) /\ \A l : ~Holds(Idle, l)
BY DEF Idle, Shape, Special, Making, Holds, FreePlaces, TaskPlaces, WritePlaces, StatePlaces,
       SendPlaces, ClosePlaces

LEMMA AcceptLives ==
  ASSUME Inv, NEW t \in Threads, Accept(t)
  PROVE  Lives
<1>1. /\ DOMAIN thread = Threads /\ Shape(thread[t]) /\ thread[t].at = "idle"
      /\ accepted \in 0 .. MaxConns /\ accepted < MaxConns /\ accepted' = accepted + 1
      /\ UNCHANGED <<slot, proto, normal, urgent>>
  BY DEF Inv, ThreadInv, ProtoInv, Accept
<1>2. accepted' \in Conns /\ accepted' \in 0 .. MaxConns /\ accepted' > accepted
  BY <1>1, HttpAssumption DEF Conns
<1>3. thread[t].stack = <<>>
  BY <1>1, ShapeOf DEF FreePlaces
<1>4. /\ thread'[t].at = "open" /\ thread'[t].stack = <<>> /\ thread'[t].pr = accepted'
      /\ thread'[t].uuid = thread[t].uuid /\ thread'[t].target = thread[t].target
      /\ DOMAIN thread'[t] = DOMAIN thread[t]
      /\ DOMAIN thread' = Threads /\ \A u \in Threads \ {t} : thread'[u] = thread[u]
  BY <1>1, <1>3 DEF Accept, Shape
<1>5. Shape(thread'[t]) /\ \A l \in Locks : ~Holds(thread'[t], l)
  <2>1. thread'[t].at \in FreePlaces
    BY <1>4 DEF FreePlaces
  <2> QED
    BY <1>1, <1>4, <2>1, Free DEF Shape
<1>6. Ever' = Ever /\ \A c : Closable(c)' <=> Closable(c)
  <2>1. Ever' = Ever
    BY <1>1, <1>4 DEF Ever
  <2> QED
    BY <1>1, <2>1 DEF Closable
<1>7. proto[accepted'].life = "none"
  BY <1>2 DEF Inv, ProtoInv
<1>8. \A u \in Threads \ {t} :
        /\ Making(thread[u]) => thread[u].pr # accepted'
        /\ thread[u].at = "on_close" => Closable(thread[u].uuid)
             /\ \A n \in DOMAIN normal :
                   ~(normal[n].kind = "on_close" /\ normal[n].id = thread[u].uuid)
  BY <1>1, <1>2 DEF Inv, ThreadInv, Conns
<1>9. /\ \A u \in Threads : ThreadInv(u)'
      /\ \A u, v \in Threads : u # v => Apart(u, v)'
  <2>1. accepted' \in Nat /\ accepted' >= accepted
    BY <1>1
  <2> QED
    BY <1>1, <1>2, <1>4, <1>5, <1>6, <1>7, <1>8, <2>1, Freed
<1>10. SlotInv' /\ QueueInv' /\ ProtoInv'
  <2>1. SlotInv' /\ QueueInv'
    BY <1>1, <1>6 DEF Inv, SlotInv, QueueInv
  <2>2. ProtoInv'
    BY <1>1, <1>2 DEF Inv, ProtoInv, ProtoShape, Conns
  <2> QED
    BY <2>1, <2>2
<1>11. lifeVars' = lifeVars
  BY <1>1, <1>6 DEF lifeVars
<1> QED
  BY <1>4, <1>9, <1>10, <1>11 DEF Lives, Inv

LEMMA NameLives ==
  ASSUME Inv, NEW t \in Threads, Name(t)
  PROVE  Lives
<1>1. /\ DOMAIN thread = Threads /\ Shape(thread[t]) /\ thread[t].at = "name"
      /\ Making(thread[t]) /\ ThreadInv(t) /\ thread[t].stack = <<>>
      /\ SlotInv /\ ProtoInv /\ QueueInv
      /\ UNCHANGED <<slot, normal, urgent, accepted>>
  BY ShapeOf DEF Inv, ThreadInv, Name, Making, FreePlaces
<1>2. PICK c \in Conns : c = thread[t].pr /\ c <= accepted /\ proto[c].life = "none"
  BY <1>1 DEF ThreadInv
<1>3. /\ DOMAIN proto' = Conns /\ proto'[c].uuid \in Nat /\ proto'[c].life = "live"
      /\ \A d \in Conns : /\ DOMAIN proto'[d] = DOMAIN proto[d]
                          /\ proto'[d].locks = proto[d].locks
                          /\ d # c => proto'[d] = proto[d]
  BY <1>1, <1>2 DEF Name, ProtoInv, ProtoShape, SlotInv
<1>4. /\ thread'[t].at = "attach" /\ thread'[t].stack = <<>> /\ thread'[t].pr = c
      /\ thread'[t].uuid = thread[t].uuid /\ thread'[t].target = thread[t].target
      /\ DOMAIN thread'[t] = DOMAIN thread[t]
      /\ DOMAIN thread' = Threads /\ \A u \in Threads \ {t} : thread'[u] = thread[u]
  BY <1>1, <1>2 DEF Name, Goto, Shape
<1>5. Shape(thread'[t]) /\ \A l \in Locks : ~Holds(thread'[t], l)
  <2>1. thread'[t].at \in FreePlaces
    BY <1>4 DEF FreePlaces
  <2> QED
    BY <1>1, <1>4, <2>1, Free DEF Shape
<1>6. Ever' = Ever /\ c \notin Ever
  BY <1>2, <1>3, <1>4 DEF Ever
<1>7. \A d : Closable(d) <=> Closable(d)'
  BY <1>1, <1>3, <1>6 DEF Closable, Ever
<1>8. \A u \in Threads \ {t} :
        /\ Making(thread[u]) => thread[u].pr # c /\ thread[u].pr \in Conns
        /\ thread[u].at = "on_close" => Closable(thread[u].uuid)
             /\ \A n \in DOMAIN normal :
                   ~(normal[n].kind = "on_close" /\ normal[n].id = thread[u].uuid)
  BY <1>1, <1>2 DEF Inv, ThreadInv, Apart
<1>9. /\ \A u \in Threads : ThreadInv(u)'
      /\ \A u, v \in Threads : u # v => Apart(u, v)'
  <2>1. accepted' \in Nat /\ accepted' >= accepted
    BY <1>1 DEF ProtoInv
  <2> QED
    BY <1>1, <1>2, <1>3, <1>4, <1>5, <1>7, <1>8, <2>1, Freed
<1>10. SlotInv' /\ QueueInv' /\ ProtoInv'
  <2>1. SlotInv'
    BY <1>1, <1>3, <1>6 DEF SlotInv, Ever
  <2>2. QueueInv'
    BY <1>1, <1>7 DEF QueueInv
  <2>3. ProtoInv'
    BY <1>1, <1>2, <1>3 DEF ProtoInv, ProtoShape, Conns
  <2> QED
    BY <2>1, <2>2, <2>3
<1>11. lifeVars' = lifeVars
  <2>1. {d \in Conns : proto[d].life = "gone"}' = {d \in Conns : proto[d].life = "gone"}
    BY <1>2, <1>3
  <2>2. [d \in Conns |-> proto[d].locks]' = [d \in Conns |-> proto[d].locks]
    BY <1>3
  <2> QED
    BY <1>1, <1>6, <2>1, <2>2 DEF lifeVars
<1> QED
  BY <1>4, <1>9, <1>10, <1>11 DEF Lives, Inv

(* A new protocol takes the descriptor, or finds it gone.                  *)
LEMMA AttachLives ==
  ASSUME Inv, NEW t \in Threads, Attach(t)
  PROVE  Lives
<1>1. /\ DOMAIN thread = Threads /\ thread[t].at = "attach" /\ Making(thread[t])
      /\ ThreadInv(t) /\ SlotInv /\ ProtoInv /\ QueueInv
      /\ UNCHANGED <<proto, urgent, accepted>> /\ Rest(t)
  BY DEF Inv, Attach, Making
<1>2. PICK c \in Conns : c = thread[t].pr /\ c <= accepted /\ proto[c].life = "live"
  BY <1>1 DEF ThreadInv
<1>3. /\ thread'[t] = Idle /\ DOMAIN thread' = Threads
      /\ \A u \in Threads \ {t} : thread'[u] = thread[u]
  BY <1>1 DEF Rest
<1>4. c \notin Ever /\ Ever' = Ever \cup {c}
  <2>1. thread'[t].at # "attach"
    BY <1>3 DEF Idle
  <2>2. \A u \in Threads \ {t} : ~(thread[u].at = "attach" /\ thread[u].pr = c)
    BY <1>1, <1>2 DEF Inv, Apart, Making
  <2> QED
    BY <1>1, <1>2, <1>3, <2>1, <2>2 DEF Ever
<1>5. /\ DOMAIN slot' = DOMAIN slot /\ slot'.counter = slot.counter
      /\ slot'.protocol \in {c, slot.protocol}
      /\ slot'.protocol # slot.protocol => slot'.protocol = c
  BY <1>1, <1>2 DEF Attach, SlotInv
<1>6. None \notin Conns /\ Ever \subseteq Conns
  BY DEF None, Conns, Ever
<1>7. \A d : Closable(d) => Closable(d)' /\ d # c
  BY <1>1, <1>4, <1>5 DEF Closable
<1>8. \/ UNCHANGED normal
      \/ \E d \in Conns : /\ PushNormal(Task("on_close", d, FALSE))
                          /\ ~Closable(d) /\ Closable(d)'
  <2>1. CASE Valid(proto[c].uuid)
    <3>1. slot'.protocol = c
      BY <1>1, <1>2, <2>1 DEF Attach, SlotInv
    <3>2. CASE slot.protocol = None
      BY <1>2, <2>1, <3>2 DEF Attach
    <3>3. CASE slot.protocol # None
      <4>1. PICK d \in Conns : d = slot.protocol
        BY <1>1, <1>6, <3>3 DEF SlotInv
      <4>2. d \in Ever /\ proto[d].life = "live" /\ d # c
        BY <1>1, <1>4, <3>3, <4>1 DEF SlotInv
      <4>3. ~Closable(d) /\ Closable(d)'
        BY <1>1, <1>4, <3>1, <4>1, <4>2 DEF Closable
      <4>4. PushNormal(Task("on_close", d, FALSE))
        BY <1>2, <2>1, <3>3, <4>1 DEF Attach
      <4> QED
        BY <4>3, <4>4
    <3> QED
      BY <3>2, <3>3
  <2>2. CASE ~Valid(proto[c].uuid)
    <3>1. slot' = slot /\ PushNormal(Task("on_close", c, FALSE))
      BY <1>2, <2>2 DEF Attach
    <3>2. slot.protocol # c
      BY <1>1, <1>4, <1>6 DEF SlotInv
    <3>3. ~Closable(c) /\ Closable(c)'
      BY <1>1, <1>2, <1>4, <3>1, <3>2 DEF Closable
    <3> QED
      BY <3>1, <3>3
  <2> QED
    BY <2>1, <2>2
<1>9. QueueInv'
  <2>1. CASE UNCHANGED normal
    BY <1>1, <1>7, <2>1 DEF QueueInv
  <2>2. ASSUME NEW d \in Conns, PushNormal(Task("on_close", d, FALSE)), ~Closable(d), Closable(d)'
        PROVE  QueueInv'
    <3>1. \A n \in DOMAIN normal : ~(normal[n].kind = "on_close" /\ normal[n].id = d)
      BY <1>1, <2>2 DEF QueueInv
    <3>2. \A e : Closable(e) => Closable(e)'
      BY <1>7
    <3> QED
      BY <1>1, <2>2, <3>1, <3>2, CloseQueued
  <2> QED
    BY <1>8, <2>1, <2>2
<1>10. \A e : Closable(e) => \A n \in DOMAIN normal' :
         normal'[n].kind = "on_close" /\ normal'[n].id = e
           => n \in DOMAIN normal /\ normal'[n] = normal[n]
  <2>1. CASE UNCHANGED normal
    BY <2>1
  <2>2. ASSUME NEW d \in Conns, PushNormal(Task("on_close", d, FALSE)), ~Closable(d)
        PROVE  \A e : Closable(e) => \A n \in DOMAIN normal' :
                 normal'[n].kind = "on_close" /\ normal'[n].id = e
                   => n \in DOMAIN normal /\ normal'[n] = normal[n]
    BY <1>1, <2>2, CloseTask DEF QueueInv
  <2> QED
    BY <1>8, <2>1, <2>2
<1>11. /\ \A u \in Threads : ThreadInv(u)'
       /\ \A u, v \in Threads : u # v => Apart(u, v)'
  <2>1. accepted' \in Nat /\ accepted' >= accepted
    BY <1>1 DEF ProtoInv
  <2>2. \A u \in Threads \ {t} : thread[u].at = "on_close" =>
          /\ Closable(thread[u].uuid)
          /\ \A n \in DOMAIN normal :
                ~(normal[n].kind = "on_close" /\ normal[n].id = thread[u].uuid)
    BY DEF Inv, ThreadInv
  <2>3. \A u \in Threads \ {t} : thread[u].at = "on_close" =>
          /\ \A d : d = thread[u].uuid => Closable(d)'
          /\ \A n \in DOMAIN normal' :
               ~(normal'[n].kind = "on_close" /\ normal'[n].id = thread[u].uuid)
    BY <1>7, <1>10, <2>2
  <2>4. Shape(thread'[t]) /\ ~Special(thread'[t]) /\ \A l \in Locks : ~Holds(thread'[t], l)
    BY <1>3, IdleShape
  <2> QED
    BY <1>1, <1>3, <2>1, <2>3, <2>4, Freed DEF Special
<1>12. SlotInv' /\ ProtoInv'
  BY <1>1, <1>2, <1>4, <1>5 DEF SlotInv, ProtoInv, ProtoShape
<1>13. Life!Make(c)
  BY <1>1, <1>4, <1>5 DEF Life!Make, Ever
<1> QED
  BY <1>3, <1>9, <1>11, <1>12, <1>13 DEF Lives, Life!Next, Inv

LEMMA OnCloseLives ==
  ASSUME Inv, NEW t \in Threads, OnClose(t)
  PROVE  Lives
<1>1. /\ DOMAIN thread = Threads /\ thread[t].at = "on_close" /\ ~Making(thread[t])
      /\ ThreadInv(t) /\ SlotInv /\ ProtoInv /\ QueueInv
      /\ UNCHANGED <<slot, urgent, accepted>> /\ Rest(t)
  BY DEF Inv, OnClose, Making
<1>2. PICK c \in Conns : c = thread[t].uuid /\ Closable(c)
  BY <1>1 DEF ThreadInv, Closable, Ever
<1>3. \A n \in DOMAIN normal : ~(normal[n].kind = "on_close" /\ normal[n].id = c)
  BY <1>1, <1>2 DEF ThreadInv
<1>4. /\ thread'[t] = Idle /\ DOMAIN thread' = Threads
      /\ \A u \in Threads \ {t} : thread'[u] = thread[u]
  BY <1>1 DEF Rest
<1>5. \A u \in Threads \ {t} :
        /\ Making(thread[u]) => thread[u].pr \in Conns /\ thread[u].pr # c
        /\ thread[u].at = "on_close" => /\ Closable(thread[u].uuid) /\ thread[u].uuid # c
             /\ \A n \in DOMAIN normal :
                   ~(normal[n].kind = "on_close" /\ normal[n].id = thread[u].uuid)
  BY <1>1, <1>2 DEF Inv, ThreadInv, Apart, Making, Closable, Ever
<1>6. \A d \in Conns :
        /\ DOMAIN proto'[d] = DOMAIN proto[d] /\ proto'[d].uuid = proto[d].uuid
        /\ proto'[d].locks = proto[d].locks
        /\ d # c => proto'[d] = proto[d]
  <2>1. CASE proto' = proto
    BY <2>1
  <2>2. CASE proto' = [proto EXCEPT ![c] = [@ EXCEPT !.life = "gone", !.buf = <<>>]]
    <3>1. proto'[c] = [proto[c] EXCEPT !.life = "gone", !.buf = <<>>]
      BY <1>1, <2>2 DEF ProtoInv, ProtoShape
    <3>2. DOMAIN proto[c] = {"uuid", "life", "locks", "buf", "stop", "close"}
      BY <1>1 DEF ProtoInv, ProtoShape
    <3>3. /\ DOMAIN proto'[c] = DOMAIN proto[c] /\ proto'[c].uuid = proto[c].uuid
          /\ proto'[c].locks = proto[c].locks
      BY <3>1, <3>2
    <3>4. \A d \in Conns : d # c => proto'[d] = proto[d]
      BY <1>1, <2>2 DEF ProtoInv, ProtoShape
    <3> QED
      BY <3>3, <3>4
  <2> QED
    BY <1>2, <2>1, <2>2 DEF OnClose
<1>7. DOMAIN proto' = Conns /\ (proto' = proto \/ proto'[c].life = "gone")
  BY <1>1, <1>2 DEF OnClose, ProtoInv, ProtoShape
<1>8. Ever' = Ever
  <2>1. thread'[t].at # "attach"
    BY <1>4 DEF Idle
  <2>2. proto[c].life # "none" /\ proto'[c].life # "none"
    BY <1>2, <1>7 DEF Closable
  <2> QED
    BY <1>1, <1>4, <1>6, <2>1, <2>2 DEF Ever
<1>9. \A d : Closable(d) /\ (d # c \/ proto' = proto) => Closable(d)'
  BY <1>1, <1>6, <1>8 DEF Closable, Ever
<1>10. QueueInv' /\ \A n \in DOMAIN normal' : \A e : e # c =>
         (normal'[n].kind = "on_close" /\ normal'[n].id = e
           => n \in DOMAIN normal /\ normal'[n] = normal[n])
  <2>1. CASE proto[c].locks # {}
    <3>1. PushNormal(Task("on_close", c, FALSE)) /\ proto' = proto
      BY <1>2, <2>1 DEF OnClose
    <3>2. QueueInv'
      BY <1>1, <1>2, <1>3, <1>9, <3>1, CloseQueued
    <3>3. normal \in Seq(TaskSet)
      BY <1>1 DEF QueueInv
    <3> QED
      BY <3>1, <3>2, <3>3, CloseTask
  <2>2. CASE proto[c].locks = {}
    <3>1. normal' = normal
      BY <1>2, <2>2 DEF OnClose
    <3> QED
      BY <1>1, <1>3, <1>9, <3>1 DEF QueueInv
  <2> QED
    BY <2>1, <2>2
<1>11. /\ \A u \in Threads : ThreadInv(u)'
       /\ \A u, v \in Threads : u # v => Apart(u, v)'
  <2>1. accepted' \in Nat /\ accepted' >= accepted
    BY <1>1 DEF ProtoInv
  <2>2. \A u \in Threads \ {t} : thread[u].at = "on_close" =>
          /\ \A d : d = thread[u].uuid => Closable(d)'
          /\ \A n \in DOMAIN normal' :
               ~(normal'[n].kind = "on_close" /\ normal'[n].id = thread[u].uuid)
    BY <1>5, <1>9, <1>10
  <2>3. Shape(thread'[t]) /\ ~Special(thread'[t]) /\ \A l \in Locks : ~Holds(thread'[t], l)
    BY <1>4, IdleShape
  <2> QED
    BY <1>4, <1>5, <1>6, <2>1, <2>2, <2>3, Freed DEF Special
<1>12. SlotInv' /\ ProtoInv'
  <2>1. slot.protocol # c /\ (slot.protocol # None => slot.protocol \in Conns)
    BY <1>1, <1>2 DEF SlotInv, Closable, Ever
  <2>2. c <= accepted
    BY <1>1, <1>2 DEF Closable, ProtoInv, Conns
  <2>3. SlotInv'
    BY <1>1, <1>6, <1>8, <2>1 DEF SlotInv
  <2>4. ProtoInv'
    <3>1. ProtoShape'
      BY <1>1, <1>6, <1>7 DEF ProtoInv, ProtoShape
    <3>2. \A d \in Conns : d > accepted => d # c
      BY <1>1, <2>2 DEF ProtoInv, Conns
    <3> QED
      BY <1>1, <1>6, <3>1, <3>2 DEF ProtoInv
  <2> QED
    BY <2>3, <2>4
<1>13. Life!OnClose(c) \/ lifeVars' = lifeVars
  <2>1. [d \in Conns |-> proto[d].locks]' = [d \in Conns |-> proto[d].locks]
    BY <1>6
  <2>2. CASE proto[c].locks # {}
    <3>1. proto' = proto
      BY <1>2, <2>2 DEF OnClose
    <3> QED
      BY <1>1, <1>8, <3>1 DEF lifeVars
  <2>3. CASE proto[c].locks = {}
    <3>1. proto'[c].life = "gone"
      BY <1>1, <1>2, <2>3 DEF OnClose, ProtoInv, ProtoShape
    <3>2. {d \in Conns : proto[d].life = "gone"}' = {d \in Conns : proto[d].life = "gone"} \cup {c}
      BY <1>6, <3>1
    <3>3. c \in Ever /\ c \notin {d \in Conns : proto[d].life = "gone"} /\ c # slot.protocol
      BY <1>2 DEF Closable
    <3>4. [d \in Conns |-> proto[d].locks][c] = {}
      BY <2>3
    <3> QED
      BY <1>1, <1>8, <2>1, <3>2, <3>3, <3>4 DEF Life!OnClose, Ever
  <2> QED
    BY <2>2, <2>3
<1> QED
  BY <1>4, <1>10, <1>11, <1>12, <1>13 DEF Lives, Life!Next, Inv

LEMMA TakeLives ==
  ASSUME Inv, NEW t \in Threads, Take(t)
  PROVE  Lives
<1> DEFINE task == IF urgent # <<>> THEN Head(urgent) ELSE Head(normal)
<1>1. /\ DOMAIN thread = Threads /\ thread[t].at = "idle" /\ ~Special(thread[t])
      /\ SlotInv /\ ProtoInv /\ QueueInv
      /\ normal \in Seq(TaskSet) /\ urgent \in Seq(TaskSet)
      /\ UNCHANGED <<slot, proto, accepted>>
  BY DEF Inv, QueueInv, Take, Special, Making
<1>2. urgent = <<>> => normal # <<>>
  <2>1. <<>> \o <<>> = <<>>
    OBVIOUS
  <2> QED
    BY <2>1 DEF Take
<1>3. PICK k \in TaskSet :
        /\ k = task
        /\ \/ /\ k.kind # "on_close" /\ normal' = normal
              /\ urgent # <<>> /\ urgent' = Tail(urgent)
           \/ /\ k = normal[1] /\ 1 \in DOMAIN normal /\ normal # <<>>
              /\ urgent' = urgent /\ normal' = Tail(normal)
  <2>1. CASE urgent # <<>>
    <3>1. Head(urgent) \in TaskSet /\ Head(urgent).kind # "on_close"
      BY <1>1, <2>1, Popped DEF QueueInv
    <3> QED
      BY <2>1, <3>1 DEF Take
  <2>2. CASE urgent = <<>>
    <3>1. Head(normal) \in TaskSet /\ Head(normal) = normal[1] /\ 1 \in DOMAIN normal
      BY <1>1, <1>2, <2>2, Popped
    <3> QED
      BY <1>2, <2>2, <3>1 DEF Take
  <2> QED
    BY <2>1, <2>2
<1> HIDE DEF task
<1>4. /\ thread' = [thread EXCEPT ![t] =
                      IF k.kind = "on_ready"
                      THEN [Idle EXCEPT !.at = "flush", !.target = k.id, !.stack = <<"idle">>]
                      ELSE [Idle EXCEPT !.at = k.kind, !.uuid = k.id, !.force = k.force]]
  BY <1>3 DEF Take, task
<1>5. /\ DOMAIN thread' = Threads /\ \A u \in Threads \ {t} : thread'[u] = thread[u]
      /\ Shape(thread'[t]) /\ \A l \in Locks : ~Holds(thread'[t], l)
      /\ ~Making(thread'[t])
      /\ thread'[t].at = "on_close" => k.kind = "on_close" /\ thread'[t].uuid = k.id
  <2>1. DOMAIN thread' = Threads /\ \A u \in Threads \ {t} : thread'[u] = thread[u]
    BY <1>1, <1>4
  <2>2. CASE k.kind = "on_ready"
    <3>1. thread'[t] = [Idle EXCEPT !.at = "flush", !.target = k.id, !.stack = <<"idle">>]
      BY <1>1, <1>4, <2>2
    <3>2. /\ thread'[t].at = "flush" /\ thread'[t].stack = <<"idle">>
          /\ thread'[t].uuid = 0 /\ thread'[t].target = k.id
          /\ DOMAIN thread'[t] = {"at", "uuid", "target", "pr", "left", "force", "again", "stack"}
      BY <3>1 DEF Idle
    <3>3. <<"idle">> \in SendStacks /\ <<"idle">> \notin TaskStacks
      BY DEF SendStacks, TaskStacks
    <3>4. Shape(thread'[t])
      BY <3>2, <3>3 DEF Shape, SendPlaces, TaskSet
    <3>5. \A l : ~Holds(thread'[t], l)
      BY <3>2, <3>3 DEF Holds, TaskPlaces, WritePlaces, StatePlaces, ClosePlaces
    <3> QED
      BY <2>1, <3>2, <3>4, <3>5 DEF Making
  <2>3. CASE k.kind # "on_ready"
    <3>1. thread'[t] = [Idle EXCEPT !.at = k.kind, !.uuid = k.id, !.force = k.force]
      BY <1>1, <1>4, <2>3
    <3>2. /\ thread'[t].at = k.kind /\ thread'[t].stack = <<>>
          /\ thread'[t].uuid = k.id /\ thread'[t].target = 0
          /\ DOMAIN thread'[t] = {"at", "uuid", "target", "pr", "left", "force", "again", "stack"}
      BY <3>1 DEF Idle
    <3>3. k.kind \in FreePlaces /\ k.id \in Nat /\ k.kind \notin {"open", "name", "attach"}
      BY <2>3 DEF TaskSet, FreePlaces
    <3>4. Shape(thread'[t])
      BY <3>2, <3>3 DEF Shape
    <3>5. \A l : ~Holds(thread'[t], l)
      BY <3>2, <3>3, Free
    <3> QED
      BY <2>1, <3>2, <3>3, <3>4, <3>5 DEF Making
  <2> QED
    BY <2>2, <2>3
<1>6. Ever' = Ever /\ \A d : Closable(d) <=> Closable(d)'
  <2>1. Ever' = Ever
    BY <1>1, <1>5 DEF Ever, Special, Making
  <2> QED
    BY <1>1, <2>1 DEF Closable
<1>7. /\ normal' \in Seq(TaskSet) /\ urgent' \in Seq(TaskSet)
      /\ \A n \in DOMAIN urgent' : urgent'[n].kind # "on_close"
      /\ \A n \in DOMAIN normal' : \E m \in DOMAIN normal : normal'[n] = normal[m]
      /\ \A m, n \in DOMAIN normal' :
           normal'[m].kind = "on_close" /\ normal'[n].kind = "on_close"
             /\ normal'[m].id = normal'[n].id => m = n
      /\ k.kind = "on_close" =>
           /\ Closable(k.id) /\ \E m \in DOMAIN normal : normal[m] = k
           /\ \A n \in DOMAIN normal' : ~(normal'[n].kind = "on_close" /\ normal'[n].id = k.id)
  <2>1. CASE k.kind # "on_close" /\ normal' = normal /\ urgent # <<>> /\ urgent' = Tail(urgent)
    <3>1. /\ Tail(urgent) \in Seq(TaskSet)
          /\ \A n \in DOMAIN Tail(urgent) :
                n + 1 \in DOMAIN urgent /\ Tail(urgent)[n] = urgent[n + 1]
      BY <1>1, <2>1, Popped
    <3> QED
      BY <1>1, <2>1, <3>1 DEF QueueInv
  <2>2. CASE /\ k = normal[1] /\ 1 \in DOMAIN normal /\ normal # <<>>
             /\ urgent' = urgent /\ normal' = Tail(normal)
    <3>1. /\ Tail(normal) \in Seq(TaskSet)
          /\ \A n \in DOMAIN Tail(normal) : /\ n + 1 \in DOMAIN normal /\ n \in Nat \ {0}
                                            /\ Tail(normal)[n] = normal[n + 1]
      BY <1>1, <2>2, Popped
    <3>2. \A m, n \in DOMAIN normal' :
            normal'[m].kind = "on_close" /\ normal'[n].kind = "on_close"
              /\ normal'[m].id = normal'[n].id => m = n
      <4>1. ASSUME NEW m \in DOMAIN normal', NEW n \in DOMAIN normal',
                   normal'[m].kind = "on_close", normal'[n].kind = "on_close",
                   normal'[m].id = normal'[n].id
            PROVE  m = n
        <5>1. m + 1 = n + 1
          BY <1>1, <2>2, <3>1, <4>1 DEF QueueInv
        <5> QED
          BY <2>2, <3>1, <4>1, <5>1
      <4> QED
        BY <4>1
    <3>3. k.kind = "on_close" =>
            \A n \in DOMAIN normal' : ~(normal'[n].kind = "on_close" /\ normal'[n].id = k.id)
      <4>1. ASSUME NEW n \in DOMAIN normal', k.kind = "on_close",
                   normal'[n].kind = "on_close", normal'[n].id = k.id
            PROVE  FALSE
        <5>1. n + 1 = 1
          BY <1>1, <2>2, <3>1, <4>1 DEF QueueInv
        <5> QED
          BY <2>2, <3>1, <4>1, <5>1
      <4> QED
        BY <4>1
    <3> QED
      BY <1>1, <2>2, <3>1, <3>2, <3>3 DEF QueueInv
  <2> QED
    BY <1>3, <2>1, <2>2
<1>8. QueueInv'
  BY <1>1, <1>6, <1>7 DEF QueueInv
<1>9. /\ \A u \in Threads : ThreadInv(u)'
      /\ \A u, v \in Threads : u # v => Apart(u, v)'
  <2>1. accepted' \in Nat /\ accepted' >= accepted
    BY <1>1 DEF ProtoInv
  <2>2. \A u \in Threads \ {t} : thread[u].at = "on_close" =>
          /\ Closable(thread[u].uuid)
          /\ \A n \in DOMAIN normal :
                ~(normal[n].kind = "on_close" /\ normal[n].id = thread[u].uuid)
    BY DEF Inv, ThreadInv
  <2>3. \A u \in Threads \ {t} : thread[u].at = "on_close" =>
          /\ \A d : d = thread[u].uuid => Closable(d)'
          /\ \A n \in DOMAIN normal' :
               ~(normal'[n].kind = "on_close" /\ normal'[n].id = thread[u].uuid)
    BY <1>6, <1>7, <2>2
  <2>4. thread'[t].at = "on_close" =>
          /\ \A d : d = thread'[t].uuid => Closable(d)'
          /\ \A n \in DOMAIN normal' :
               ~(normal'[n].kind = "on_close" /\ normal'[n].id = thread'[t].uuid)
          /\ \A u \in Threads \ {t} :
               thread[u].at = "on_close" => thread[u].uuid # thread'[t].uuid
    BY <1>5, <1>6, <1>7, <2>2
  <2> QED
    BY <1>1, <1>5, <2>1, <2>3, <2>4, Freed
<1>10. SlotInv' /\ ProtoInv'
  BY <1>1, <1>6 DEF SlotInv, ProtoInv, ProtoShape
<1>11. lifeVars' = lifeVars
  BY <1>1, <1>6 DEF lifeVars
<1> QED
  BY <1>5, <1>8, <1>9, <1>10, <1>11 DEF Lives, Inv

(* The clients do not touch the protocol objects.                          *)
LEMMA StillLives ==
  ASSUME Inv, UNCHANGED <<slot, accepted, proto, urgent, normal, thread>>
  PROVE  Lives
<1>1. Ever' = Ever /\ \A d : Closable(d) <=> Closable(d)'
  BY DEF Ever, Closable
<1>2. SlotInv' /\ ProtoInv' /\ QueueInv'
  BY <1>1 DEF Inv, SlotInv, ProtoInv, ProtoShape, QueueInv
<1>3. \A u \in Threads : ThreadInv(u)'
  BY <1>1 DEF Inv, ThreadInv
<1>4. \A u, v \in Threads : u # v => Apart(u, v)'
  BY DEF Inv, Apart
<1>5. lifeVars' = lifeVars
  BY <1>1 DEF lifeVars
<1> QED
  BY <1>2, <1>3, <1>4, <1>5 DEF Lives, Inv

LEMMA NextLives ==
  ASSUME Inv, [Next]_vars
  PROVE  Lives
<1>1. ASSUME NEW c \in Conns, Send(c) \/ HangUp(c) PROVE Lives
  BY <1>1, StillLives DEF Send, HangUp
<1>2. CASE UNCHANGED vars
  BY <1>2, StillLives DEF vars
<1>3. ASSUME NEW t \in Threads, Closing(t) PROVE Lives
  BY <1>3, CloseQuiet, QuietLives, ClearLives, OnCloseLives DEF Closing
<1>4. ASSUME NEW t \in Threads, Sending(t) PROVE Lives
  BY <1>4, SendQuiet, ReadyQuiet, QuietLives, OnReadyUsrLives, UnlockLives DEF Sending
<1>5. ASSUME NEW t \in Threads, Receiving(t) PROVE Lives
  BY <1>5, DataQuiet, ConsumeQuiet, AnswerQuiet, AnsweredQuiet, QuietLives, LockTaskLives,
     UnlockLives DEF Receiving
<1>6. ASSUME NEW t \in Threads, TimingOut(t) PROVE Lives
  BY <1>6, ReviewQuiet, QuietLives, ClearLives, UnlockLives, PingLives DEF TimingOut
<1>7. ASSUME NEW t \in Threads, Step(t) PROVE Lives
  BY <1>3, <1>4, <1>5, <1>6, <1>7, ClearLives, NameLives, AttachLives, PollQuiet, QuietLives,
     TakeLives DEF Step
<1>8. ASSUME NEW t \in Threads, Accept(t) \/ Poll(t) \/ Review(t) PROVE Lives
  BY <1>8, AcceptLives, PollQuiet, QuietLives, ReviewLives
<1> QED
  BY <1>1, <1>2, <1>7, <1>8 DEF Next

LEMMA InitLives ==
  ASSUME Init
  PROVE  Inv /\ Life!Init
<1>1. /\ slot.counter = 0 /\ slot.protocol = None
      /\ DOMAIN slot = {"counter", "open", "closing", "protocol", "packets", "sock_lock",
                        "scheduled", "quiet"}
  BY DEF Init
<1>2. /\ DOMAIN proto = Conns /\ accepted = 0
      /\ \A c \in Conns : /\ DOMAIN proto[c] = {"uuid", "life", "locks", "buf", "stop", "close"}
                          /\ proto[c].uuid = 0 /\ proto[c].life = "none" /\ proto[c].locks = {}
  BY DEF Init
<1>3. /\ DOMAIN thread = Threads /\ \A t \in Threads : thread[t] = Idle
      /\ urgent = <<>> /\ normal = <<>>
  BY DEF Init
<1>4. Ever = {} /\ {c \in Conns : proto[c].life = "gone"} = {}
      /\ [c \in Conns |-> proto[c].locks] = [c \in Conns |-> {}]
  BY <1>2 DEF Ever
<1>5. SlotInv /\ ProtoInv
  BY <1>1, <1>2, <1>4, HttpAssumption DEF SlotInv, ProtoInv, ProtoShape
<1>6. QueueInv
  <2>1. <<>> \in Seq(TaskSet) /\ DOMAIN <<>> = {}
    OBVIOUS
  <2> QED
    BY <1>3, <2>1 DEF QueueInv
<1>7. ~Making(Idle) /\ Idle.at # "on_close"
  BY DEF Making, Idle
<1>8. \A t \in Threads : ThreadInv(t)
  BY <1>3, <1>7, IdleShape DEF ThreadInv
<1>9. \A t, u \in Threads : t # u => Apart(t, u)
  BY <1>3, <1>7, IdleShape DEF Apart
<1>10. Life!Init
  BY <1>1, <1>4 DEF Life!Init, Ever
<1> QED
  BY <1>3, <1>5, <1>6, <1>8, <1>9, <1>10 DEF Inv

(* For any number of threads, connections and events, the protocol objects *)
(* live as ProtocolLife says: callbacks run under their lock and begin     *)
(* only while the descriptor has the object, and on_close (deferred by     *)
(* fio_clear_fd and fio_attach, put off while a lock is held) is called    *)
(* once for each, when no callback of it runs and none can begin any more. *)
THEOREM HttpImplementsLife == Spec => ImplementsLife
<1>1. Init => Inv /\ Life!Init
  BY InitLives
<1>2. Inv /\ [Next]_vars => Inv' /\ [Life!Next]_(Life!lvars)
  <2>1. SUFFICES ASSUME Inv, [Next]_vars PROVE Inv' /\ [Life!Next]_(Life!lvars)
    OBVIOUS
  <2>2. Lives
    BY <2>1, NextLives
  <2>3. lifeVars' = lifeVars => Life!lvars' = Life!lvars
    BY DEF lifeVars, Life!lvars, Ever
  <2> QED
    BY <2>2, <2>3 DEF Lives
<1> QED
  BY <1>1, <1>2, PTL DEF Spec, ImplementsLife, Life!Spec
=============================================================================
