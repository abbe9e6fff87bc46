-------------------------- MODULE HttpOrderProofs ---------------------------
(***************************************************************************)
(* What is written to the clients of a descriptor, for any number of       *)
(* threads, connections and events, until the variable mixed is set: each  *)
(* client gets the answers to its own requests in their order, and few of  *)
(* them wait.                                                              *)
(*                                                                         *)
(* The line of a connection is what was written to it, what waits to be    *)
(* written, what was read and not answered, and what was not read: one     *)
(* request after the other.  Sending makes it longer, a close cuts pieces  *)
(* out of it, and every other step only moves the boundaries.              *)
(***************************************************************************)
EXTENDS HttpConnectionProofs

Item == Conns \X Nat \X BOOLEAN

-----------------------------------------------------------------------------
(* Requests in a sequence.                                                 *)

(* Only requests of c, up to number n, in their order, and without a gap.  *)
Own(c, n, s) ==
  /\ s \in Seq(Item)
  /\ \A i \in 1 .. Len(s) : s[i][1] = c /\ s[i][2] <= n

Rising(s) == \A i, j \in 1 .. Len(s) : i < j => s[i][2] < s[j][2]

Gapless(s) == \A i \in 1 .. Len(s) : s[i][2] = i

(* The beginning of an ordered sequence is ordered.                        *)
LEMMA Beginning ==
  ASSUME NEW s \in Seq(Item), NEW u \in Seq(Item), NEW c, NEW n \in Nat
  PROVE  /\ Own(c, n, s \o u) => Own(c, n, s)
         /\ Rising(s \o u) => Rising(s)
         /\ Gapless(s \o u) => Gapless(s)
<1>1. /\ Len(s) \in Nat /\ Len(u) \in Nat /\ Len(s \o u) = Len(s) + Len(u)
      /\ \A i \in 1 .. Len(s) : (s \o u)[i] = s[i]
  OBVIOUS
<1>2. \A i \in 1 .. Len(s) : i \in 1 .. Len(s \o u)
  BY <1>1
<1> QED
  BY <1>1, <1>2 DEF Own, Rising, Gapless

(* So is what is left when a piece is cut out.                             *)
LEMMA CutOut ==
  ASSUME NEW s \in Seq(Item), NEW m \in Seq(Item), NEW u \in Seq(Item), NEW c, NEW n \in Nat
  PROVE  /\ Own(c, n, (s \o m) \o u) => Own(c, n, s \o u)
         /\ Rising((s \o m) \o u) => Rising(s \o u)
<1> DEFINE x == (s \o m) \o u
           y == s \o u
           at == [i \in 1 .. Len(y) |-> IF i <= Len(s) THEN i ELSE i + Len(m)]
<1>1. /\ Len(s) \in Nat /\ Len(u) \in Nat /\ Len(m) \in Nat
      /\ s \o m \in Seq(Item) /\ y \in Seq(Item) /\ x \in Seq(Item)
      /\ Len(s \o m) = Len(s) + Len(m)
      /\ Len(x) = Len(s) + Len(m) + Len(u) /\ Len(y) = Len(s) + Len(u)
  OBVIOUS
<1>2. ASSUME NEW i \in 1 .. Len(y)
      PROVE  at[i] \in 1 .. Len(x) /\ y[i] = x[at[i]]
  <2>1. CASE i <= Len(s)
    <3>1. i \in 1 .. Len(s) /\ at[i] = i
      BY <2>1, <1>1
    <3>2. y[i] = s[i] /\ (s \o m)[i] = s[i] /\ x[i] = (s \o m)[i]
      BY <3>1, <1>1, ConcatProperties
    <3> QED
      BY <3>1, <3>2, <1>1
  <2>2. CASE ~(i <= Len(s))
    <3>1. at[i] = i + Len(m) /\ i - Len(s) \in 1 .. Len(u) /\ i + Len(m) - Len(s \o m) = i - Len(s)
      BY <2>2, <1>1
    <3>2. y[i] = u[i - Len(s)]
      BY <2>2, <1>1, ConcatProperties
    <3>3. x[i + Len(m)] = u[i + Len(m) - Len(s \o m)]
      BY <2>2, <1>1, ConcatProperties
    <3> QED
      BY <3>1, <3>2, <3>3, <1>1
  <2> QED
    BY <2>1, <2>2
<1>3. \A i, j \in 1 .. Len(y) : i < j => at[i] < at[j]
  BY <1>1
<1> HIDE DEF x, y, at
<1>4. Own(c, n, x) => Own(c, n, y)
  BY <1>1, <1>2 DEF Own
<1>5. Rising(x) => Rising(y)
  BY <1>1, <1>2, <1>3 DEF Rising
<1> QED
  BY <1>4, <1>5 DEF x, y

(* A request moves from the head of a sequence to the end of the one       *)
(* before it.                                                              *)
LEMMA HeadMoves ==
  ASSUME NEW s \in Seq(Item), NEW u \in Seq(Item), u # <<>>
  PROVE  /\ Head(u) \in Item /\ Tail(u) \in Seq(Item) /\ Append(s, Head(u)) \in Seq(Item)
         /\ Append(s, Head(u)) \o Tail(u) = s \o u
<1>1. /\ Len(u) \in Nat \ {0} /\ Len(s) \in Nat
      /\ Head(u) = u[1] /\ u[1] \in Item /\ Tail(u) \in Seq(Item) /\ Len(Tail(u)) = Len(u) - 1
      /\ \A i \in 1 .. Len(u) - 1 : Tail(u)[i] = u[i + 1]
  OBVIOUS
<1> DEFINE a == Append(s, Head(u))
<1>2. /\ a \in Seq(Item) /\ Len(a) = Len(s) + 1 /\ a[Len(s) + 1] = u[1]
      /\ \A i \in 1 .. Len(s) : a[i] = s[i]
  BY <1>1
<1> HIDE DEF a
<1>3. /\ a \o Tail(u) \in Seq(Item) /\ s \o u \in Seq(Item)
      /\ Len(a \o Tail(u)) = Len(s) + Len(u) /\ Len(s \o u) = Len(s) + Len(u)
  BY <1>1, <1>2
<1>4. ASSUME NEW i \in 1 .. Len(s) + Len(u) PROVE (a \o Tail(u))[i] = (s \o u)[i]
  <2>1. CASE i <= Len(s)
    BY <2>1, <1>1, <1>2, ConcatProperties
  <2>2. CASE i = Len(s) + 1
    BY <2>2, <1>1, <1>2, ConcatProperties
  <2>3. CASE i > Len(s) + 1
    <3>1. (a \o Tail(u))[i] = Tail(u)[i - Len(a)]
      <4>1. i \in 1 .. Len(a) + Len(Tail(u)) /\ ~(i <= Len(a))
        BY <2>3, <1>1, <1>2
      <4> QED
        BY <4>1, <1>1, <1>2, ConcatProperties
    <3>2. (s \o u)[i] = u[i - Len(s)]
      BY <2>3, <1>1, <1>2, ConcatProperties
    <3>3. i - Len(a) \in 1 .. Len(u) - 1 /\ i - Len(a) + 1 = i - Len(s)
      BY <2>3, <1>1, <1>2
    <3> QED
      BY <3>1, <3>2, <3>3, <1>1
  <2>4. i <= Len(s) \/ i = Len(s) + 1 \/ i > Len(s) + 1
    BY <1>1
  <2> QED
    BY <2>1, <2>2, <2>3, <2>4
<1>5. a \o Tail(u) = s \o u
  BY <1>3, <1>4, SeqEqual
<1> QED
  BY <1>1, <1>2, <1>5 DEF a

(* The next request of c.                                                  *)
LEMMA OneMore ==
  ASSUME NEW s \in Seq(Item), NEW c \in Conns, NEW n \in Nat, NEW k \in BOOLEAN
  PROVE  /\ Append(s, <<c, n + 1, k>>) \in Seq(Item)
         /\ Len(Append(s, <<c, n + 1, k>>)) = Len(s) + 1
         /\ Own(c, n, s) => Own(c, n + 1, Append(s, <<c, n + 1, k>>))
         /\ Own(c, n, s) /\ Rising(s) => Rising(Append(s, <<c, n + 1, k>>))
         /\ Gapless(s) /\ Len(s) = n => Gapless(Append(s, <<c, n + 1, k>>))
<1> DEFINE x == <<c, n + 1, k>>
           a == Append(s, x)
<1>1. x \in Item /\ x[1] = c /\ x[2] = n + 1
  BY DEF Item
<1> HIDE DEF x
<1>2. /\ a \in Seq(Item) /\ Len(a) = Len(s) + 1 /\ Len(s) \in Nat
      /\ a[Len(s) + 1] = x /\ \A i \in 1 .. Len(s) : a[i] = s[i]
  BY <1>1
<1> HIDE DEF a
<1>3. \A i \in 1 .. Len(s) : s[i][2] \in Nat
  BY DEF Item
<1>4. \A i \in 1 .. Len(a) : i \in 1 .. Len(s) \/ i = Len(s) + 1
  BY <1>2
<1>5. Own(c, n, s) => Own(c, n + 1, a)
  BY <1>1, <1>2, <1>3, <1>4 DEF Own
<1>6. Own(c, n, s) /\ Rising(s) => Rising(a)
  <2> SUFFICES ASSUME Own(c, n, s), Rising(s), NEW i \in 1 .. Len(a), NEW j \in 1 .. Len(a), i < j
               PROVE  a[i][2] < a[j][2]
    BY DEF Rising
  <2>1. i \in 1 .. Len(s)
    BY <1>2
  <2>2. CASE j \in 1 .. Len(s)
    BY <2>1, <2>2, <1>2 DEF Rising
  <2>3. CASE j = Len(s) + 1
    <3>1. s[i][2] <= n /\ s[i][2] \in Nat
      BY <2>1, <1>3 DEF Own
    <3> QED
      BY <2>1, <2>3, <3>1, <1>1, <1>2
  <2> QED
    BY <1>4, <2>2, <2>3
<1>7. Gapless(s) /\ Len(s) = n => Gapless(a)
  BY <1>1, <1>2, <1>4 DEF Gapless
<1> QED
  BY <1>2, <1>5, <1>6, <1>7 DEF a, x

-----------------------------------------------------------------------------
(* The invariant.                                                          *)

(* Where a thread is with the first request of the buffer it works on:     *)
(* about to answer it, or behind that.                                     *)
AnsweredStacks == {<<"answered">>, <<"end", "answered">>, <<"flushed", "answered">>,
                   <<"flushed", "end", "answered">>}
Given(th) ==
  th.at = "answered" \/ (th.at \in SendPlaces \cup ClosePlaces /\ th.stack \in AnsweredStacks)
Stage(th) == IF th.at = "answer" THEN "answer" ELSE IF Given(th) THEN "given" ELSE "other"

(* How many answers it may still give before it looks at fio_pending.      *)
Todo(th) ==
  IF Stage(th) = "answer" THEN th.left ELSE IF Stage(th) = "given" THEN th.left - 1 ELSE 0

(* Which uuids a thread works with; the slot's counter is n.               *)
UuidPlaces == {"on_data", "lock task", "on_ready_usr", "ping", "ready"}
Numbered(th, n) ==
  /\ th.at \in UuidPlaces \/ Holds(th, "task") => th.uuid \in 1 .. n
  /\ th.at \in SendPlaces \cup ClosePlaces => th.target \in 1 .. n
  /\ th.at = "shut" => th.target < n
  /\ th.at \notin {"idle", "open"} => n >= 1
  /\ th.left \in Nat /\ (Stage(th) # "other" => th.left >= 1)
  /\ th.stack # <<"answer">>

Tasked(n) ==
  /\ \A i \in DOMAIN urgent : urgent[i].id \in 1 .. n
  /\ \A i \in DOMAIN normal : normal[i].kind # "on_close" => normal[i].id \in 1 .. n

(* No uuid is of a connection to come.                                     *)
Numbers ==
  /\ \A c \in Conns : IF proto[c].life = "none" THEN proto[c].uuid = 0
                      ELSE proto[c].uuid \in 1 .. slot.counter
  /\ Tasked(slot.counter)
  /\ \A t \in Threads : Numbered(thread[t], slot.counter)
  /\ armed # {} => slot.counter >= 1

Requested ==
  /\ slot.packets \in Seq(Item)
  /\ DOMAIN inbox = Conns /\ DOMAIN outbox = Conns /\ DOMAIN asked = Conns
  /\ \A c \in Conns : /\ proto[c].buf \in Seq(Item)
                      /\ inbox[c] \in Seq(Item) /\ outbox[c] \in Seq(Item)
                      /\ asked[c] \in Nat
  /\ sock \in Conns \cup {None}
  /\ strays \in Nat /\ mixed \in BOOLEAN

(* The descriptor's object is the one of its uuid, and answers wait only   *)
(* for it.                                                                 *)
Attached ==
  /\ slot.protocol # None => proto[slot.protocol].uuid = slot.counter
  /\ \A c \in Ever : proto[c].uuid = slot.counter => slot.protocol # None
  /\ slot.packets # <<>> => slot.protocol # None
  /\ \A t \in Threads :
       /\ \A l \in Locks : Holds(thread[t], l) => thread[t].pr \in Ever
       /\ Stage(thread[t]) # "other" => proto[thread[t].pr].buf # <<>>

(* The socket is the one of the connection with a valid uuid, or of the    *)
(* one that is about to get it.                                            *)
OneSocket ==
  /\ \A c \in Conns : proto[c].life # "none" /\ proto[c].uuid = slot.counter =>
       sock = c /\ (c \in Ever => slot.protocol = c)
  /\ \A t \in Threads : thread[t].at \in {"open", "name"} => sock = thread[t].pr

Waiting(c) == IF c = slot.protocol THEN slot.packets ELSE <<>>
Gave(c) == \E t \in Threads : Given(thread[t]) /\ thread[t].pr = c
Unanswered(c) == IF Gave(c) THEN Tail(proto[c].buf) ELSE proto[c].buf
Line(c) == ((outbox[c] \o Waiting(c)) \o Unanswered(c)) \o inbox[c]

Good(c, s) == Own(c, asked[c], s) /\ Rising(s) /\ (c \in dropped \/ Gapless(s))

(* A connection that has its object, or did not get it yet.                *)
Alive(c) == c = slot.protocol \/ c \notin Ever
LineOk(c) ==
  IF Alive(c) THEN Good(c, Line(c)) /\ (c \in dropped \/ Len(Line(c)) = asked[c])
  ELSE Good(c, outbox[c])

Limit == MaxPending + Pipeline * (1 + strays)
Bounded ==
  /\ Len(slot.packets) <= Limit
  /\ \A t \in Threads : thread[t].pr = slot.protocol =>
       Len(slot.packets) + Todo(thread[t]) <= Limit

Plain == Numbers /\ Requested /\ Attached
Ordered == OneSocket /\ (\A c \in Conns : LineOk(c)) /\ Bounded
Order == Plain /\ (mixed \/ Ordered)

-----------------------------------------------------------------------------
(* What most steps keep.                                                   *)

(* A lock that a thread takes is one of the descriptor's object.           *)
LocksKept(t) ==
  \A l \in Locks : Holds(thread'[t], l) =>
    \/ Holds(thread[t], l) /\ thread'[t].pr = thread[t].pr
    \/ slot.protocol # None /\ thread'[t].pr = slot.protocol

Kept(t) ==
  /\ slot'.counter = slot.counter /\ slot'.protocol = slot.protocol
  /\ \A c \in Conns : /\ proto'[c].uuid = proto[c].uuid
                      /\ proto'[c].life = "none" <=> proto[c].life = "none"
  /\ \A u \in Threads \ {t} : thread'[u] = thread[u]
  /\ ~Making(thread[t]) /\ ~Making(thread'[t])
  /\ Numbered(thread'[t], slot.counter)
  /\ Tasked(slot.counter)'
  /\ armed' # {} => slot.counter >= 1
  /\ LocksKept(t)
  /\ mixed => mixed'

LEMMA KeptEver ==
  ASSUME NEW t \in Threads, Kept(t)
  PROVE  Ever' = Ever /\ \A c : Alive(c)' <=> Alive(c)
<1>1. Ever' = Ever
  BY DEF Kept, Ever, Making
<1> QED
  BY <1>1 DEF Alive, Kept

LEMMA KeptOrder ==
  ASSUME Inv, Order, NEW t \in Threads, Kept(t), Requested',
         slot'.packets # <<>> => slot.protocol # None,
         \A u \in Threads : Stage(thread'[u]) # "other" => proto'[thread'[u].pr].buf # <<>>,
         Ordered /\ ~mixed' =>
           (UNCHANGED sock \/ OneSocket') /\ (\A c \in Conns : LineOk(c)') /\ Bounded'
  PROVE  Order'
<1>1. Ever' = Ever
  BY KeptEver
<1>2. Numbers'
  <2>1. \A u \in Threads : Numbered(thread'[u], slot.counter)
    BY DEF Kept, Order, Plain, Numbers
  <2>2. slot'.counter = slot.counter
    BY DEF Kept
  <2>3. \A u \in Threads : Numbered(thread[u], slot.counter)'
    BY <2>1, <2>2
  <2> QED
    BY <2>2, <2>3 DEF Kept, Order, Plain, Numbers
<1>3. Attached'
  <2>1. /\ slot.protocol # None => slot.protocol \in Ever
        /\ Ever \subseteq Conns
    BY DEF Inv, SlotInv, Ever
  <2>2. ASSUME NEW u \in Threads, NEW l \in Locks, Holds(thread'[u], l)
        PROVE  thread'[u].pr \in Ever
    BY <2>1, <2>2 DEF Kept, LocksKept, Order, Plain, Attached
  <2> QED
    BY <1>1, <2>1, <2>2 DEF Attached, Order, Plain, Kept
<1>4. ASSUME Ordered, UNCHANGED sock PROVE OneSocket'
  <2>1. \A u \in Threads : thread'[u].at \in {"open", "name"} => thread'[u] = thread[u]
    BY DEF Kept, Making
  <2> QED
    BY <1>1, <1>4, <2>1 DEF OneSocket, Ordered, Kept
<1> QED
  BY <1>2, <1>3, <1>4 DEF Order, Plain, Ordered, Kept

(* A thread that works on a request holds the lock of on_data of its       *)
(* object, and is alone in that.                                           *)
LEMMA Working ==
  ASSUME Inv, Order, NEW t \in Threads, Stage(thread[t]) # "other" \/ Holds(thread[t], "task")
  PROVE  /\ Holds(thread[t], "task") /\ thread[t].pr \in Ever /\ thread[t].pr \in Conns
         /\ \A u \in Threads \ {t} : thread[u].pr = thread[t].pr => Stage(thread[u]) = "other"
<1>1. \A u \in Threads : Stage(thread[u]) # "other" => Holds(thread[u], "task")
  BY DEF Stage, Given, Holds, TaskPlaces, AnsweredStacks, TaskStacks
<1>2. "task" \in Locks
  BY DEF Locks
<1>3. thread[t].pr \in Ever /\ thread[t].pr \in Conns
  BY <1>1, <1>2 DEF Order, Plain, Attached, Ever
<1> QED
  BY <1>1, <1>2, <1>3 DEF Inv, Apart

LEMMA GivenStage ==
  ASSUME NEW th
  PROVE  Given(th) <=> Stage(th) = "given"
BY DEF Stage, Given, SendPlaces, ClosePlaces

(* The pieces of a line.                                                   *)
LEMMA LineTyped ==
  ASSUME Inv, Order, NEW c \in Conns
  PROVE  /\ outbox[c] \in Seq(Item) /\ inbox[c] \in Seq(Item) /\ proto[c].buf \in Seq(Item)
         /\ Waiting(c) \in Seq(Item) /\ Unanswered(c) \in Seq(Item)
         /\ asked[c] \in Nat
<1>1. /\ outbox[c] \in Seq(Item) /\ inbox[c] \in Seq(Item) /\ proto[c].buf \in Seq(Item)
      /\ slot.packets \in Seq(Item) /\ asked[c] \in Nat
  BY DEF Order, Plain, Requested
<1>2. Waiting(c) \in Seq(Item)
  BY <1>1 DEF Waiting
<1>3. Unanswered(c) \in Seq(Item)
  <2>1. CASE Gave(c)
    <3>1. PICK t \in Threads : Stage(thread[t]) = "given" /\ thread[t].pr = c
      BY <2>1, GivenStage DEF Gave
    <3>2. proto[c].buf # <<>>
      BY <3>1 DEF Order, Plain, Attached
    <3> QED
      BY <1>1, <2>1, <3>2 DEF Unanswered
  <2>2. CASE ~Gave(c)
    BY <1>1, <2>2 DEF Unanswered
  <2> QED
    BY <2>1, <2>2
<1> QED
  BY <1>1, <1>2, <1>3

(* A line that stays the same.                                             *)
LEMMA SameLine ==
  ASSUME Ordered, NEW c \in Conns, Alive(c)' <=> Alive(c),
         asked'[c] = asked[c], c \in dropped => c \in dropped',
         Alive(c) => Line(c)' = Line(c), outbox'[c] = outbox[c] \/ Alive(c)
  PROVE  LineOk(c)'
BY DEF Ordered, LineOk, Good

-----------------------------------------------------------------------------
(* Steps that no line is concerned with.                                   *)

SameLines ==
  /\ slot'.counter = slot.counter /\ slot'.protocol = slot.protocol
  /\ slot'.packets = slot.packets
  /\ \A c \in Conns : /\ proto'[c].uuid = proto[c].uuid /\ proto'[c].life = proto[c].life
                      /\ proto'[c].buf = proto[c].buf
  /\ UNCHANGED <<inbox, asked, outbox, dropped, strays>>
  /\ mixed' \in BOOLEAN /\ (mixed => mixed')

SameData == SameLines /\ UNCHANGED sock

(* A thread stays where it is with a request.                              *)
SameStage(t) ==
  /\ Stage(thread'[t]) = Stage(thread[t])
  /\ Stage(thread[t]) # "other" =>
       thread'[t].pr = thread[t].pr /\ thread'[t].left = thread[t].left
  /\ Numbered(thread'[t], slot.counter)

Onward(t) ==
  /\ \A u \in Threads \ {t} : thread'[u] = thread[u]
  /\ ~Making(thread[t]) /\ ~Making(thread'[t])
  /\ SameStage(t)
  /\ LocksKept(t)

Still(t) ==
  /\ SameData /\ Onward(t)
  /\ Tasked(slot.counter)'
  /\ armed' # {} => slot.counter >= 1

LEMMA SameGave ==
  ASSUME NEW t \in Threads, SameStage(t),
         \A u \in Threads \ {t} : thread'[u] = thread[u], NEW c
  PROVE  Gave(c)' <=> Gave(c)
<1>1. \A u \in Threads : Given(thread'[u]) /\ thread'[u].pr = c
                         <=> Given(thread[u]) /\ thread[u].pr = c
  BY GivenStage DEF SameStage
<1> QED
  BY <1>1 DEF Gave

LEMMA SameTodo ==
  ASSUME Inv, Order, Ordered, NEW t \in Threads, SameStage(t),
         \A u \in Threads \ {t} : thread'[u] = thread[u],
         slot'.protocol = slot.protocol
  PROVE  \A u \in Threads : thread'[u].pr = slot'.protocol =>
           Todo(thread'[u]) \in Nat /\ Len(slot.packets) + Todo(thread'[u]) <= Limit
<1> SUFFICES ASSUME NEW u \in Threads, thread'[u].pr = slot.protocol
             PROVE  Todo(thread'[u]) \in Nat /\ Len(slot.packets) + Todo(thread'[u]) <= Limit
  OBVIOUS
<1>1. Numbered(thread'[u], slot.counter)
  BY DEF SameStage, Order, Plain, Numbers
<1>2. Todo(thread'[u]) \in Nat
  BY <1>1 DEF Todo, Numbered
<1>3. CASE Stage(thread'[u]) = "other"
  <2>1. Todo(thread'[u]) = 0
    BY <1>3 DEF Todo
  <2>2. Len(slot.packets) \in Nat
    BY DEF Order, Plain, Requested
  <2> QED
    BY <2>1, <2>2 DEF Ordered, Bounded
<1>4. CASE Stage(thread'[u]) # "other"
  <2>1. thread'[u].pr = thread[u].pr /\ Todo(thread'[u]) = Todo(thread[u])
    BY <1>4 DEF SameStage, Todo
  <2> QED
    BY <1>2, <2>1 DEF Ordered, Bounded
<1> QED
  BY <1>3, <1>4

LEMMA StillLines ==
  ASSUME Inv, Order, Ordered, NEW t \in Threads, SameLines, Onward(t), Ever' = Ever
  PROVE  (\A c \in Conns : LineOk(c)') /\ Bounded'
<1>1. ASSUME NEW c \in Conns PROVE LineOk(c)'
  <2>1. Gave(c)' <=> Gave(c)
    BY SameGave DEF Onward
  <2>2. Unanswered(c)' = Unanswered(c) /\ Waiting(c)' = Waiting(c)
    BY <2>1 DEF Unanswered, Waiting, SameLines
  <2>3. Line(c)' = Line(c)
    BY <2>2 DEF Line, SameLines
  <2>4. Alive(c)' <=> Alive(c)
    BY DEF Alive, SameLines
  <2> QED
    BY <2>3, <2>4, SameLine DEF SameLines
<1>2. Bounded'
  <2>1. \A u \in Threads : thread'[u].pr = slot'.protocol =>
           Len(slot.packets) + Todo(thread'[u]) <= Limit
    BY SameTodo DEF Onward, SameLines
  <2> QED
    BY <2>1 DEF Ordered, Bounded, Limit, SameLines
<1> QED
  BY <1>1, <1>2

LEMMA StillKept ==
  ASSUME Inv, Order, NEW t \in Threads, SameLines, Onward(t), Tasked(slot.counter)',
         armed' # {} => slot.counter >= 1, sock' \in Conns \cup {None}
  PROVE  /\ Kept(t) /\ Requested'
         /\ \A u \in Threads : Stage(thread'[u]) # "other" => proto'[thread'[u].pr].buf # <<>>
<1>1. Kept(t)
  BY DEF Kept, SameLines, Onward, SameStage
<1>2. Requested'
  BY DEF SameLines, Order, Plain, Requested
<1>3. ASSUME NEW u \in Threads, Stage(thread'[u]) # "other"
      PROVE  proto'[thread'[u].pr].buf # <<>>
  <2>1. Stage(thread[u]) # "other" /\ thread'[u].pr = thread[u].pr
    BY <1>3 DEF Onward, SameStage
  <2>2. thread[u].pr \in Conns
    BY <2>1, Working
  <2> QED
    BY <2>1, <2>2 DEF SameLines, Order, Plain, Attached
<1> QED
  BY <1>1, <1>2, <1>3

LEMMA StillOrder ==
  ASSUME Inv, Order, NEW t \in Threads, Still(t)
  PROVE  Order'
<1>1. /\ Kept(t) /\ Requested'
      /\ \A u \in Threads : Stage(thread'[u]) # "other" => proto'[thread'[u].pr].buf # <<>>
  <2>1. sock' \in Conns \cup {None}
    BY DEF Still, SameData, Order, Plain, Requested
  <2> QED
    BY <2>1, StillKept DEF Still, SameData
<1>2. Ever' = Ever
  BY <1>1, KeptEver
<1>3. Ordered => (\A c \in Conns : LineOk(c)') /\ Bounded'
  BY <1>2, StillLines DEF Still, SameData
<1>4. UNCHANGED sock /\ (slot'.packets # <<>> => slot.protocol # None)
  BY DEF Still, SameData, SameLines, Order, Plain, Attached
<1> QED
  BY <1>1, <1>3, <1>4, KeptOrder

-----------------------------------------------------------------------------
(* The ways a thread goes on.                                              *)

LEMMA QuietOnward ==
  ASSUME Inv, NEW t \in Threads, Quiet(t), SameStage(t)
  PROVE  Onward(t)
BY DEF Quiet, QuietThreads, CalmThreads, Special, Onward, LocksKept

LEMMA ThreadFacts ==
  ASSUME Inv, Order, NEW t \in Threads
  PROVE  /\ DOMAIN thread = Threads /\ Shape(thread[t])
         /\ Numbered(thread[t], slot.counter) /\ slot.counter \in Nat
BY DEF Inv, ThreadInv, SlotInv, Order, Plain, Numbers

(* It moves to another place of its kind.                                  *)
Alike(a, b) ==
  \/ a \in SendPlaces \cup ClosePlaces /\ b \in (SendPlaces \cup ClosePlaces) \ {"shut"}
  \/ /\ a \in TaskPlaces \ {"answer", "answered"}
     /\ b \in TaskPlaces \ {"answer", "answered"}
  \/ a \in WritePlaces /\ b = "unlock write"
  \/ a \in StatePlaces /\ b \in StatePlaces
  \/ a = "on_data" /\ b = "lock task"

LEMMA WentSame ==
  ASSUME Inv, Order, NEW t \in Threads, NEW place, Alike(thread[t].at, place),
         DOMAIN thread' = Threads,
         thread'[t].at = place, thread'[t].stack = thread[t].stack,
         thread'[t].pr = thread[t].pr, thread'[t].uuid = thread[t].uuid,
         thread'[t].target = thread[t].target, thread'[t].left = thread[t].left
  PROVE  SameStage(t)
<1>1. Shape(thread[t]) /\ Numbered(thread[t], slot.counter)
  BY ThreadFacts
<1>2. Stage(thread'[t]) = Stage(thread[t])
  BY <1>1, ShapeOf DEF Alike, Stage, Given, TaskPlaces, WritePlaces, StatePlaces, SendPlaces,
     ClosePlaces
<1>3. Holds(thread'[t], "task") => Holds(thread[t], "task")
  BY DEF Alike, Holds, TaskPlaces, WritePlaces, StatePlaces, SendPlaces, ClosePlaces
<1>4. Numbered(thread'[t], slot.counter)
  BY <1>1, <1>2, <1>3 DEF Alike, Numbered, UuidPlaces, TaskPlaces, WritePlaces, StatePlaces,
     SendPlaces, ClosePlaces
<1> QED
  BY <1>2, <1>4 DEF SameStage

LEMMA GotoSame ==
  ASSUME Inv, Order, NEW t \in Threads, NEW place, Alike(thread[t].at, place), Goto(t, place)
  PROVE  SameStage(t)
<1>1. DOMAIN thread = Threads /\ Shape(thread[t])
  BY ThreadFacts
<1>2. /\ thread'[t].at = place /\ thread'[t].stack = thread[t].stack
      /\ thread'[t].pr = thread[t].pr /\ thread'[t].uuid = thread[t].uuid
      /\ thread'[t].target = thread[t].target /\ thread'[t].left = thread[t].left
      /\ DOMAIN thread' = Threads
  BY <1>1 DEF Goto, Shape
<1> QED
  BY <1>2, WentSame

(* It is done.                                                             *)
LEMMA IdleNumbered ==
  ASSUME NEW n \in Nat
  PROVE  Stage(Idle) = "other" /\ Numbered(Idle, n)
<1>1. /\ Idle.at = "idle" /\ Idle.stack = <<>> /\ Idle.left = 0
      /\ <<>> # <<"answer">>
  BY DEF Idle
<1>2. Stage(Idle) = "other" /\ ~Holds(Idle, "task")
  BY <1>1 DEF Stage, Given, Holds, SendPlaces, ClosePlaces, TaskPlaces
<1> QED
  BY <1>1, <1>2 DEF Numbered, UuidPlaces, SendPlaces, ClosePlaces

LEMMA RestSame ==
  ASSUME Inv, Order, NEW t \in Threads, Rest(t), Stage(thread[t]) = "other"
  PROVE  SameStage(t)
<1>1. thread'[t] = Idle /\ slot.counter \in Nat
  BY ThreadFacts DEF Rest
<1> QED
  BY <1>1, IdleNumbered DEF SameStage

(* It calls fio_close or fio_flush from a place that has no stack.         *)
LEMMA CallSame ==
  ASSUME Inv, Order, NEW t \in Threads, NEW place \in {"flush", "close"},
         NEW uuid \in 1 .. slot.counter, NEW back \in {"idle", "consume"},
         Call(t, place, uuid, back), Stage(thread[t]) = "other", thread[t].stack = <<>>,
         back = "consume" => Holds(thread[t], "task")
  PROVE  SameStage(t)
<1>1. DOMAIN thread = Threads /\ Shape(thread[t]) /\ Numbered(thread[t], slot.counter)
      /\ slot.counter \in Nat
  BY ThreadFacts
<1>2. /\ thread'[t].at = place /\ thread'[t].stack = <<back>>
      /\ thread'[t].uuid = thread[t].uuid
      /\ thread'[t].target = uuid /\ thread'[t].left = thread[t].left
  BY <1>1 DEF Call, Shape
<1>3. <<back>> \notin AnsweredStacks /\ <<back>> # <<"answer">>
      /\ (<<back>> \in TaskStacks => back = "consume")
  BY DEF AnsweredStacks, TaskStacks
<1>4. Stage(thread'[t]) = "other"
  BY <1>2, <1>3 DEF Stage, Given, SendPlaces, ClosePlaces
<1>5. Holds(thread'[t], "task") => Holds(thread[t], "task")
  BY <1>2, <1>3 DEF Holds, SendPlaces, ClosePlaces, TaskPlaces
<1>6. Numbered(thread'[t], slot.counter)
  <2>1. slot.counter >= 1 /\ uuid \in 1 .. slot.counter
    BY <1>1
  <2>2. thread'[t].at \notin UuidPlaces /\ thread'[t].at # "shut"
    BY <1>2 DEF UuidPlaces
  <2>3. Holds(thread'[t], "task") => thread'[t].uuid \in 1 .. slot.counter
    BY <1>1, <1>2, <1>5 DEF Numbered
  <2> QED
    BY <1>1, <1>2, <1>3, <1>4, <2>1, <2>2, <2>3 DEF Numbered
<1> QED
  BY <1>4, <1>6 DEF SameStage

(* Its flush closes the connection.                                        *)
LEMMA FlushClosesSame ==
  ASSUME Inv, Order, NEW t \in Threads, thread[t].at \in SendPlaces,
         thread' = [thread EXCEPT ![t].at = "close", ![t].again = FALSE,
                                  ![t].stack = <<"flushed">> \o @]
  PROVE  SameStage(t)
<1>1. DOMAIN thread = Threads /\ Shape(thread[t]) /\ Numbered(thread[t], slot.counter)
  BY ThreadFacts
<1>2. thread[t].stack \in SendStacks
  BY <1>1, ShapeOf
<1>3. /\ thread'[t].at = "close" /\ thread'[t].stack = <<"flushed">> \o thread[t].stack
      /\ thread'[t].pr = thread[t].pr /\ thread'[t].uuid = thread[t].uuid
      /\ thread'[t].target = thread[t].target /\ thread'[t].left = thread[t].left
  BY <1>1 DEF Shape
<1>4. /\ thread'[t].stack \in AnsweredStacks <=> thread[t].stack \in AnsweredStacks
      /\ thread'[t].stack \in TaskStacks => thread[t].stack \in TaskStacks
      /\ thread'[t].stack # <<"answer">>
  <2>1. CASE thread[t].stack = <<"idle">>
    <3>1. thread'[t].stack = <<"flushed", "idle">>
      BY <1>3, <2>1, Pushed1
    <3>2. /\ <<"flushed", "idle">> \notin AnsweredStacks \cup TaskStacks
          /\ <<"idle">> \notin AnsweredStacks /\ <<"flushed", "idle">> # <<"answer">>
      BY DEF AnsweredStacks, TaskStacks
    <3> QED
      BY <2>1, <3>1, <3>2
  <2>2. CASE thread[t].stack = <<"answered">>
    <3>1. thread'[t].stack = <<"flushed", "answered">>
      BY <1>3, <2>2, Pushed1
    <3>2. <<"flushed", "answered">> # <<"answer">>
      OBVIOUS
    <3> QED
      BY <2>2, <3>1, <3>2 DEF AnsweredStacks, TaskStacks
  <2>3. CASE thread[t].stack = <<"end", "answered">>
    <3>1. thread'[t].stack = <<"flushed", "end", "answered">>
      BY <1>3, <2>3, Pushed2
    <3>2. <<"flushed", "end", "answered">> # <<"answer">>
      OBVIOUS
    <3> QED
      BY <2>3, <3>1, <3>2 DEF AnsweredStacks, TaskStacks
  <2> QED
    BY <1>2, <2>1, <2>2, <2>3 DEF SendStacks
<1>5. Stage(thread'[t]) = Stage(thread[t])
  BY <1>3, <1>4 DEF Stage, Given, SendPlaces, ClosePlaces
<1>6. Holds(thread'[t], "task") => Holds(thread[t], "task")
  BY <1>3, <1>4 DEF Holds, SendPlaces, ClosePlaces, TaskPlaces
<1>7. Numbered(thread'[t], slot.counter)
  BY <1>1, <1>3, <1>4, <1>5, <1>6 DEF Numbered, UuidPlaces, SendPlaces, ClosePlaces
<1> QED
  BY <1>3, <1>5, <1>7 DEF SameStage

(* What a function returns to.                                             *)
LEMMA TopsSame ==
  ASSUME NEW s \in SendStacks \cup CloseStacks, s # <<"idle">>, s # <<"answer">>
  PROVE  /\ s \in AnsweredStacks <=> \/ Head(s) = "answered"
                                     \/ Head(s) \in {"end", "flushed"} /\ Tail(s) \in AnsweredStacks
         /\ Head(s) \in (TaskPlaces \ {"answer"}) \cup {"unlock write", "end", "flushed"}
         /\ Tail(s) # <<"answer">>
<1>1. CASE s \in {<<"consume">>, <<"force">>, <<"unlock task">>, <<"unlock write">>}
  <2>1. PICK a \in {"consume", "force", "unlock task", "unlock write"} : s = <<a>>
    BY <1>1
  <2>2. Head(s) = a /\ Tail(s) = <<>> /\ <<>> # <<"answer">>
    BY <2>1, Single
  <2>3. s \notin AnsweredStacks
    <3>1. /\ <<a>> # <<"answered">> /\ <<a>> # <<"end", "answered">>
          /\ <<a>> # <<"flushed", "answered">> /\ <<a>> # <<"flushed", "end", "answered">>
      OBVIOUS
    <3> QED
      BY <2>1, <3>1 DEF AnsweredStacks
  <2> QED
    BY <2>1, <2>2, <2>3 DEF TaskPlaces
<1>2. CASE s = <<"answered">>
  <2>1. Head(s) = "answered" /\ Tail(s) = <<>> /\ <<>> # <<"answer">>
    BY <1>2, Single
  <2> QED
    BY <1>2, <2>1 DEF AnsweredStacks, TaskPlaces
<1>3. CASE s \in {<<"end", "answered">>, <<"flushed", "answered">>}
  <2>1. Head(s) \in {"end", "flushed"} /\ Tail(s) = <<"answered">>
    <3>1. CASE s = <<"end", "answered">>
      BY <3>1
    <3>2. CASE s = <<"flushed", "answered">>
      BY <3>2
    <3> QED
      BY <1>3, <3>1, <3>2
  <2>2. <<"answered">> # <<"answer">>
    OBVIOUS
  <2> QED
    BY <1>3, <2>1, <2>2 DEF AnsweredStacks
<1>4. CASE s = <<"flushed", "idle">>
  <2>1. Head(s) = "flushed" /\ Tail(s) = <<"idle">> /\ <<"idle">> # <<"answer">>
    BY <1>4
  <2>2. <<"idle">> \notin AnsweredStacks /\ s \notin AnsweredStacks
    BY <1>4 DEF AnsweredStacks
  <2> QED
    BY <2>1, <2>2
<1>5. CASE s = <<"flushed", "end", "answered">>
  <2>1. Head(s) = "flushed" /\ Tail(s) = <<"end", "answered">> /\ <<"end", "answered">> # <<"answer">>
    BY <1>5
  <2> QED
    BY <1>5, <2>1 DEF AnsweredStacks
<1> QED
  BY <1>1, <1>2, <1>3, <1>4, <1>5, Zenon DEF SendStacks, CloseStacks, TaskStacks

LEMMA ReturnSame ==
  ASSUME Inv, Order, NEW t \in Threads, Return(t), thread[t].at \in SendPlaces \cup ClosePlaces
  PROVE  SameStage(t)
<1> DEFINE s == thread[t].stack
<1>1. DOMAIN thread = Threads /\ Shape(thread[t]) /\ Numbered(thread[t], slot.counter)
  BY ThreadFacts
<1>2. s \in SendStacks \cup CloseStacks /\ s # <<"answer">>
  BY <1>1, ShapeOf DEF Numbered
<1>3. thread[t].at # "answer" /\ thread[t].at # "answered"
  BY DEF SendPlaces, ClosePlaces
<1>4. CASE s = <<"idle">>
  <2>1. Head(s) = "idle" /\ s \notin AnsweredStacks
    BY <1>4 DEF AnsweredStacks
  <2>2. Rest(t) /\ Stage(thread[t]) = "other"
    BY <1>3, <2>1 DEF Return, Stage, Given
  <2> QED
    BY <2>2, RestSame
<1>5. CASE s # <<"idle">>
  <2>1. Head(s) # "idle"
    BY <1>2, <1>5, Tops
  <2>2. thread' = [thread EXCEPT ![t].at = Head(s),
                                 ![t].target = IF Head(s) \in {"flushed", "end"} THEN @ ELSE 0,
                                 ![t].again = FALSE,
                                 ![t].stack = Tail(@)]
    BY <2>1 DEF Return
  <2>3. /\ thread'[t].at = Head(s) /\ thread'[t].stack = Tail(s)
        /\ thread'[t].pr = thread[t].pr /\ thread'[t].uuid = thread[t].uuid
        /\ Head(s) \in {"flushed", "end"} => thread'[t].target = thread[t].target
        /\ thread'[t].left = thread[t].left
    BY <1>1, <2>2 DEF Shape
  <2>4. Holds(thread'[t], "task") => Holds(thread[t], "task")
    BY <1>2, <1>5, <2>3, Tops, Returned DEF QuietThreads, Locks
  <2>5. Stage(thread[t]) = IF s \in AnsweredStacks THEN "given" ELSE "other"
    BY <1>3 DEF Stage, Given
  <2> HIDE DEF s
  <2>6. /\ s \in AnsweredStacks <=> \/ Head(s) = "answered"
                                    \/ Head(s) \in {"end", "flushed"} /\ Tail(s) \in AnsweredStacks
        /\ Head(s) \in (TaskPlaces \ {"answer"}) \cup {"unlock write", "end", "flushed"}
        /\ Tail(s) # <<"answer">>
    BY <1>2, <1>5, TopsSame
  <2>7. Stage(thread'[t]) = IF s \in AnsweredStacks THEN "given" ELSE "other"
    BY <2>3, <2>6 DEF Stage, Given, TaskPlaces, SendPlaces, ClosePlaces
  <2>8. Numbered(thread'[t], slot.counter)
    BY <1>1, <2>3, <2>4, <2>5, <2>6, <2>7 DEF Numbered, UuidPlaces, TaskPlaces, SendPlaces,
       ClosePlaces
  <2> QED
    BY <2>3, <2>5, <2>7, <2>8 DEF SameStage
<1> QED
  BY <1>4, <1>5

(* The tasks that are pushed.                                              *)
LEMMA TasksKept ==
  ASSUME Order, UNCHANGED <<normal, urgent>>, slot'.counter = slot.counter
  PROVE  Tasked(slot.counter)'
BY DEF Order, Plain, Numbers, Tasked

LEMMA TaskPushed ==
  ASSUME Inv, Order, slot'.counter = slot.counter,
         NEW kind \in {"on_data", "on_ready", "on_ready_usr", "on_close", "ping"}, NEW id \in Nat,
         NEW force \in BOOLEAN, kind = "on_close" \/ id \in 1 .. slot.counter,
         \/ PushNormal(Task(kind, id, force)) /\ UNCHANGED urgent
         \/ PushUrgent(Task(kind, id, force)) /\ UNCHANGED normal /\ kind # "on_close"
  PROVE  Tasked(slot.counter)'
<1> DEFINE k == Task(kind, id, force)
<1>1. k \in TaskSet /\ k.kind = kind /\ k.id = id
  BY DEF Task, TaskSet
<1>2. normal \in Seq(TaskSet) /\ urgent \in Seq(TaskSet) /\ Tasked(slot.counter)
  BY DEF Inv, QueueInv, Order, Plain, Numbers
<1> HIDE DEF k
<1>3. CASE PushNormal(k) /\ UNCHANGED urgent
  <2>1. normal' = Append(normal, k)
    BY <1>3 DEF PushNormal
  <2>2. \A i \in DOMAIN normal' :
          (i \in DOMAIN normal /\ normal'[i] = normal[i]) \/ normal'[i] = k
    BY <1>1, <1>2, <2>1, Appended
  <2> QED
    BY <1>1, <1>2, <1>3, <2>2 DEF Tasked
<1>4. CASE PushUrgent(k) /\ UNCHANGED normal /\ kind # "on_close"
  <2>1. urgent' = Append(urgent, k)
    BY <1>4 DEF PushUrgent
  <2>2. \A i \in DOMAIN urgent' :
          (i \in DOMAIN urgent /\ urgent'[i] = urgent[i]) \/ urgent'[i] = k
    BY <1>1, <1>2, <2>1, Appended
  <2> QED
    BY <1>1, <1>2, <1>4, <2>2 DEF Tasked
<1> QED
  BY <1>3, <1>4 DEF k

-----------------------------------------------------------------------------
(* The still steps of the program.                                         *)

(* What a step that sets other fields keeps.                               *)
LEMMA DataKept ==
  ASSUME Inv, Order, NEW value, NEW c,
         UNCHANGED <<sock, inbox, asked, outbox, dropped, strays>>,
         mixed' \in BOOLEAN /\ (mixed => mixed'),
         \/ slot' = slot
         \/ slot' = [slot EXCEPT !.closing = value]
         \/ slot' = [slot EXCEPT !.sock_lock = value]
         \/ slot' = [slot EXCEPT !.scheduled = value]
         \/ slot' = [slot EXCEPT !.quiet = value],
         \/ proto' = proto
         \/ \E stop : proto' = [proto EXCEPT ![c].stop = stop]
         \/ \E locks : proto' = [proto EXCEPT ![c].locks = locks]
  PROVE  SameData
<1>1. /\ slot'.counter = slot.counter /\ slot'.protocol = slot.protocol
      /\ slot'.packets = slot.packets
  BY DEF Inv, SlotInv
<1>2. \A d \in Conns : /\ proto'[d].uuid = proto[d].uuid /\ proto'[d].life = proto[d].life
                       /\ proto'[d].buf = proto[d].buf
  <2>1. /\ DOMAIN proto = Conns
        /\ \A d \in Conns : DOMAIN proto[d] = {"uuid", "life", "locks", "buf", "stop", "close"}
    BY DEF Inv, ProtoInv, ProtoShape
  <2> QED
    BY <2>1
<1> QED
  BY <1>1, <1>2 DEF SameData, SameLines

LEMMA MixedBool ==
  ASSUME Order
  PROVE  mixed \in BOOLEAN
BY DEF Order, Plain, Requested

LEMMA StillParts ==
  ASSUME Inv, Order, NEW t \in Threads, SameData, Quiet(t), SameStage(t),
         Tasked(slot.counter)',
         armed' \subseteq armed \/ thread[t].at \notin {"idle", "open"}
  PROVE  Still(t)
<1>1. Onward(t)
  BY QuietOnward
<1>2. armed' # {} => slot.counter >= 1
  BY ThreadFacts DEF Numbered, Order, Plain, Numbers
<1> QED
  BY <1>1, <1>2 DEF Still

(* A thread without a call under way, which holds no lock, has numbers.    *)
LEMMA FreeNumbered ==
  ASSUME NEW th, NEW n \in Nat, n >= 1, th.at \in FreePlaces, th.left \in Nat,
         th.stack = <<>>, th.at \in UuidPlaces => th.uuid \in 1 .. n
  PROVE  Stage(th) = "other" /\ Numbered(th, n)
<1>1. <<>> # <<"answer">>
  OBVIOUS
<1>2. /\ th.at \notin SendPlaces \cup ClosePlaces /\ th.at # "answer" /\ th.at # "answered"
      /\ th.at # "shut"
  BY DEF FreePlaces, SendPlaces, ClosePlaces
<1>3. ~Holds(th, "task")
  BY Free
<1>4. Stage(th) = "other"
  BY <1>2 DEF Stage, Given
<1> QED
  BY <1>1, <1>2, <1>3, <1>4 DEF Numbered

LEMMA PollStill ==
  ASSUME Inv, Order, NEW t \in Threads, Poll(t) \/ Polled(t)
  PROVE  Still(t)
<1>1. Quiet(t)
  BY PollQuiet
<1>2. /\ DOMAIN thread = Threads /\ Shape(thread[t]) /\ Numbered(thread[t], slot.counter)
      /\ slot.counter \in Nat
  BY ThreadFacts
<1>3. thread[t].at \in FreePlaces /\ thread[t].stack = <<>> /\ Stage(thread[t]) = "other"
  <2>1. thread[t].at \in FreePlaces
    BY DEF Poll, Polled, FreePlaces
  <2>2. thread[t].stack = <<>>
    BY <1>2, <2>1, ShapeOf
  <2>3. Stage(thread[t]) = "other"
    BY <2>1 DEF Stage, Given, FreePlaces, SendPlaces, ClosePlaces
  <2> QED
    BY <2>1, <2>2, <2>3
<1>4. SameData
  <2>1. slot' = slot \/ slot' = [slot EXCEPT !.closing = 2]
    BY DEF Poll, Polled
  <2>2. UNCHANGED <<inbox, asked, outbox, proto, sock, dropped, mixed, strays>>
    BY DEF Poll, Polled, ghost, env
  <2> QED
    BY <2>1, <2>2, DataKept, MixedBool
<1>5. CASE Poll(t)
  <2>1. slot.counter >= 1
    BY <1>5 DEF Poll, Order, Plain, Numbers
  <2>2. PICK place \in {"polled in", "polled out", "polled hup"} : Goto(t, place)
    BY <1>5 DEF Poll
  <2>3. /\ thread'[t].at = place /\ thread'[t].stack = <<>> /\ thread'[t].left = thread[t].left
    BY <1>2, <1>3, <2>2 DEF Goto, Shape
  <2>4. SameStage(t)
    <3>1. thread'[t].at \in FreePlaces /\ thread'[t].at \notin UuidPlaces
      BY <2>2, <2>3 DEF FreePlaces, UuidPlaces
    <3>2. thread'[t].left \in Nat
      BY <1>2, <2>3 DEF Numbered
    <3> QED
      BY <1>2, <1>3, <2>1, <2>3, <3>1, <3>2, FreeNumbered DEF SameStage
  <2>5. Tasked(slot.counter)'
    BY <1>5, <1>4, TasksKept DEF Poll, SameData, SameLines
  <2>6. armed' \subseteq armed
    BY <1>5 DEF Poll
  <2> QED
    BY <1>1, <1>4, <2>4, <2>5, <2>6, StillParts
<1>6. CASE Polled(t)
  <2>1. thread[t].at \notin {"idle", "open"} /\ slot.counter \in 1 .. slot.counter
    <3>1. thread[t].at \notin {"idle", "open"}
      BY <1>6 DEF Polled
    <3>2. slot.counter >= 1
      BY <1>2, <3>1 DEF Numbered
    <3> QED
      BY <1>2, <3>1, <3>2
  <2>2. slot'.counter = slot.counter
    BY <1>4 DEF SameData, SameLines
  <2>3. CASE thread[t].at # "polled hup"
    <3>1. SameStage(t)
      BY <1>3, <1>6, <2>3, RestSame DEF Polled
    <3>2. Tasked(slot.counter)'
      <4>1. CASE thread[t].at = "polled in"
        BY <1>2, <1>6, <2>1, <2>2, <4>1, TaskPushed DEF Polled
      <4>2. CASE thread[t].at = "polled out"
        BY <1>2, <1>6, <2>1, <2>2, <4>2, TaskPushed DEF Polled
      <4> QED
        BY <1>6, <2>3, <4>1, <4>2 DEF Polled
    <3> QED
      BY <1>1, <1>4, <2>1, <3>1, <3>2, StillParts
  <2>4. CASE thread[t].at = "polled hup"
    <3>1. Call(t, "close", slot.counter, "idle") /\ UNCHANGED <<normal, urgent>>
      BY <1>6, <2>4 DEF Polled
    <3>2. SameStage(t)
      BY <1>3, <2>1, <3>1, CallSame
    <3>3. Tasked(slot.counter)'
      BY <2>2, <3>1, TasksKept
    <3> QED
      BY <1>1, <1>4, <2>1, <3>2, <3>3, StillParts
  <2> QED
    BY <2>3, <2>4
<1> QED
  BY <1>5, <1>6

LEMMA CloseStill ==
  ASSUME Inv, Order, NEW t \in Threads, ForceClose(t) \/ CloseLater(t) \/ MarkClosing(t)
  PROVE  Still(t)
<1>1. Quiet(t)
  BY CloseQuiet
<1>2. /\ Numbered(thread[t], slot.counter) /\ slot.counter \in Nat
      /\ thread[t].at \in ClosePlaces \ {"shut"} /\ thread[t].at \notin {"idle", "open"}
  BY ThreadFacts DEF ForceClose, CloseLater, MarkClosing, ClosePlaces
<1>3. SameData
  <2>1. CASE ForceClose(t)
    BY <2>1, DataKept, MixedBool DEF ForceClose, ghost, env
  <2>2. CASE CloseLater(t)
    BY <2>2, DataKept, MixedBool DEF CloseLater, ghost, env
  <2>3. CASE MarkClosing(t)
    BY <2>3, DataKept, MixedBool DEF MarkClosing, env
  <2> QED
    BY <2>1, <2>2, <2>3
<1>4. SameStage(t)
  <2>1. CASE \E place \in {"drop", "mark", "close"} : Goto(t, place)
    BY <1>2, <2>1, GotoSame DEF Alike, ClosePlaces
  <2>2. CASE Return(t)
    BY <1>2, <2>2, ReturnSame
  <2> QED
    BY <2>1, <2>2 DEF ForceClose, CloseLater, MarkClosing
<1>5. Tasked(slot.counter)'
  <2>1. slot'.counter = slot.counter
    BY <1>3 DEF SameData, SameLines
  <2>2. CASE MarkClosing(t)
    <3>1. thread[t].target \in 1 .. slot.counter /\ thread[t].target \in Nat
      BY <1>2 DEF Numbered
    <3> QED
      BY <2>1, <2>2, <3>1, TaskPushed, TasksKept DEF MarkClosing
  <2> QED
    BY <2>1, <2>2, TasksKept DEF ForceClose, CloseLater
<1> QED
  BY <1>1, <1>2, <1>3, <1>4, <1>5, StillParts

LEMMA SendStill ==
  ASSUME Inv, Order, NEW t \in Threads,
         \/ Flush(t) \/ Failed(t) \/ Sent(t) \/ Flushed(t)
         \/ Write(t) /\ UNCHANGED outbox
  PROVE  Still(t)
<1>1. Quiet(t)
  BY SendQuiet
<1>2. /\ Numbered(thread[t], slot.counter) /\ slot.counter \in Nat
      /\ DOMAIN thread = Threads /\ Shape(thread[t])
      /\ thread[t].at \in SendPlaces /\ thread[t].at \notin {"idle", "open"}
  BY ThreadFacts DEF Flush, Failed, Sent, Flushed, Write, SendPlaces
<1>3. SameData
  <2>1. CASE Flush(t)
    BY <2>1, DataKept, MixedBool DEF Flush, ghost, env
  <2>2. CASE Failed(t)
    BY <2>2, DataKept, MixedBool DEF Failed, env
  <2>3. CASE Sent(t)
    BY <2>3, DataKept, MixedBool DEF Sent, ghost, env
  <2>4. CASE Flushed(t)
    BY <2>4, DataKept, MixedBool DEF Flushed, ghost, env
  <2>5. CASE Write(t) /\ UNCHANGED outbox
    <3>1. CASE slot' = [slot EXCEPT !.sock_lock = FALSE]
      BY <2>5, <3>1, DataKept, MixedBool DEF Write, ghost
    <3>2. CASE /\ sock # None /\ outbox' = [outbox EXCEPT ![sock] = Append(@, Head(slot.packets))]
               /\ slot.packets # <<>>
      <4>1. sock \in Conns /\ DOMAIN outbox = Conns /\ outbox[sock] \in Seq(Item)
            /\ slot.packets \in Seq(Item)
        BY <3>2 DEF Order, Plain, Requested
      <4>2. outbox'[sock] = Append(outbox[sock], Head(slot.packets))
        BY <3>2, <4>1
      <4>3. Len(outbox'[sock]) = Len(outbox[sock]) + 1 /\ Len(outbox[sock]) \in Nat
        BY <3>2, <4>1, <4>2
      <4> QED
        BY <2>5, <4>3
    <3> QED
      BY <2>5, <3>1, <3>2 DEF Write
  <2> QED
    BY <2>1, <2>2, <2>3, <2>4, <2>5
<1>4. SameStage(t)
  <2>1. CASE \E place \in SendPlaces : Goto(t, place)
    BY <1>2, <2>1, GotoSame DEF Alike, SendPlaces
  <2>2. CASE \E again : thread' = [thread EXCEPT ![t].at = "flushed", ![t].again = again]
    <3>1. /\ thread'[t].at = "flushed" /\ thread'[t].stack = thread[t].stack
          /\ thread'[t].pr = thread[t].pr /\ thread'[t].uuid = thread[t].uuid
          /\ thread'[t].target = thread[t].target /\ thread'[t].left = thread[t].left
          /\ DOMAIN thread' = Threads
      BY <1>2, <2>2 DEF Shape
    <3>2. Alike(thread[t].at, "flushed")
      BY <1>2 DEF Alike, SendPlaces
    <3> QED
      BY <3>1, <3>2, WentSame
  <2>3. CASE thread' = [thread EXCEPT ![t].at = "close", ![t].again = FALSE,
                                     ![t].stack = <<"flushed">> \o @]
    BY <1>2, <2>3, FlushClosesSame
  <2>4. CASE Return(t)
    BY <1>2, <2>4, ReturnSame
  <2> QED
    BY <2>1, <2>2, <2>3, <2>4 DEF Flush, Write, Failed, Sent, Flushed, SendPlaces
<1>5. Tasked(slot.counter)'
  <2>1. slot'.counter = slot.counter
    BY <1>3 DEF SameData, SameLines
  <2>2. CASE Flushed(t)
    <3>1. thread[t].target \in 1 .. slot.counter /\ thread[t].target \in Nat
      BY <1>2 DEF Numbered
    <3> QED
      BY <2>1, <2>2, <3>1, TaskPushed, TasksKept DEF Flushed
  <2> QED
    BY <2>1, <2>2, TasksKept DEF Flush, Write, Failed, Sent
<1> QED
  BY <1>1, <1>2, <1>3, <1>4, <1>5, StillParts

(* on_data is forced for a uuid.                                           *)
LEMMA ForcedStill ==
  ASSUME Inv, Order, NEW uuid \in 1 .. slot.counter, ForceData(uuid), UNCHANGED urgent
  PROVE  /\ Tasked(slot.counter)'
         /\ slot' = slot \/ slot' = [slot EXCEPT !.scheduled = TRUE]
<1>1. slot.counter \in Nat /\ uuid \in Nat
  BY DEF Inv, SlotInv
<1>2. slot' = slot \/ slot' = [slot EXCEPT !.scheduled = TRUE]
  BY DEF ForceData
<1>3. slot'.counter = slot.counter
  BY <1>2 DEF Inv, SlotInv
<1> QED
  BY <1>1, <1>2, <1>3, TaskPushed, TasksKept DEF ForceData

LEMMA ReadyStill ==
  ASSUME Inv, Order, NEW t \in Threads, Ready(t)
  PROVE  Still(t)
<1>1. Quiet(t)
  BY ReadyQuiet
<1>2. thread[t].uuid \in 1 .. slot.counter
  BY ThreadFacts DEF Ready, Numbered, UuidPlaces
<1>3. SameStage(t)
  BY GotoSame DEF Ready, Alike, WritePlaces
<1>4. /\ Tasked(slot.counter)'
      /\ slot' = slot \/ slot' = [slot EXCEPT !.scheduled = TRUE]
  BY <1>2, ForcedStill, TasksKept DEF Ready
<1>5. SameData
  <2>1. proto' = proto \/ proto' = [proto EXCEPT ![thread[t].pr].stop = FALSE]
    BY DEF Ready
  <2>2. UNCHANGED <<inbox, asked, outbox, sock, dropped, mixed, strays>>
    BY DEF Ready, ghost, env
  <2> QED
    BY <1>4, <2>1, <2>2, DataKept, MixedBool
<1>6. thread[t].at \notin {"idle", "open"}
  BY DEF Ready
<1> QED
  BY <1>1, <1>3, <1>4, <1>5, <1>6, StillParts

LEMMA ReviewedStill ==
  ASSUME Inv, Order, NEW t \in Threads, Reviewed(t) \/ FindUuid(t) \/ PushPing(t)
  PROVE  Still(t)
<1>1. Quiet(t)
  BY ReviewQuiet
<1>2. thread[t].at \notin {"idle", "open"} /\ slot.counter \in Nat /\ slot.counter >= 1
  BY ThreadFacts DEF Reviewed, FindUuid, PushPing, Numbered
<1>3. SameStage(t)
  <2>1. \E place \in StatePlaces : Goto(t, place)
    BY DEF Reviewed, FindUuid, PushPing, StatePlaces
  <2> QED
    BY <2>1, GotoSame DEF Reviewed, FindUuid, PushPing, Alike, StatePlaces
<1>4. SameData
  <2>1. /\ slot' = slot /\ proto' = proto
        /\ UNCHANGED <<inbox, asked, outbox, sock, dropped, mixed, strays>>
    BY DEF Reviewed, FindUuid, PushPing, ghost, env
  <2> QED
    BY <2>1, DataKept, MixedBool
<1>5. Tasked(slot.counter)'
  <2>1. slot.counter \in 1 .. slot.counter /\ slot'.counter = slot.counter
    BY <1>2, <1>4 DEF SameData, SameLines
  <2> QED
    BY <1>2, <2>1, TaskPushed, TasksKept DEF Reviewed, FindUuid, PushPing
<1> QED
  BY <1>1, <1>2, <1>3, <1>4, <1>5, StillParts

LEMMA DataStill ==
  ASSUME Inv, Order, NEW t \in Threads,
         OnData(t) \/ Data(t) \/ Throttle(t) \/ ForceMore(t) \/ Rearm(t)
  PROVE  Still(t)
<1>1. Quiet(t)
  BY DataQuiet
<1>2. /\ DOMAIN thread = Threads /\ Shape(thread[t]) /\ Numbered(thread[t], slot.counter)
      /\ slot.counter \in Nat /\ thread[t].at \notin {"idle", "open"}
  BY ThreadFacts DEF OnData, Data, Throttle, ForceMore, Rearm
<1>3. thread[t].at # "rearm" => thread[t].uuid \in 1 .. slot.counter
  BY <1>2 DEF OnData, Data, Throttle, ForceMore, Rearm, Numbered, UuidPlaces, Holds, TaskPlaces
<1>4. thread[t].stack = <<>> /\ Stage(thread[t]) = "other"
  <2>1. thread[t].at \in FreePlaces \cup TaskPlaces
    BY DEF OnData, Data, Throttle, ForceMore, Rearm, FreePlaces, TaskPlaces
  <2>2. thread[t].stack = <<>>
    BY <1>2, <2>1, ShapeOf
  <2>3. Stage(thread[t]) = "other"
    BY DEF OnData, Data, Throttle, ForceMore, Rearm, Stage, Given, SendPlaces, ClosePlaces
  <2> QED
    BY <2>2, <2>3
<1>5. SameStage(t)
  <2>1. CASE OnData(t)
    <3>1. CASE Rest(t)
      BY <1>4, <3>1, RestSame
    <3>2. CASE Call(t, "flush", thread[t].uuid, "idle")
      <4>1. thread[t].uuid \in 1 .. slot.counter
        BY <1>3, <2>1 DEF OnData
      <4> QED
        BY <1>4, <3>2, <4>1, CallSame
    <3>3. CASE Goto(t, "lock task")
      BY <2>1, <3>3, GotoSame DEF OnData, Alike
    <3> QED
      BY <2>1, <3>1, <3>2, <3>3 DEF OnData
  <2>2. CASE Data(t) \/ Throttle(t) \/ ForceMore(t)
    <3>1. /\ \E place \in TaskPlaces \ {"answer", "answered"} : Goto(t, place)
          /\ thread[t].at \in TaskPlaces \ {"answer", "answered"}
      BY <2>2 DEF Data, Throttle, ForceMore, TaskPlaces
    <3> QED
      BY <3>1, GotoSame DEF Alike
  <2>3. CASE Rearm(t)
    BY <1>4, <2>3, RestSame DEF Rearm
  <2> QED
    BY <2>1, <2>2, <2>3
<1>6. SameData /\ Tasked(slot.counter)'
  <2>1. UNCHANGED <<inbox, asked, outbox, sock, dropped, mixed, strays, urgent>>
    BY DEF OnData, Data, Throttle, ForceMore, Rearm, ghost, env
  <2>2. proto' = proto \/ proto' = [proto EXCEPT ![thread[t].pr].stop = TRUE]
    BY DEF OnData, Data, Throttle, ForceMore, Rearm
  <2>3. \/ slot' = slot
        \/ \E value : slot' = [slot EXCEPT !.scheduled = value]
    BY DEF OnData, Data, Throttle, ForceMore, Rearm, Suspend, ForceData
  <2>4. SameData
    BY <2>1, <2>2, <2>3, DataKept, MixedBool
  <2>5. Tasked(slot.counter)'
    <3>1. CASE ForceMore(t)
      BY <1>3, <2>1, <3>1, ForcedStill DEF ForceMore
    <3>2. CASE ~ForceMore(t)
      BY <2>4, <3>2, TasksKept DEF OnData, Data, Throttle, Rearm, SameData, SameLines
    <3> QED
      BY <3>1, <3>2
  <2> QED
    BY <2>4, <2>5
<1> QED
  BY <1>1, <1>2, <1>5, <1>6, StillParts

(* A callback ends.                                                        *)
LEMMA UnlockStill ==
  ASSUME Inv, Order, NEW t \in Threads, UnlockTask(t) \/ UnlockWrite(t) \/ UnlockState(t)
  PROVE  Still(t)
<1>1. /\ DOMAIN thread = Threads /\ Shape(thread[t]) /\ Numbered(thread[t], slot.counter)
      /\ slot.counter \in Nat /\ thread[t].at \notin {"idle", "open"}
  BY ThreadFacts DEF UnlockTask, UnlockWrite, UnlockState
<1>2. /\ thread[t].stack = <<>> /\ Stage(thread[t]) = "other" /\ ~Making(thread[t])
  <2>1. thread[t].at \in TaskPlaces \cup WritePlaces \cup StatePlaces
    BY DEF UnlockTask, UnlockWrite, UnlockState, TaskPlaces, WritePlaces, StatePlaces
  <2>2. thread[t].stack = <<>>
    BY <1>1, <2>1, ShapeOf
  <2>3. Stage(thread[t]) = "other" /\ ~Making(thread[t])
    BY DEF UnlockTask, UnlockWrite, UnlockState, Stage, Given, SendPlaces, ClosePlaces, Making
  <2> QED
    BY <2>2, <2>3
<1>3. SameData
  <2>1. /\ slot' = slot
        /\ UNCHANGED <<inbox, asked, outbox, sock, dropped, mixed, strays>>
    BY DEF UnlockTask, UnlockWrite, UnlockState, ghost, env
  <2>2. \E locks : proto' = [proto EXCEPT ![thread[t].pr].locks = locks]
    BY DEF UnlockTask, UnlockWrite, UnlockState, Unlock
  <2> QED
    BY <2>1, <2>2, DataKept, MixedBool
<1>4. /\ \A u \in Threads \ {t} : thread'[u] = thread[u]
      /\ SameStage(t) /\ ~Making(thread'[t]) /\ \A l : ~Holds(thread'[t], l)
  <2>1. CASE UnlockTask(t)
    <3>1. Goto(t, "rearm")
      BY <2>1 DEF UnlockTask
    <3>2. /\ thread'[t].at = "rearm" /\ thread'[t].stack = <<>> /\ thread'[t].left = thread[t].left
          /\ \A u \in Threads \ {t} : thread'[u] = thread[u]
      BY <1>1, <1>2, <3>1 DEF Goto, Shape
    <3>3. thread'[t].at \in FreePlaces /\ thread'[t].at \notin UuidPlaces
      BY <3>2 DEF FreePlaces, UuidPlaces
    <3>4. slot.counter >= 1 /\ thread[t].left \in Nat
      BY <1>1 DEF Numbered
    <3>5. Stage(thread'[t]) = "other" /\ Numbered(thread'[t], slot.counter)
      BY <1>1, <3>2, <3>3, <3>4, FreeNumbered
    <3> QED
      BY <1>2, <3>2, <3>3, <3>5, Free DEF SameStage, Making
  <2>2. CASE Rest(t)
    <3>1. thread'[t] = Idle /\ \A u \in Threads \ {t} : thread'[u] = thread[u]
      BY <1>1, <2>2 DEF Rest
    <3>2. SameStage(t)
      BY <1>2, <2>2, RestSame
    <3> QED
      BY <3>1, <3>2, IdleShape DEF Special
  <2> QED
    BY <2>1, <2>2 DEF UnlockWrite, UnlockState
<1>5. Onward(t)
  BY <1>2, <1>4 DEF Onward, LocksKept
<1>6. Tasked(slot.counter)'
  BY <1>3, TasksKept DEF UnlockTask, UnlockWrite, UnlockState, SameData, SameLines
<1>7. armed' # {} => slot.counter >= 1
  BY <1>1 DEF Numbered
<1> QED
  BY <1>3, <1>5, <1>6, <1>7 DEF Still

(* A callback begins.                                                      *)
LEMMA LockOnward ==
  ASSUME Inv, Order, NEW t \in Threads, NEW l \in Locks, NEW place, Lock(t, l, place),
         CanLock(l), thread[t].at \in FreePlaces, ~Special(thread[t]),
         thread[t].at # "idle" => thread[t].uuid \in 1 .. slot.counter,
         \/ l = "task" /\ place = "data" /\ thread[t].at # "idle"
         \/ l = "write" /\ place = "ready" /\ thread[t].at # "idle"
         \/ l = "state" /\ place = "review"
  PROVE  Onward(t)
<1>1. /\ DOMAIN thread = Threads /\ Shape(thread[t]) /\ Numbered(thread[t], slot.counter)
      /\ slot.counter \in Nat
  BY ThreadFacts
<1>2. /\ thread' = [thread EXCEPT ![t].at = place, ![t].pr = slot.protocol]
      /\ thread[t].stack = <<>> /\ <<>> # <<"answer">>
  BY <1>1, ShapeOf DEF Lock
<1>3. /\ thread'[t].at = place /\ thread'[t].stack = <<>> /\ thread'[t].pr = slot.protocol
      /\ thread'[t].uuid = thread[t].uuid /\ thread'[t].left = thread[t].left
  BY <1>1, <1>2 DEF Shape
<1>4. CalmThreads(t)
  BY LockPlace
<1>5. Stage(thread[t]) = "other" /\ Stage(thread'[t]) = "other"
  BY <1>3 DEF Stage, Given, FreePlaces, SendPlaces, ClosePlaces
<1>6. slot.counter >= 1
  <2>1. slot.protocol \in Conns /\ proto[slot.protocol].life # "none"
    BY DEF CanLock, Inv, SlotInv, Ever
  <2> QED
    BY <1>1, <2>1 DEF Order, Plain, Numbers
<1>7. Numbered(thread'[t], slot.counter)
  <2>1. thread'[t].at \in UuidPlaces \/ Holds(thread'[t], "task") => place # "review"
    BY <1>3 DEF UuidPlaces, Holds, TaskPlaces, SendPlaces, ClosePlaces
  <2>2. thread'[t].at \notin SendPlaces \cup ClosePlaces /\ thread'[t].at # "shut"
    BY <1>3 DEF SendPlaces, ClosePlaces
  <2>3. thread'[t].left \in Nat
    BY <1>1, <1>3 DEF Numbered
  <2> QED
    BY <1>2, <1>3, <1>5, <1>6, <2>1, <2>2, <2>3 DEF Numbered
<1> QED
  BY <1>3, <1>4, <1>5, <1>7 DEF Onward, LocksKept, CalmThreads, Special, SameStage, CanLock

LEMMA LockStill ==
  ASSUME Inv, Order, NEW t \in Threads,
         LockTask(t) \/ OnReadyUsr(t) \/ Review(t)
  PROVE  Still(t)
<1>1. /\ DOMAIN thread = Threads /\ Shape(thread[t]) /\ Numbered(thread[t], slot.counter)
      /\ slot.counter \in Nat
      /\ thread[t].at \in FreePlaces /\ ~Special(thread[t]) /\ thread[t].at # "open"
      /\ Stage(thread[t]) = "other"
      /\ thread[t].at # "idle" => thread[t].uuid \in 1 .. slot.counter
  <2>1. thread[t].at \in {"lock task", "on_ready_usr", "idle"}
    BY DEF LockTask, OnReadyUsr, Review
  <2>2. /\ thread[t].at \in FreePlaces /\ ~Special(thread[t]) /\ thread[t].at # "open"
        /\ Stage(thread[t]) = "other"
    BY <2>1 DEF FreePlaces, Special, Making, Stage, Given, SendPlaces, ClosePlaces
  <2>3. thread[t].at # "idle" => thread[t].at \in UuidPlaces
    BY <2>1 DEF UuidPlaces
  <2> QED
    BY <2>2, <2>3, ThreadFacts DEF Numbered
<1>2. CASE Rest(t) /\ ~Review(t)
  <2>1. QuietThreads(t) /\ SameStage(t)
    BY <1>1, <1>2, Rested, RestSame
  <2>2. Onward(t)
    BY <2>1 DEF QuietThreads, CalmThreads, Special, Onward, LocksKept
  <2>3. /\ slot' = slot /\ proto' = proto
        /\ UNCHANGED <<inbox, asked, outbox, sock, dropped, mixed, strays>>
    <3>1. CASE LockTask(t)
      <4>1. ~CanLock("task")
        <5>1. CASE CanLock("task")
          <6>1. thread'[t].at = "data"
            BY <1>1, <3>1, <5>1 DEF LockTask, Lock, Shape
          <6>2. thread'[t].at = "idle"
            BY <1>1, <1>2 DEF Rest, Idle
          <6> QED
            BY <6>1, <6>2
        <5> QED
          BY <5>1
      <4> QED
        BY <3>1, <4>1 DEF LockTask, ghost, env
    <3>2. CASE OnReadyUsr(t)
      <4>1. ~CanLock("write")
        <5>1. CASE CanLock("write")
          <6>1. thread'[t].at = "ready"
            BY <1>1, <3>2, <5>1 DEF OnReadyUsr, Lock, Shape
          <6>2. thread'[t].at = "idle"
            BY <1>1, <1>2 DEF Rest, Idle
          <6> QED
            BY <6>1, <6>2
        <5> QED
          BY <5>1
      <4> QED
        BY <3>2, <4>1 DEF OnReadyUsr, ghost, env
    <3> QED
      BY <1>2, <3>1, <3>2
  <2>4. SameData
    BY <2>3, DataKept, MixedBool
  <2>5. thread[t].at # "idle"
    BY <1>2 DEF LockTask, OnReadyUsr
  <2>6. Tasked(slot.counter)'
    <3>1. thread[t].uuid \in 1 .. slot.counter /\ thread[t].uuid \in Nat
      BY <1>1, <2>5
    <3>2. slot'.counter = slot.counter
      BY <2>3
    <3>3. CASE UNCHANGED <<normal, urgent>>
      BY <3>2, <3>3, TasksKept
    <3>4. CASE PushNormal(Task("on_data", thread[t].uuid, TRUE)) /\ UNCHANGED urgent
      BY <3>1, <3>2, <3>4, TaskPushed
    <3>5. CASE PushNormal(Task("on_ready", thread[t].uuid, FALSE)) /\ UNCHANGED urgent
      BY <3>1, <3>2, <3>5, TaskPushed
    <3> QED
      BY <1>2, <3>3, <3>4, <3>5 DEF LockTask, OnReadyUsr
  <2>7. armed' # {} => slot.counter >= 1
    BY <1>1, <2>5
  <2> QED
    BY <2>2, <2>4, <2>6, <2>7 DEF Still
<1>3. CASE ~Rest(t) \/ Review(t)
  <2>1. PICK l \in Locks, place \in {"data", "ready", "review"} :
          /\ Lock(t, l, place) /\ CanLock(l)
          /\ \/ l = "task" /\ place = "data" /\ thread[t].at # "idle"
             \/ l = "write" /\ place = "ready" /\ thread[t].at # "idle"
             \/ l = "state" /\ place = "review"
    BY <1>3 DEF LockTask, OnReadyUsr, Review, Locks
  <2>2. Onward(t)
    BY <1>1, <2>1, LockOnward
  <2>3. /\ UNCHANGED <<inbox, asked, outbox, sock, dropped, mixed, strays, armed, normal, urgent>>
        /\ \/ slot' = slot \/ slot' = [slot EXCEPT !.scheduled = FALSE]
           \/ slot' = [slot EXCEPT !.quiet = TRUE]
    BY <1>3 DEF LockTask, OnReadyUsr, Review, ghost, env
  <2>4. SameData
    <3>1. \E locks : proto' = [proto EXCEPT ![slot.protocol].locks = locks]
      BY <2>1 DEF Lock
    <3> QED
      BY <2>3, <3>1, DataKept, MixedBool
  <2>5. Tasked(slot.counter)'
    BY <2>3, <2>4, TasksKept DEF SameData, SameLines
  <2>6. armed' # {} => slot.counter >= 1
    BY <2>3 DEF Order, Plain, Numbers
  <2> QED
    BY <2>2, <2>4, <2>5, <2>6 DEF Still
<1> QED
  BY <1>2, <1>3

LEMMA PingStill ==
  ASSUME Inv, Order, NEW t \in Threads, Ping(t)
  PROVE  Still(t)
<1>1. /\ DOMAIN thread = Threads /\ Shape(thread[t]) /\ Numbered(thread[t], slot.counter)
      /\ slot.counter \in Nat /\ thread[t].at = "ping" /\ ~Special(thread[t])
      /\ Stage(thread[t]) = "other"
  BY ThreadFacts DEF Ping, Special, Making, Stage, Given, SendPlaces, ClosePlaces
<1>2. thread[t].uuid \in 1 .. slot.counter /\ thread[t].uuid \in Nat /\ slot.counter >= 1
  BY <1>1 DEF Numbered, UuidPlaces
<1>3. UNCHANGED <<slot, inbox, asked, outbox, sock, dropped, mixed, strays, urgent, armed>>
  BY DEF Ping, ghost, env
<1>4. SameData
  <2>1. proto' = proto \/ \E locks : proto' = [proto EXCEPT ![slot.protocol].locks = locks]
    BY DEF Ping
  <2> QED
    BY <1>3, <2>1, DataKept, MixedBool
<1>5. CASE slot.protocol # None /\ slot.quiet /\ CanLock("write")
  <2>1. thread' = [thread EXCEPT ![t].at = "close", ![t].target = thread[t].uuid,
                                 ![t].pr = slot.protocol,
                                 ![t].stack = <<"unlock write">>]
    BY <1>5 DEF Ping
  <2>2. /\ thread'[t].at = "close" /\ thread'[t].stack = <<"unlock write">>
        /\ thread'[t].pr = slot.protocol /\ thread'[t].target = thread[t].uuid
        /\ thread'[t].left = thread[t].left
        /\ \A u \in Threads \ {t} : thread'[u] = thread[u]
    BY <1>1, <2>1 DEF Shape
  <2>3. /\ <<"unlock write">> \notin AnsweredStacks /\ <<"unlock write">> \notin TaskStacks
        /\ <<"unlock write">> # <<"answer">>
    BY DEF AnsweredStacks, TaskStacks
  <2>4. Stage(thread'[t]) = "other" /\ ~Holds(thread'[t], "task") /\ ~Making(thread'[t])
    BY <2>2, <2>3 DEF Stage, Given, Holds, TaskPlaces, SendPlaces, ClosePlaces, Making
  <2>5. Numbered(thread'[t], slot.counter)
    <3>1. thread'[t].at \notin UuidPlaces /\ thread'[t].at # "shut"
      BY <2>2 DEF UuidPlaces
    <3>2. thread'[t].left \in Nat
      BY <1>1, <2>2 DEF Numbered
    <3> QED
      BY <1>2, <2>2, <2>3, <2>4, <3>1, <3>2 DEF Numbered
  <2>6. Onward(t)
    BY <1>1, <1>5, <2>2, <2>4, <2>5 DEF Onward, LocksKept, SameStage, Special
  <2>7. Tasked(slot.counter)'
    BY <1>3, <1>5, TasksKept DEF Ping
  <2> QED
    BY <1>2, <1>4, <2>6, <2>7 DEF Still
<1>6. CASE ~(slot.protocol # None /\ slot.quiet /\ CanLock("write"))
  <2>1. Rest(t)
    BY <1>6 DEF Ping
  <2>2. QuietThreads(t) /\ SameStage(t)
    BY <1>1, <2>1, Rested, RestSame
  <2>3. Onward(t)
    BY <2>2 DEF QuietThreads, CalmThreads, Special, Onward, LocksKept
  <2>4. Tasked(slot.counter)'
    BY <1>2, <1>3, <1>6, TaskPushed, TasksKept DEF Ping
  <2> QED
    BY <1>2, <1>4, <2>3, <2>4 DEF Still
<1> QED
  BY <1>5, <1>6

(* A thread takes a task.                                                  *)
LEMMA TakeStill ==
  ASSUME Inv, Order, NEW t \in Threads, Take(t)
  PROVE  Still(t)
<1> DEFINE task == IF urgent # <<>> THEN Head(urgent) ELSE Head(normal)
<1>1. /\ DOMAIN thread = Threads /\ thread[t].at = "idle" /\ ~Making(thread[t])
      /\ Stage(thread[t]) = "other" /\ slot.counter \in Nat
      /\ normal \in Seq(TaskSet) /\ urgent \in Seq(TaskSet)
      /\ Tasked(slot.counter)
      /\ UNCHANGED <<slot, proto, sock, inbox, asked, outbox, dropped, mixed, strays, armed>>
  BY ThreadFacts DEF Inv, QueueInv, Take, Making, Order, Plain, Numbers, ghost, env, Stage, Given,
     SendPlaces, ClosePlaces
<1>2. urgent = <<>> => normal # <<>>
  <2>1. <<>> \o <<>> = <<>>
    OBVIOUS
  <2> QED
    BY <2>1 DEF Take
<1>3. PICK k \in TaskSet : k = task /\ (k.kind # "on_close" => k.id \in 1 .. slot.counter)
  <2>1. CASE urgent # <<>>
    <3>1. Head(urgent) \in TaskSet /\ Head(urgent) = urgent[1] /\ 1 \in DOMAIN urgent
      BY <1>1, <2>1, Popped
    <3> QED
      BY <1>1, <2>1, <3>1 DEF Tasked
  <2>2. CASE urgent = <<>>
    <3>1. Head(normal) \in TaskSet /\ Head(normal) = normal[1] /\ 1 \in DOMAIN normal
      BY <1>1, <1>2, <2>2, Popped
    <3> QED
      BY <1>1, <1>2, <2>2, <3>1 DEF Tasked
  <2> QED
    BY <2>1, <2>2
<1>4. Tasked(slot.counter)'
  <2>1. CASE urgent # <<>> /\ urgent' = Tail(urgent) /\ normal' = normal
    <3>1. \A n \in DOMAIN Tail(urgent) :
             n + 1 \in DOMAIN urgent /\ Tail(urgent)[n] = urgent[n + 1]
      BY <1>1, <2>1, Popped
    <3> QED
      BY <1>1, <2>1, <3>1 DEF Tasked
  <2>2. CASE normal # <<>> /\ normal' = Tail(normal) /\ urgent' = urgent
    <3>1. \A n \in DOMAIN Tail(normal) :
             n + 1 \in DOMAIN normal /\ Tail(normal)[n] = normal[n + 1]
      BY <1>1, <2>2, Popped
    <3> QED
      BY <1>1, <2>2, <3>1 DEF Tasked
  <2> QED
    BY <1>2, <2>1, <2>2 DEF Take
<1>5. SameData
  BY <1>1, DataKept, MixedBool
<1>6. thread' = [thread EXCEPT ![t] =
                   IF k.kind = "on_ready"
                   THEN [Idle EXCEPT !.at = "flush", !.target = k.id, !.stack = <<"idle">>]
                   ELSE [Idle EXCEPT !.at = k.kind, !.uuid = k.id, !.force = k.force]]
  BY <1>3 DEF Take
<1> HIDE DEF task
<1>7. slot.counter >= 1
  <2>1. CASE k.kind # "on_close"
    BY <1>1, <1>3, <2>1
  <2>2. CASE k.kind = "on_close"
    <3>1. PICK c \in Conns : proto[c].life # "none"
      <4>1. CASE urgent # <<>>
        <5>1. Head(urgent) = urgent[1] /\ 1 \in DOMAIN urgent
          BY <1>1, <4>1, Popped
        <5> QED
          BY <1>3, <2>2, <4>1, <5>1 DEF task, Inv, QueueInv
      <4>2. CASE urgent = <<>>
        <5>1. Head(normal) = normal[1] /\ 1 \in DOMAIN normal
          BY <1>1, <1>2, <4>2, Popped
        <5> QED
          BY <1>3, <2>2, <4>2, <5>1 DEF task, Inv, QueueInv, Closable, Ever
      <4> QED
        BY <4>1, <4>2
    <3> QED
      BY <1>1, <3>1 DEF Order, Plain, Numbers
  <2> QED
    BY <2>1, <2>2
<1>8. /\ \A u \in Threads \ {t} : thread'[u] = thread[u]
      /\ ~Making(thread'[t]) /\ Stage(thread'[t]) = "other"
      /\ Numbered(thread'[t], slot.counter) /\ \A l : ~Holds(thread'[t], l)
  <2>1. CASE k.kind = "on_ready"
    <3>1. thread'[t] = [Idle EXCEPT !.at = "flush", !.target = k.id, !.stack = <<"idle">>]
      BY <1>1, <1>6, <2>1
    <3>2. /\ thread'[t].at = "flush" /\ thread'[t].stack = <<"idle">>
          /\ thread'[t].left = 0 /\ thread'[t].target = k.id
      BY <3>1 DEF Idle
    <3>3. /\ <<"idle">> \notin AnsweredStacks /\ <<"idle">> \notin TaskStacks
          /\ <<"idle">> # <<"answer">>
      BY DEF AnsweredStacks, TaskStacks
    <3>4. Stage(thread'[t]) = "other" /\ \A l : ~Holds(thread'[t], l)
      BY <3>2, <3>3 DEF Stage, Given, Holds, TaskPlaces, WritePlaces, StatePlaces, ClosePlaces
    <3>5. Numbered(thread'[t], slot.counter)
      <4>1. thread'[t].at \notin UuidPlaces /\ thread'[t].at # "shut"
        BY <3>2 DEF UuidPlaces
      <4>2. thread'[t].target \in 1 .. slot.counter
        BY <1>3, <2>1, <3>2
      <4> QED
        BY <1>7, <3>2, <3>3, <3>4, <4>1, <4>2 DEF Numbered
    <3> QED
      BY <1>1, <1>6, <3>2, <3>4, <3>5 DEF Making
  <2>2. CASE k.kind # "on_ready"
    <3>1. thread'[t] = [Idle EXCEPT !.at = k.kind, !.uuid = k.id, !.force = k.force]
      BY <1>1, <1>6, <2>2
    <3>2. /\ thread'[t].at = k.kind /\ thread'[t].stack = <<>>
          /\ thread'[t].uuid = k.id /\ thread'[t].left = 0
      BY <3>1 DEF Idle
    <3>3. k.kind \in FreePlaces /\ k.kind \notin {"open", "name", "attach"}
      BY <2>2 DEF TaskSet, FreePlaces
    <3>4. thread'[t].at \in UuidPlaces => thread'[t].uuid \in 1 .. slot.counter
      BY <1>3, <3>2 DEF UuidPlaces
    <3>5. Stage(thread'[t]) = "other" /\ Numbered(thread'[t], slot.counter)
      BY <1>1, <1>7, <3>2, <3>3, <3>4, FreeNumbered
    <3> QED
      BY <1>1, <1>6, <3>2, <3>3, <3>5, Free DEF Making
  <2> QED
    BY <2>1, <2>2
<1>9. Onward(t)
  BY <1>1, <1>8 DEF Onward, LocksKept, SameStage
<1> QED
  BY <1>4, <1>5, <1>7, <1>9 DEF Still

-----------------------------------------------------------------------------
(* The clients.                                                            *)

LEMMA PlainSame ==
  ASSUME Order, UNCHANGED <<slot, proto, urgent, normal, thread>>,
         armed' = armed
  PROVE  /\ Numbers' /\ Attached' /\ Ever' = Ever
         /\ Ordered /\ UNCHANGED sock => OneSocket'
         /\ Ordered /\ UNCHANGED strays => Bounded'
         /\ \A c : (Alive(c)' <=> Alive(c)) /\ Waiting(c)' = Waiting(c)
                   /\ Unanswered(c)' = Unanswered(c)
<1>1. Ever' = Ever
  BY DEF Ever
<1>2. Numbers'
  BY DEF Order, Plain, Numbers, Tasked
<1>3. Attached'
  BY <1>1 DEF Order, Plain, Attached
<1>4. Ordered /\ UNCHANGED sock => OneSocket'
  BY <1>1 DEF Ordered, OneSocket
<1>5. Ordered /\ UNCHANGED strays => Bounded'
  BY DEF Ordered, Bounded, Limit
<1>6. \A c : (Alive(c)' <=> Alive(c)) /\ Waiting(c)' = Waiting(c)
             /\ Unanswered(c)' = Unanswered(c)
  BY <1>1 DEF Alive, Waiting, Unanswered, Gave
<1> QED
  BY <1>1, <1>2, <1>3, <1>4, <1>5, <1>6

LEMMA IdleOrder ==
  ASSUME Inv, Order, UNCHANGED <<slot, sock, armed, inbox, asked, outbox, proto, urgent, normal,
                                 thread, dropped, mixed, strays>>
  PROVE  Order'
<1>1. /\ Numbers' /\ Attached' /\ (Ordered => OneSocket' /\ Bounded')
      /\ \A c : (Alive(c)' <=> Alive(c)) /\ Waiting(c)' = Waiting(c)
                /\ Unanswered(c)' = Unanswered(c)
  BY PlainSame
<1>2. Requested'
  BY DEF Order, Plain, Requested
<1>3. \A c \in Conns : Line(c)' = Line(c)
  BY <1>1 DEF Line
<1>4. Ordered => \A c \in Conns : LineOk(c)'
  BY <1>1, <1>3, SameLine
<1> QED
  BY <1>1, <1>2, <1>4 DEF Order, Plain, Ordered

LEMMA AppendEnd ==
  ASSUME NEW s \in Seq(Item), NEW u \in Seq(Item), NEW x \in Item
  PROVE  s \o Append(u, x) = Append(s \o u, x)
<1>1. /\ Len(s) \in Nat /\ Len(u) \in Nat /\ Append(u, x) \in Seq(Item) /\ s \o u \in Seq(Item)
      /\ Len(Append(u, x)) = Len(u) + 1 /\ Append(u, x)[Len(u) + 1] = x
      /\ \A i \in 1 .. Len(u) : Append(u, x)[i] = u[i]
      /\ Len(s \o u) = Len(s) + Len(u)
  OBVIOUS
<1> DEFINE a == Append(u, x)
           b == s \o u
<1> HIDE DEF a, b
<1>2. /\ s \o a \in Seq(Item) /\ Append(b, x) \in Seq(Item)
      /\ Len(s \o a) = Len(s) + Len(u) + 1 /\ Len(Append(b, x)) = Len(s) + Len(u) + 1
  BY <1>1 DEF a, b
<1>3. /\ \A i \in 1 .. Len(s) + Len(u) : Append(b, x)[i] = b[i]
      /\ Append(b, x)[Len(s) + Len(u) + 1] = x
  BY <1>1 DEF b
<1>4. ASSUME NEW i \in 1 .. Len(s) + Len(u) + 1 PROVE (s \o a)[i] = Append(b, x)[i]
  <2>1. CASE i <= Len(s)
    <3>1. (s \o a)[i] = s[i]
      BY <1>1, <2>1, ConcatProperties DEF a
    <3>2. (s \o u)[i] = s[i]
      BY <1>1, <2>1, ConcatProperties
    <3>3. i \in 1 .. Len(s) + Len(u)
      BY <1>1, <2>1
    <3> QED
      BY <1>3, <3>1, <3>2, <3>3 DEF b
  <2>2. CASE i > Len(s) /\ i # Len(s) + Len(u) + 1
    <3>1. i \in 1 .. Len(s) + Len(u) /\ i - Len(s) \in 1 .. Len(u) /\ ~(i <= Len(s))
      BY <1>1, <2>2
    <3>2. (s \o a)[i] = a[i - Len(s)]
      BY <1>1, <3>1, ConcatProperties DEF a
    <3>3. (s \o u)[i] = u[i - Len(s)]
      BY <1>1, <3>1, ConcatProperties
    <3> QED
      BY <1>1, <1>3, <3>1, <3>2, <3>3 DEF a, b
  <2>3. CASE i = Len(s) + Len(u) + 1
    <3>1. i - Len(s) = Len(u) + 1 /\ ~(i <= Len(s)) /\ i \in 1 .. Len(s) + Len(a)
      BY <1>1, <2>3 DEF a
    <3>2. (s \o a)[i] = a[i - Len(s)]
      BY <1>1, <3>1, ConcatProperties DEF a
    <3> QED
      BY <1>1, <1>3, <2>3, <3>1, <3>2 DEF a
  <2>4. i <= Len(s) \/ i > Len(s)
    BY <1>1
  <2> QED
    BY <2>1, <2>2, <2>3, <2>4
<1>5. s \o a = Append(b, x)
  BY <1>2, <1>4, SeqEqual
<1> QED
  BY <1>5 DEF a, b

LEMMA SendOrder ==
  ASSUME Inv, Order, NEW c \in Conns, Send(c)
  PROVE  Order'
<1> DEFINE n == asked[c]
<1>1. PICK k \in BOOLEAN : inbox' = [inbox EXCEPT ![c] = Append(@, <<c, asked'[c], k>>)]
  BY DEF Send
<1> DEFINE x == <<c, n + 1, k>>
<1>2. /\ UNCHANGED <<slot, sock, armed, outbox, proto, urgent, normal, thread, dropped, mixed,
                     strays>>
      /\ asked' = [asked EXCEPT ![c] = @ + 1] /\ DOMAIN asked = Conns /\ DOMAIN inbox = Conns
      /\ n \in Nat
  BY DEF Send, ghost, Order, Plain, Requested
<1>3. /\ asked'[c] = n + 1 /\ DOMAIN asked' = Conns /\ DOMAIN inbox' = Conns
      /\ \A d \in Conns \ {c} : asked'[d] = asked[d] /\ inbox'[d] = inbox[d]
  BY <1>1, <1>2
<1>4. inbox'[c] = Append(inbox[c], x) /\ x \in Item
  BY <1>1, <1>2, <1>3 DEF Item
<1> HIDE DEF x, n
<1>5. /\ Numbers' /\ Attached' /\ (Ordered => OneSocket' /\ Bounded')
      /\ \A d : (Alive(d)' <=> Alive(d)) /\ Waiting(d)' = Waiting(d)
                /\ Unanswered(d)' = Unanswered(d)
  BY <1>2, PlainSame
<1>6. Requested'
  <2>1. \A d \in Conns : inbox[d] \in Seq(Item) /\ asked[d] \in Nat
    BY DEF Order, Plain, Requested
  <2>2. inbox'[c] \in Seq(Item) /\ asked'[c] \in Nat
    BY <1>2, <1>3, <1>4, <2>1
  <2>3. \A d \in Conns : inbox'[d] \in Seq(Item) /\ asked'[d] \in Nat
    BY <1>3, <2>1, <2>2
  <2> QED
    BY <1>2, <1>3, <2>3 DEF Order, Plain, Requested
<1>7. ASSUME Ordered, NEW d \in Conns \ {c} PROVE LineOk(d)'
  <2>1. Line(d)' = Line(d)
    BY <1>2, <1>3, <1>5 DEF Line
  <2> QED
    BY <1>2, <1>3, <1>5, <1>7, <2>1, SameLine
<1>8. ASSUME Ordered PROVE LineOk(c)'
  <2>1. LineOk(c)
    BY <1>8 DEF Ordered
  <2>2. CASE Alive(c)
    <3> DEFINE s == (outbox[c] \o Waiting(c)) \o Unanswered(c)
    <3>1. s \in Seq(Item) /\ inbox[c] \in Seq(Item) /\ Line(c) \in Seq(Item) /\ Line(c) = s \o inbox[c]
      BY LineTyped DEF Line
    <3>2. Line(c)' = s \o Append(inbox[c], x)
      BY <1>2, <1>4, <1>5 DEF Line
    <3> HIDE DEF s
    <3>3. Line(c)' = Append(Line(c), x)
      BY <1>4, <3>1, <3>2, AppendEnd
    <3>4. Own(c, n, Line(c)) /\ Rising(Line(c))
          /\ (c \in dropped \/ (Gapless(Line(c)) /\ Len(Line(c)) = n))
      BY <2>1, <2>2 DEF LineOk, Good, n
    <3>5. /\ Len(Append(Line(c), x)) = Len(Line(c)) + 1
          /\ Own(c, n + 1, Append(Line(c), x)) /\ Rising(Append(Line(c), x))
          /\ c \in dropped \/ Gapless(Append(Line(c), x))
      BY <1>2, <3>1, <3>4, OneMore DEF x
    <3> QED
      BY <1>2, <1>3, <1>5, <2>2, <3>3, <3>4, <3>5 DEF LineOk, Good
  <2>3. CASE ~Alive(c)
    <3>1. Good(c, outbox[c]) /\ outbox[c] \in Seq(Item)
      BY <2>1, <2>3, LineTyped DEF LineOk
    <3>2. \A i \in 1 .. Len(outbox[c]) : outbox[c][i][2] \in Nat
      BY <3>1 DEF Item
    <3>3. Own(c, n + 1, outbox[c])
      BY <1>2, <3>1, <3>2 DEF Good, Own, n
    <3> QED
      BY <1>2, <1>3, <1>5, <2>3, <3>1, <3>3 DEF LineOk, Good
  <2> QED
    BY <2>2, <2>3
<1> QED
  BY <1>2, <1>5, <1>6, <1>7, <1>8 DEF Order, Plain, Ordered

LEMMA AcceptOrder ==
  ASSUME Inv, Order, NEW t \in Threads, Accept(t)
  PROVE  Order'
<1>1. /\ DOMAIN thread = Threads /\ Shape(thread[t]) /\ Numbered(thread[t], slot.counter)
      /\ thread[t].at = "idle" /\ sock = None
      /\ accepted \in 0 .. MaxConns /\ accepted < MaxConns
      /\ sock' = accepted + 1
      /\ UNCHANGED <<slot, armed, inbox, asked, outbox, proto, urgent, normal, dropped, mixed,
                     strays>>
  BY ThreadFacts DEF Accept, Inv, ProtoInv, ghost, env
<1>2. sock' \in Conns
  BY <1>1, HttpAssumption DEF Conns
<1>3. thread[t].stack = <<>>
  BY <1>1, ShapeOf DEF FreePlaces
<1>4. /\ thread'[t].at = "open" /\ thread'[t].stack = <<>> /\ thread'[t].pr = sock'
      /\ thread'[t].left = thread[t].left
      /\ \A u \in Threads \ {t} : thread'[u] = thread[u]
  BY <1>1, <1>3 DEF Accept, Shape
<1>5. Stage(thread[t]) = "other" /\ Stage(thread'[t]) = "other" /\ \A l : ~Holds(thread'[t], l)
  <2>1. thread[t].at \in FreePlaces /\ thread'[t].at \in FreePlaces
    BY <1>1, <1>4 DEF FreePlaces
  <2>2. Stage(thread[t]) = "other" /\ Stage(thread'[t]) = "other"
    BY <1>1, <1>4 DEF Stage, Given, SendPlaces, ClosePlaces
  <2> QED
    BY <2>1, <2>2, Free
<1>6. Ever' = Ever
  BY <1>1, <1>4 DEF Ever
<1>7. Numbers'
  <2>1. <<>> # <<"answer">>
    OBVIOUS
  <2>2. Numbered(thread'[t], slot.counter)
    BY <1>1, <1>4, <1>5, <2>1 DEF Numbered, UuidPlaces, SendPlaces, ClosePlaces
  <2>3. \A u \in Threads : Numbered(thread'[u], slot.counter)
    BY <1>4, <2>2 DEF Order, Plain, Numbers
  <2>4. Tasked(slot.counter)'
    BY <1>1 DEF Order, Plain, Numbers, Tasked
  <2> QED
    BY <1>1, <2>3, <2>4 DEF Order, Plain, Numbers
<1>8. Requested'
  BY <1>1, <1>2 DEF Order, Plain, Requested
<1>9. Attached'
  BY <1>1, <1>4, <1>5, <1>6 DEF Order, Plain, Attached
<1>10. ASSUME Ordered PROVE Ordered'
  <2>1. None \notin Conns
    BY DEF None, Conns
  <2>2. OneSocket'
    <3>1. \A c \in Conns : ~(proto[c].life # "none" /\ proto[c].uuid = slot.counter)
      BY <1>1, <1>10, <2>1 DEF Ordered, OneSocket
    <3>2. \A u \in Threads \ {t} : thread'[u].at \notin {"open", "name"}
      BY <1>1, <1>4, <1>10, <2>1 DEF Ordered, OneSocket, Inv, ThreadInv, Making
    <3> QED
      BY <1>1, <1>4, <3>1, <3>2 DEF OneSocket
  <2>3. ASSUME NEW c \in Conns PROVE LineOk(c)'
    <3>1. Gave(c)' <=> Gave(c)
      BY <1>4, <1>5, GivenStage DEF Gave
    <3>2. Unanswered(c)' = Unanswered(c) /\ Waiting(c)' = Waiting(c) /\ (Alive(c)' <=> Alive(c))
      BY <1>1, <1>6, <3>1 DEF Unanswered, Waiting, Alive
    <3> QED
      BY <1>1, <1>10, <3>2, SameLine DEF Line
  <2>4. Bounded'
    <3>1. Todo(thread'[t]) = 0 /\ Len(slot.packets) \in Nat
      BY <1>5 DEF Todo, Order, Plain, Requested
    <3>2. \A u \in Threads : thread'[u].pr = slot.protocol =>
             Len(slot.packets) + Todo(thread'[u]) <= Limit
      BY <1>4, <1>10, <3>1 DEF Ordered, Bounded
    <3> QED
      BY <1>1, <1>10, <3>2 DEF Ordered, Bounded, Limit
  <2> QED
    BY <2>2, <2>3, <2>4 DEF Ordered
<1> QED
  BY <1>1, <1>7, <1>8, <1>9, <1>10 DEF Order, Plain

-----------------------------------------------------------------------------
(* Opening and closing.                                                    *)

(* What was written is the beginning of the line.                          *)
LEMMA Written ==
  ASSUME Inv, Order, Ordered, NEW c \in Conns
  PROVE  Good(c, outbox[c])
<1>1. LineOk(c)
  BY DEF Ordered
<1>2. CASE ~Alive(c)
  BY <1>1, <1>2 DEF LineOk
<1>3. CASE Alive(c)
  <2> DEFINE s == outbox[c] \o Waiting(c)
             u == s \o Unanswered(c)
  <2>1. /\ outbox[c] \in Seq(Item) /\ Waiting(c) \in Seq(Item) /\ Unanswered(c) \in Seq(Item)
        /\ inbox[c] \in Seq(Item) /\ asked[c] \in Nat
    BY LineTyped
  <2>2. s \in Seq(Item) /\ u \in Seq(Item)
    BY <2>1
  <2>3. Good(c, u \o inbox[c])
    BY <1>1, <1>3 DEF LineOk, Line
  <2> HIDE DEF u
  <2>4. Good(c, u)
    BY <2>1, <2>2, <2>3, Beginning DEF Good
  <2>5. Good(c, s \o Unanswered(c))
    BY <2>4 DEF u
  <2> HIDE DEF s
  <2>6. Good(c, s)
    BY <2>1, <2>2, <2>5, Beginning DEF Good
  <2>7. Good(c, outbox[c] \o Waiting(c))
    BY <2>6 DEF s
  <2> QED
    BY <2>1, <2>7, Beginning DEF Good
<1> QED
  BY <1>2, <1>3

(* The next uuid is as good as the ones before.                            *)
LEMMA NumberedMore ==
  ASSUME NEW th, NEW n \in Nat, Numbered(th, n)
  PROVE  Numbered(th, n + 1)
<1>1. /\ n + 1 >= 1 /\ \A k \in 1 .. n : k \in 1 .. n + 1 /\ k < n + 1
  OBVIOUS
<1>2. "shut" \in ClosePlaces
  BY DEF ClosePlaces
<1> QED
  BY <1>1, <1>2 DEF Numbered

LEMMA ClearOrder ==
  ASSUME Inv, Order, NEW t \in Threads, Open(t) \/ ClearClosed(t) \/ Reopen(t)
  PROVE  Order'
<1> DEFINE n == slot.counter
<1>1. /\ DOMAIN thread = Threads /\ Shape(thread[t]) /\ Numbered(thread[t], n) /\ n \in Nat
      /\ \E open \in BOOLEAN : ClearFd(open)
      /\ UNCHANGED <<sock, armed, inbox, asked, outbox, proto, urgent, dropped>>
      /\ mixed' \in BOOLEAN /\ (mixed => mixed')
  <2>1. DOMAIN thread = Threads /\ Shape(thread[t]) /\ Numbered(thread[t], n) /\ n \in Nat
    BY ThreadFacts
  <2>2. mixed' \in BOOLEAN /\ (mixed => mixed')
    <3>1. CASE Open(t)
      BY <3>1, MixedBool DEF Open
    <3>2. CASE ClearClosed(t)
      BY <3>2, MixedBool DEF ClearClosed
    <3>3. CASE Reopen(t)
      BY <3>3, MixedBool DEF Reopen
    <3> QED
      BY <3>1, <3>2, <3>3
  <2>3. UNCHANGED <<sock, armed, inbox, asked, outbox, proto, urgent, dropped>>
    BY DEF Open, ClearClosed, Reopen, env
  <2>4. \E open \in BOOLEAN : ClearFd(open)
    BY DEF Open, ClearClosed, Reopen
  <2> QED
    BY <2>1, <2>2, <2>3, <2>4
<1>2. /\ slot'.counter = n + 1 /\ slot'.protocol = None /\ slot'.packets = <<>> /\ strays' = 0
  BY <1>1 DEF ClearFd
<1>3. PICK place :
        /\ Goto(t, place)
        /\ \/ thread[t].at = "open" /\ place = "name"
           \/ thread[t].at = "clear" /\ place = "shut"
           \/ thread[t].at = "reopen" /\ place = "push ping"
  BY DEF Open, ClearClosed, Reopen
<1>4. /\ thread'[t].at = place /\ thread'[t].stack = thread[t].stack
      /\ thread'[t].pr = thread[t].pr /\ thread'[t].uuid = thread[t].uuid
      /\ thread'[t].target = thread[t].target /\ thread'[t].left = thread[t].left
      /\ \A u \in Threads \ {t} : thread'[u] = thread[u]
  BY <1>1, <1>3 DEF Goto, Shape
<1> HIDE DEF n
<1>5. Stage(thread'[t]) = Stage(thread[t])
  <2>1. place = "name" => Stage(thread[t]) = "other" /\ Stage(thread'[t]) = "other"
    BY <1>3, <1>4 DEF Stage, Given, SendPlaces, ClosePlaces
  <2>2. place = "push ping" => Stage(thread[t]) = "other" /\ Stage(thread'[t]) = "other"
    BY <1>3, <1>4 DEF Stage, Given, SendPlaces, ClosePlaces
  <2>3. place = "shut" => Stage(thread[t]) = Stage(thread'[t])
    BY <1>3, <1>4 DEF Stage, Given, SendPlaces, ClosePlaces
  <2> QED
    BY <1>3, <2>1, <2>2, <2>3
<1>6. \A l : Holds(thread'[t], l) => Holds(thread[t], l)
  BY <1>3, <1>4 DEF Holds, TaskPlaces, WritePlaces, StatePlaces, SendPlaces, ClosePlaces
<1>7. Ever' = Ever
  BY <1>1, <1>3, <1>4 DEF Ever
<1>8. Numbers'
  <2>1. \A c \in Conns : IF proto'[c].life = "none" THEN proto'[c].uuid = 0
                         ELSE proto'[c].uuid \in 1 .. n + 1
    BY <1>1 DEF Order, Plain, Numbers, n
  <2>2. Tasked(slot.counter)'
    <3>1. Tasked(n) /\ normal \in Seq(TaskSet)
      BY DEF Order, Plain, Numbers, Inv, QueueInv, n
    <3>2. CASE normal' = normal
      BY <1>1, <1>2, <3>1, <3>2 DEF Tasked
    <3>3. CASE slot.protocol # None /\ PushNormal(Task("on_close", slot.protocol, FALSE))
      <4>1. PICK k \in TaskSet : k.kind = "on_close" /\ normal' = Append(normal, k)
        <5>1. slot.protocol \in Nat
          BY <3>3 DEF Inv, SlotInv, Ever, Conns
        <5>2. Task("on_close", slot.protocol, FALSE) \in TaskSet
              /\ Task("on_close", slot.protocol, FALSE).kind = "on_close"
          BY <5>1 DEF Task, TaskSet
        <5> QED
          BY <3>3, <5>2 DEF PushNormal
      <4>2. \A i \in DOMAIN normal' : normal'[i].kind # "on_close" =>
              i \in DOMAIN normal /\ normal'[i] = normal[i]
        BY <3>1, <4>1, Appended
      <4> QED
        BY <1>1, <1>2, <3>1, <4>2 DEF Tasked
    <3> QED
      BY <1>1, <3>2, <3>3 DEF ClearFd
  <2>3. ASSUME NEW u \in Threads PROVE Numbered(thread'[u], n + 1)
    <3>1. Numbered(thread[u], n)
      BY DEF Order, Plain, Numbers, n
    <3>2. CASE u # t
      <4>1. thread'[u] = thread[u]
        BY <1>4, <3>2
      <4> QED
        BY <1>1, <3>1, <4>1, NumberedMore
    <3>3. CASE u = t
      <4>1. /\ thread'[t].at \in UuidPlaces \/ Holds(thread'[t], "task") =>
                 thread'[t].uuid \in 1 .. n + 1
        <5>1. thread'[t].at \notin UuidPlaces
          BY <1>3, <1>4 DEF UuidPlaces
        <5> QED
          BY <1>1, <1>4, <1>6, <5>1 DEF Numbered
      <4>2. thread'[t].at \in SendPlaces \cup ClosePlaces =>
              thread'[t].target \in 1 .. n + 1 /\ thread'[t].target < n + 1
        <5>1. thread'[t].at \in SendPlaces \cup ClosePlaces => thread[t].at \in ClosePlaces
          BY <1>3, <1>4 DEF SendPlaces, ClosePlaces
        <5>2. thread'[t].at \in SendPlaces \cup ClosePlaces => thread[t].target \in 1 .. n
          BY <1>1, <5>1 DEF Numbered
        <5> QED
          BY <1>1, <1>4, <5>2
      <4>3. thread'[t].at = "shut" => thread'[t].at \in ClosePlaces
        BY DEF ClosePlaces
      <4> QED
        BY <1>1, <1>4, <1>5, <3>3, <4>1, <4>2, <4>3 DEF Numbered
    <3> QED
      BY <3>2, <3>3
  <2>4. n + 1 >= 1
    BY <1>1
  <2>5. \A u \in Threads : Numbered(thread[u], slot.counter)'
    BY <1>2, <2>3
  <2>6. \A c \in Conns : IF proto'[c].life = "none" THEN proto'[c].uuid = 0
                         ELSE proto'[c].uuid \in 1 .. slot'.counter
    BY <1>2, <2>1
  <2> QED
    BY <1>2, <2>2, <2>4, <2>5, <2>6 DEF Numbers
<1>9. Requested'
  BY <1>1, <1>2 DEF Order, Plain, Requested
<1>10. Attached'
  <2>1. \A c \in Ever : proto'[c].uuid # n + 1
    <3>1. \A c \in Conns : proto[c].life # "none" => proto[c].uuid \in 1 .. n
      BY DEF Order, Plain, Numbers, n
    <3> QED
      BY <1>1, <3>1 DEF Ever
  <2>2. \A u \in Threads : /\ \A l \in Locks : Holds(thread'[u], l) => thread'[u].pr \in Ever
                           /\ Stage(thread'[u]) # "other" => proto[thread'[u].pr].buf # <<>>
    BY <1>4, <1>5, <1>6 DEF Order, Plain, Attached
  <2> QED
    BY <1>1, <1>2, <1>7, <2>1, <2>2 DEF Attached
<1>11. ASSUME Ordered PROVE Ordered'
  <2>1. OneSocket'
    <3>1. \A c \in Conns : ~(proto'[c].life # "none" /\ proto'[c].uuid = n + 1)
      <4>1. \A c \in Conns : proto[c].life # "none" => proto[c].uuid \in 1 .. n
        BY DEF Order, Plain, Numbers, n
      <4> QED
        BY <1>1, <4>1
    <3>2. \A u \in Threads : thread'[u].at \in {"open", "name"} =>
            thread[u].at \in {"open", "name"} /\ thread'[u].pr = thread[u].pr
      BY <1>3, <1>4
    <3> QED
      BY <1>1, <1>2, <1>11, <3>1, <3>2 DEF Ordered, OneSocket
  <2>2. ASSUME NEW c \in Conns PROVE LineOk(c)'
    <3>1. slot.protocol # None => slot.protocol \in Ever
      BY DEF Inv, SlotInv
    <3>2. None \notin Conns
      BY DEF None, Conns
    <3>3. Alive(c)' <=> c \notin Ever
      BY <1>2, <1>7, <3>2 DEF Alive
    <3>4. CASE c \in Ever
      <4>1. Good(c, outbox[c])
        BY <1>11, Written
      <4> QED
        BY <1>1, <3>3, <3>4, <4>1 DEF LineOk, Good
    <3>5. CASE c \notin Ever
      <4>1. Gave(c)' <=> Gave(c)
        BY <1>4, <1>5, GivenStage DEF Gave
      <4>2. Waiting(c) = <<>> /\ Waiting(c)' = <<>>
        BY <1>2, <3>1, <3>2, <3>5 DEF Waiting
      <4>3. Line(c)' = Line(c) /\ Alive(c) /\ Alive(c)'
        BY <1>1, <3>3, <3>5, <4>1, <4>2 DEF Line, Unanswered, Alive
      <4> QED
        BY <1>1, <1>11, <4>3, SameLine
    <3> QED
      BY <3>4, <3>5
  <2>3. Bounded'
    <3>1. ASSUME NEW u \in Threads, thread'[u].pr = None PROVE Todo(thread'[u]) = 0
      <4>1. Stage(thread'[u]) = Stage(thread[u]) /\ thread'[u].pr = thread[u].pr
        BY <1>4, <1>5
      <4>2. Stage(thread[u]) = "other"
        BY <3>1, <4>1, Working DEF None, Conns
      <4> QED
        BY <4>1, <4>2 DEF Todo
    <3>2. Limit' = MaxPending + Pipeline /\ MaxPending + Pipeline \in Nat
      BY <1>2, HttpAssumption DEF Limit
    <3>3. Len(<<>>) = 0
      OBVIOUS
    <3> QED
      BY <1>2, <3>1, <3>2, <3>3 DEF Bounded
  <2> QED
    BY <2>1, <2>2, <2>3 DEF Ordered
<1> QED
  BY <1>1, <1>8, <1>9, <1>10, <1>11 DEF Order, Plain

LEMMA NameOrder ==
  ASSUME Inv, Order, NEW t \in Threads, Name(t)
  PROVE  Order'
<1>1. /\ DOMAIN thread = Threads /\ Shape(thread[t]) /\ Numbered(thread[t], slot.counter)
      /\ slot.counter \in Nat /\ thread[t].at = "name" /\ Making(thread[t])
      /\ ThreadInv(t) /\ thread[t].stack = <<>>
  BY ThreadFacts, ShapeOf DEF Name, Making, FreePlaces, Inv
<1>2. slot.counter >= 1 /\ thread[t].left \in Nat
  BY <1>1 DEF Numbered
<1>3. UNCHANGED <<slot, sock, armed, inbox, asked, outbox, urgent, normal, dropped, mixed, strays>>
  BY DEF Name, env, ghost
<1>4. PICK c \in Conns : c = thread[t].pr /\ proto[c].life = "none"
  BY <1>1 DEF ThreadInv
<1>5. /\ proto'[c].uuid = slot.counter /\ proto'[c].life = "live" /\ proto'[c].buf = proto[c].buf
      /\ \A d \in Conns \ {c} : proto'[d] = proto[d]
  BY <1>4 DEF Name, Inv, ProtoInv, ProtoShape
<1>6. /\ thread'[t].at = "attach" /\ thread'[t].stack = <<>> /\ thread'[t].pr = c
      /\ thread'[t].left = thread[t].left
      /\ \A u \in Threads \ {t} : thread'[u] = thread[u]
  BY <1>1, <1>4 DEF Name, Goto, Shape
<1>7. /\ Stage(thread[t]) = "other" /\ Stage(thread'[t]) = "other"
      /\ Numbered(thread'[t], slot.counter) /\ \A l : ~Holds(thread'[t], l)
  <2>1. thread'[t].at \in FreePlaces /\ thread'[t].at \notin UuidPlaces
    BY <1>6 DEF FreePlaces, UuidPlaces
  <2>2. Stage(thread[t]) = "other"
    BY <1>1 DEF Stage, Given, SendPlaces, ClosePlaces
  <2> QED
    BY <1>1, <1>2, <1>6, <2>1, <2>2, FreeNumbered, Free
<1>8. Ever' = Ever /\ c \notin Ever
  BY <1>4, <1>5, <1>6 DEF Ever
<1>9. /\ slot.protocol # None => slot.protocol \in Ever
      /\ slot.protocol # c
  BY <1>8 DEF Inv, SlotInv, None, Conns
<1>10. Numbers'
  <2>1. \A d \in Conns : IF proto'[d].life = "none" THEN proto'[d].uuid = 0
                         ELSE proto'[d].uuid \in 1 .. slot.counter
    <3>1. slot.counter \in 1 .. slot.counter
      BY <1>1, <1>2
    <3> QED
      BY <1>5, <3>1 DEF Order, Plain, Numbers
  <2>2. \A u \in Threads : Numbered(thread'[u], slot.counter)
    BY <1>6, <1>7 DEF Order, Plain, Numbers
  <2>3. Tasked(slot.counter)'
    BY <1>3, TasksKept
  <2> QED
    BY <1>3, <2>1, <2>2, <2>3 DEF Order, Plain, Numbers
<1>11. Requested'
  <2>1. \A d \in Conns : proto'[d].buf = proto[d].buf
    BY <1>5
  <2> QED
    BY <1>3, <2>1 DEF Order, Plain, Requested
<1>12. Attached'
  <2>1. Ever \subseteq Conns \ {c}
    BY <1>8 DEF Ever
  <2>2. ASSUME NEW u \in Threads, Stage(thread'[u]) # "other"
        PROVE  proto'[thread'[u].pr].buf # <<>>
    <3>1. thread'[u] = thread[u] /\ thread[u].pr \in Conns /\ thread[u].pr # c
      BY <1>6, <1>7, <1>8, <2>2, Working
    <3> QED
      BY <1>5, <2>2, <3>1 DEF Order, Plain, Attached
  <2>3. \A u \in Threads : \A l \in Locks : Holds(thread'[u], l) => thread'[u].pr \in Ever
    BY <1>6, <1>7 DEF Order, Plain, Attached
  <2> QED
    BY <1>3, <1>5, <1>8, <1>9, <2>1, <2>2, <2>3 DEF Order, Plain, Attached
<1>13. ASSUME Ordered PROVE Ordered'
  <2>1. OneSocket'
    <3>1. sock = c
      BY <1>1, <1>4, <1>13 DEF Ordered, OneSocket
    <3>2. \A u \in Threads : thread'[u].at \in {"open", "name"} => thread'[u] = thread[u]
      BY <1>6
    <3> QED
      BY <1>3, <1>5, <1>8, <1>13, <3>1, <3>2 DEF Ordered, OneSocket
  <2>2. ASSUME NEW d \in Conns PROVE LineOk(d)'
    <3>1. Gave(d)' <=> Gave(d)
      BY <1>6, <1>7, GivenStage DEF Gave
    <3>2. proto'[d].buf = proto[d].buf
      BY <1>5
    <3>3. Line(d)' = Line(d) /\ (Alive(d)' <=> Alive(d))
      BY <1>3, <1>8, <3>1, <3>2 DEF Line, Waiting, Unanswered, Alive
    <3> QED
      BY <1>3, <1>13, <3>3, SameLine
  <2>3. Bounded'
    <3>1. Todo(thread'[t]) = 0 /\ Len(slot.packets) \in Nat
      BY <1>7 DEF Todo, Order, Plain, Requested
    <3>2. \A u \in Threads : thread'[u].pr = slot.protocol =>
             Len(slot.packets) + Todo(thread'[u]) <= Limit
      BY <1>6, <1>13, <3>1 DEF Ordered, Bounded
    <3> QED
      BY <1>3, <1>13, <3>2 DEF Ordered, Bounded, Limit
  <2> QED
    BY <2>1, <2>2, <2>3 DEF Ordered
<1> QED
  BY <1>3, <1>10, <1>11, <1>12, <1>13 DEF Order, Plain

LEMMA AttachOrder ==
  ASSUME Inv, Order, NEW t \in Threads, Attach(t)
  PROVE  Order'
<1>1. /\ DOMAIN thread = Threads /\ Numbered(thread[t], slot.counter)
      /\ slot.counter \in Nat /\ thread[t].at = "attach" /\ Making(thread[t])
      /\ ThreadInv(t) /\ Rest(t)
  BY ThreadFacts DEF Attach, Making, Inv
<1>2. slot.counter >= 1
  BY <1>1 DEF Numbered
<1>3. UNCHANGED <<sock, inbox, asked, outbox, proto, urgent, dropped, mixed, strays>>
  BY DEF Attach, env, ghost
<1>4. PICK c \in Conns : c = thread[t].pr /\ proto[c].life = "live"
  BY <1>1 DEF ThreadInv
<1>5. thread'[t] = Idle /\ \A u \in Threads \ {t} : thread'[u] = thread[u]
  BY <1>1 DEF Rest
<1>6. /\ Stage(thread[t]) = "other" /\ Stage(thread'[t]) = "other"
      /\ Numbered(thread'[t], slot.counter) /\ ~Special(thread'[t])
      /\ \A l : ~Holds(thread'[t], l)
  <2>1. Stage(thread[t]) = "other"
    BY <1>1 DEF Stage, Given, SendPlaces, ClosePlaces
  <2> QED
    BY <1>1, <1>5, <2>1, IdleNumbered, IdleShape
<1>7. c \notin Ever /\ Ever' = Ever \cup {c}
  <2>1. thread'[t].at # "attach"
    BY <1>5 DEF Idle
  <2>2. \A u \in Threads \ {t} : ~(thread[u].at = "attach" /\ thread[u].pr = c)
    BY <1>1, <1>4 DEF Inv, Apart, Making
  <2> QED
    BY <1>1, <1>3, <1>4, <1>5, <2>1, <2>2 DEF Ever
<1>8. /\ slot.protocol # None => slot.protocol \in Ever /\ proto[slot.protocol].life # "none"
                                 /\ slot.protocol \in Conns
      /\ slot.protocol # c /\ c # None
  BY <1>7 DEF Inv, SlotInv, None, Conns, Ever
<1>9. /\ slot'.counter = slot.counter /\ slot'.packets = slot.packets
      /\ slot'.protocol = IF Valid(proto[c].uuid) THEN c ELSE slot.protocol
  BY <1>4 DEF Attach, Inv, SlotInv
<1>10. Numbers'
  <2>1. \A u \in Threads : Numbered(thread'[u], slot.counter)
    BY <1>5, <1>6 DEF Order, Plain, Numbers
  <2>2. Tasked(slot.counter)'
    <3>1. CASE UNCHANGED normal
      BY <1>3, <1>9, <3>1, TasksKept
    <3>2. ASSUME NEW d \in Conns, PushNormal(Task("on_close", d, FALSE))
          PROVE  Tasked(slot.counter)'
      <4>1. d \in Nat
        BY DEF Conns
      <4> QED
        BY <1>3, <1>9, <3>2, <4>1, TaskPushed
    <3> QED
      BY <1>4, <1>8, <3>1, <3>2 DEF Attach
  <2> QED
    BY <1>2, <1>3, <1>9, <2>1, <2>2 DEF Order, Plain, Numbers
<1>11. Requested'
  BY <1>3, <1>9 DEF Order, Plain, Requested
<1>12. Attached'
  <2>1. slot'.protocol # None => proto[slot'.protocol].uuid = slot.counter
    BY <1>9 DEF Order, Plain, Attached, Valid
  <2>2. \A d \in Ever' : proto[d].uuid = slot.counter => slot'.protocol # None
    BY <1>7, <1>8, <1>9 DEF Order, Plain, Attached, Valid
  <2>3. slot'.packets # <<>> => slot'.protocol # None
    BY <1>8, <1>9 DEF Order, Plain, Attached
  <2>4. \A u \in Threads :
          /\ \A l \in Locks : Holds(thread'[u], l) => thread'[u].pr \in Ever'
          /\ Stage(thread'[u]) # "other" => proto[thread'[u].pr].buf # <<>>
    BY <1>5, <1>6, <1>7 DEF Order, Plain, Attached
  <2> QED
    BY <1>3, <1>9, <2>1, <2>2, <2>3, <2>4 DEF Attached
<1>13. ASSUME Ordered PROVE Ordered'
  <2>1. Valid(proto[c].uuid) => sock = c /\ slot.protocol = None /\ slot.packets = <<>>
    <3>1. ASSUME Valid(proto[c].uuid) PROVE sock = c
      BY <1>4, <1>13, <3>1 DEF Ordered, OneSocket, Valid
    <3>2. slot.protocol # None => sock = slot.protocol
      BY <1>8, <1>13 DEF Ordered, OneSocket, Order, Plain, Attached
    <3> QED
      BY <1>8, <3>1, <3>2 DEF Order, Plain, Attached
  <2>2. OneSocket'
    <3>1. ASSUME NEW d \in Conns, proto[d].life # "none", proto[d].uuid = slot.counter
          PROVE  sock = d /\ (d \in Ever' => slot'.protocol = d)
      <4>1. sock = d /\ (d \in Ever => slot.protocol = d)
        BY <1>13, <3>1 DEF Ordered, OneSocket
      <4> QED
        BY <1>7, <1>8, <1>9, <2>1, <3>1, <4>1 DEF Valid
    <3>2. \A u \in Threads : thread'[u].at \in {"open", "name"} => thread'[u] = thread[u]
      BY <1>5, <1>6 DEF Special, Making
    <3> QED
      BY <1>3, <1>9, <1>13, <3>1, <3>2 DEF Ordered, OneSocket
  <2>3. ASSUME NEW d \in Conns PROVE LineOk(d)'
    <3>1. Gave(d)' <=> Gave(d)
      BY <1>5, <1>6, GivenStage DEF Gave
    <3>2. Unanswered(d)' = Unanswered(d)
      BY <1>3, <3>1 DEF Unanswered
    <3>3. CASE d = c /\ ~Valid(proto[c].uuid)
      <4>1. ~Alive(d)'
        BY <1>7, <1>8, <1>9, <3>3 DEF Alive
      <4>2. Good(d, outbox[d])
        BY <1>13, Written
      <4> QED
        BY <1>3, <4>1, <4>2 DEF LineOk, Good
    <3>4. CASE d # c \/ Valid(proto[c].uuid)
      <4>1. Waiting(d)' = Waiting(d)
        BY <1>8, <1>9, <2>1, <3>4 DEF Waiting
      <4>2. Alive(d)' <=> Alive(d)
        <5>1. CASE d = c
          <6>1. slot'.protocol = c
            BY <1>9, <3>4, <5>1
          <6> QED
            BY <1>7, <5>1, <6>1 DEF Alive
        <5>2. CASE d # c
          <6>1. d \in Ever' <=> d \in Ever
            BY <1>7, <5>2
          <6>2. d = slot'.protocol <=> d = slot.protocol
            <7>1. d # None
              BY DEF None, Conns
            <7> QED
              BY <1>9, <2>1, <5>2, <7>1
          <6> QED
            BY <6>1, <6>2 DEF Alive
        <5> QED
          BY <5>1, <5>2
      <4>3. Line(d)' = Line(d)
        BY <1>3, <3>2, <4>1 DEF Line
      <4> QED
        BY <1>3, <1>13, <4>2, <4>3, SameLine
    <3> QED
      BY <3>3, <3>4
  <2>4. Bounded'
    <3>1. ASSUME NEW u \in Threads, thread'[u].pr = slot'.protocol
          PROVE  Len(slot.packets) + Todo(thread'[u]) <= Limit
      <4>1. Len(slot.packets) \in Nat /\ Len(slot.packets) <= Limit
        BY <1>13 DEF Order, Plain, Requested, Ordered, Bounded
      <4>2. CASE Stage(thread'[u]) = "other"
        BY <4>1, <4>2 DEF Todo
      <4>3. CASE Stage(thread'[u]) # "other"
        <5>1. thread'[u] = thread[u] /\ u # t
          BY <1>5, <1>6, <4>3
        <5>2. thread[u].pr \in Ever
          BY <4>3, <5>1, Working
        <5>3. thread[u].pr = slot.protocol
          BY <1>7, <1>9, <3>1, <5>1, <5>2
        <5> QED
          BY <1>13, <5>1, <5>3 DEF Ordered, Bounded
      <4> QED
        BY <4>2, <4>3
    <3> QED
      BY <1>3, <1>9, <1>13, <3>1 DEF Ordered, Bounded, Limit
  <2> QED
    BY <2>2, <2>3, <2>4 DEF Ordered
<1> QED
  BY <1>3, <1>10, <1>11, <1>12, <1>13 DEF Order, Plain

(* A quiet step that pushes no task.                                       *)
LEMMA QuietKept ==
  ASSUME Inv, Order, NEW t \in Threads, Quiet(t), slot'.counter = slot.counter,
         \A c \in Conns : proto'[c].uuid = proto[c].uuid,
         Numbered(thread'[t], slot.counter), UNCHANGED <<normal, urgent>>,
         armed' \subseteq armed, mixed => mixed'
  PROVE  /\ Kept(t) /\ Ever' = Ever
         /\ \A c : Alive(c)' <=> Alive(c)
<1>1. Tasked(slot.counter)' /\ (armed' # {} => slot.counter >= 1)
  BY TasksKept DEF Order, Plain, Numbers
<1>2. /\ slot'.protocol = slot.protocol
      /\ \A c \in Conns : proto'[c].life = proto[c].life
      /\ \A u \in Threads \ {t} : thread'[u] = thread[u]
      /\ ~Making(thread[t]) /\ ~Making(thread'[t])
      /\ LocksKept(t)
  BY DEF Quiet, QuietSlot, QuietProto, CalmProto, QuietThreads, CalmThreads, Special, LocksKept
<1>3. Kept(t)
  BY <1>1, <1>2 DEF Kept
<1> QED
  BY <1>3, KeptEver

LEMMA CloseSocketOrder ==
  ASSUME Inv, Order, NEW t \in Threads, CloseSocket(t)
  PROVE  Order'
<1>1. /\ Quiet(t) /\ thread[t].at = "shut"
      /\ Numbered(thread[t], slot.counter) /\ slot.counter \in Nat
  BY CloseQuiet, ThreadFacts DEF CloseSocket
<1>2. SameStage(t)
  BY <1>1, ReturnSame DEF CloseSocket, ClosePlaces
<1>3. Onward(t)
  BY <1>1, <1>2, QuietOnward
<1>4. SameLines /\ sock' = None
  <2>1. mixed' \in BOOLEAN /\ (mixed => mixed')
    BY MixedBool DEF CloseSocket
  <2> QED
    BY <2>1 DEF CloseSocket, SameLines, env
<1>5. Tasked(slot.counter)' /\ armed' = {}
  BY <1>4, TasksKept DEF CloseSocket, SameLines
<1>6. /\ Kept(t) /\ Requested'
      /\ \A u \in Threads : Stage(thread'[u]) # "other" => proto'[thread'[u].pr].buf # <<>>
  BY <1>3, <1>4, <1>5, StillKept
<1>7. Ever' = Ever
  BY <1>6, KeptEver
<1>8. Ordered => (\A c \in Conns : LineOk(c)') /\ Bounded'
  BY <1>3, <1>4, <1>7, StillLines
<1>9. ASSUME Ordered, ~mixed' PROVE OneSocket'
  <2>1. thread[t].target < slot.counter /\ thread[t].target \in 1 .. slot.counter
    BY <1>1 DEF Numbered, ClosePlaces
  <2>2. sock # None => proto[sock].uuid = thread[t].target
    BY <1>9 DEF CloseSocket, SockUuid
  <2>3. None \notin Conns
    BY DEF None, Conns
  <2>4. \A c \in Conns : ~(proto[c].life # "none" /\ proto[c].uuid = slot.counter)
    BY <1>1, <1>9, <2>1, <2>2, <2>3 DEF Ordered, OneSocket
  <2>5. ASSUME NEW u \in Threads, thread[u].at \in {"open", "name"} PROVE FALSE
    <3>1. sock = thread[u].pr /\ sock \in Conns /\ proto[sock].life = "none"
      BY <1>9, <2>5 DEF Ordered, OneSocket, Inv, ThreadInv, Making
    <3>2. proto[sock].uuid = 0
      BY <3>1 DEF Order, Plain, Numbers
    <3> QED
      BY <1>1, <2>1, <2>2, <2>3, <3>1, <3>2
  <2>6. \A u \in Threads : thread'[u].at \in {"open", "name"} => thread'[u] = thread[u]
    BY <1>6 DEF Kept, Making
  <2> QED
    BY <1>4, <2>4, <2>5, <2>6 DEF OneSocket, SameLines
<1>10. slot'.packets # <<>> => slot.protocol # None
  BY <1>4 DEF SameLines, Order, Plain, Attached
<1> QED
  BY <1>6, <1>8, <1>9, <1>10, KeptOrder

(* A piece of a line is thrown away.                                       *)
LEMMA PieceCut ==
  ASSUME NEW o \in Seq(Item), NEW w \in Seq(Item), NEW b \in Seq(Item), NEW i \in Seq(Item),
         NEW c, NEW n \in Nat, Own(c, n, ((o \o w) \o b) \o i), Rising(((o \o w) \o b) \o i)
  PROVE  /\ Own(c, n, ((o \o <<>>) \o b) \o i) /\ Rising(((o \o <<>>) \o b) \o i)
         /\ Own(c, n, ((o \o w) \o <<>>) \o i) /\ Rising(((o \o w) \o <<>>) \o i)
<1>1. o \o w \in Seq(Item) /\ b \o i \in Seq(Item) /\ o \o b \in Seq(Item)
  OBVIOUS
<1>2. ((o \o w) \o b) \o i = (o \o w) \o (b \o i)
  BY <1>1, ConcatAssociative
<1>3. o \o <<>> = o /\ (o \o w) \o <<>> = o \o w
  BY <1>1, ConcatEmptySeq
<1>4. (o \o b) \o i = o \o (b \o i)
  BY ConcatAssociative
<1>5. Own(c, n, o \o (b \o i)) /\ Rising(o \o (b \o i))
  BY <1>1, <1>2, CutOut
<1>6. Own(c, n, (o \o w) \o i) /\ Rising((o \o w) \o i)
  BY <1>1, CutOut
<1> QED
  BY <1>3, <1>4, <1>5, <1>6

LEMMA DropPacketsOrder ==
  ASSUME Inv, Order, NEW t \in Threads, DropPackets(t)
  PROVE  Order'
<1>1. /\ Quiet(t) /\ DOMAIN slot = DOMAIN slot'
      /\ slot'.counter = slot.counter /\ slot'.protocol = slot.protocol
      /\ slot'.packets = <<>>
      /\ UNCHANGED <<sock, armed, inbox, asked, outbox, proto, urgent, normal, strays>>
      /\ mixed' \in BOOLEAN /\ (mixed => mixed')
  BY CloseQuiet, MixedBool DEF DropPackets, Inv, SlotInv, env
<1>2. SameStage(t)
  BY GotoSame DEF DropPackets, Alike, ClosePlaces
<1>3. /\ Kept(t) /\ Ever' = Ever
      /\ \A c : Alive(c)' <=> Alive(c)
  BY <1>1, <1>2, QuietKept DEF SameStage
<1>4. Requested'
  BY <1>1 DEF Order, Plain, Requested
<1>5. ASSUME NEW u \in Threads, Stage(thread'[u]) # "other"
      PROVE  proto'[thread'[u].pr].buf # <<>>
  BY <1>1, <1>2, <1>3, <1>5 DEF SameStage, Kept, Order, Plain, Attached
<1>6. ASSUME Ordered, NEW c \in Conns PROVE LineOk(c)'
  <2>1. Unanswered(c)' = Unanswered(c) /\ Waiting(c)' = <<>>
    <3>1. Gave(c)' <=> Gave(c)
      BY <1>2, <1>3, SameGave DEF Kept
    <3> QED
      BY <1>1, <3>1 DEF Unanswered, Waiting
  <2>2. CASE c = slot.protocol /\ slot.packets # <<>>
    <3>1. /\ outbox[c] \in Seq(Item) /\ inbox[c] \in Seq(Item)
          /\ Waiting(c) \in Seq(Item) /\ Unanswered(c) \in Seq(Item) /\ asked[c] \in Nat
      BY LineTyped
    <3>2. Good(c, Line(c)) /\ Alive(c)
      BY <1>6, <2>2 DEF Ordered, LineOk, Alive
    <3>3. Own(c, asked[c], Line(c)') /\ Rising(Line(c)')
      BY <1>1, <2>1, <3>1, <3>2, PieceCut DEF Good, Line
    <3>4. c \in dropped'
      BY <2>2 DEF DropPackets
    <3> QED
      BY <1>1, <1>3, <3>2, <3>3, <3>4 DEF LineOk, Good
  <2>3. CASE ~(c = slot.protocol /\ slot.packets # <<>>)
    <3>1. Waiting(c) = <<>>
      BY <2>3 DEF Waiting
    <3>2. Line(c)' = Line(c)
      BY <1>1, <2>1, <3>1 DEF Line
    <3>3. c \in dropped => c \in dropped'
      BY DEF DropPackets
    <3> QED
      BY <1>1, <1>3, <1>6, <3>2, <3>3, SameLine
  <2> QED
    BY <2>2, <2>3
<1>7. ASSUME Ordered PROVE Bounded'
  <2>1. \A u \in Threads : thread'[u].pr = slot'.protocol =>
           Todo(thread'[u]) \in Nat /\ Len(slot.packets) + Todo(thread'[u]) <= Limit
    BY <1>1, <1>2, <1>3, <1>7, SameTodo DEF Kept
  <2>2. Len(slot.packets) \in Nat /\ Len(slot.packets) <= Limit /\ Limit \in Nat
    BY <1>7, HttpAssumption DEF Order, Plain, Requested, Ordered, Bounded, Limit
  <2>3. Len(<<>>) = 0 /\ Limit' = Limit
    BY <1>1 DEF Limit
  <2> QED
    BY <1>1, <2>1, <2>2, <2>3 DEF Bounded
<1> QED
  BY <1>1, <1>3, <1>4, <1>5, <1>6, <1>7, KeptOrder

(* A closed object without locks has no thread in on_data.                 *)
LEMMA OnCloseOrder ==
  ASSUME Inv, Order, NEW t \in Threads, OnClose(t)
  PROVE  Order'
<1>1. /\ DOMAIN thread = Threads /\ thread[t].at = "on_close" /\ ~Making(thread[t])
      /\ ThreadInv(t) /\ Rest(t) /\ Numbered(thread[t], slot.counter) /\ slot.counter \in Nat
      /\ UNCHANGED <<slot, sock, armed, inbox, asked, outbox, urgent, dropped, mixed, strays>>
  BY ThreadFacts DEF OnClose, Inv, Making, env, ghost
<1>2. PICK c \in Conns : c = thread[t].uuid /\ Closable(c)
  BY <1>1 DEF ThreadInv, Closable, Ever
<1>3. Stage(thread[t]) = "other" /\ slot.counter >= 1
  BY <1>1 DEF Stage, Given, SendPlaces, ClosePlaces, Numbered
<1>4. SameStage(t)
  BY <1>1, <1>3, RestSame
<1>5. /\ thread'[t] = Idle /\ \A u \in Threads \ {t} : thread'[u] = thread[u]
      /\ ~Making(thread'[t]) /\ \A l : ~Holds(thread'[t], l)
      /\ Stage(thread'[t]) = "other"
  BY <1>1, <1>3, <1>4, IdleShape DEF Rest, Special, SameStage
<1>6. \/ proto' = proto
      \/ proto[c].locks = {} /\ proto'[c].buf = <<>> /\ proto'[c].uuid = proto[c].uuid
         /\ proto'[c].life = "gone" /\ \A d \in Conns \ {c} : proto'[d] = proto[d]
  <2>1. DOMAIN proto = Conns /\ DOMAIN proto[c] = {"uuid", "life", "locks", "buf", "stop", "close"}
    BY DEF Inv, ProtoInv, ProtoShape
  <2> QED
    BY <1>2, <2>1 DEF OnClose
<1>7. \A d \in Conns : /\ proto'[d].uuid = proto[d].uuid
                       /\ proto'[d].life = "none" <=> proto[d].life = "none"
  BY <1>2, <1>6 DEF Closable
<1>8. Tasked(slot.counter)'
  <2>1. CASE normal' = normal
    BY <1>1, <2>1, TasksKept
  <2>2. CASE PushNormal(Task("on_close", c, FALSE))
    <3>1. c \in Nat
      BY DEF Conns
    <3> QED
      BY <1>1, <2>2, <3>1, TaskPushed
  <2> QED
    BY <1>2, <2>1, <2>2 DEF OnClose
<1>9. Kept(t)
  BY <1>1, <1>3, <1>4, <1>5, <1>7, <1>8 DEF Kept, LocksKept, SameStage
<1>10. Ever' = Ever /\ \A d : Alive(d)' <=> Alive(d)
  BY <1>9, KeptEver
<1>11. Requested'
  <2>1. \A d \in Conns : proto'[d].buf = proto[d].buf \/ proto'[d].buf = <<>>
    BY <1>6
  <2>2. \A d \in Conns : proto'[d].buf \in Seq(Item)
    <3>1. <<>> \in Seq(Item)
      OBVIOUS
    <3> QED
      BY <2>1, <3>1 DEF Order, Plain, Requested
  <2> QED
    BY <1>1, <2>2 DEF Order, Plain, Requested
<1>12. ASSUME NEW u \in Threads, Stage(thread'[u]) # "other"
       PROVE  proto'[thread'[u].pr].buf # <<>>
  <2>1. u # t /\ thread'[u] = thread[u]
    BY <1>5, <1>12
  <2>2. thread[u].pr \in Conns /\ Holds(thread[u], "task") /\ "task" \in Locks
    BY <1>12, <2>1, Working DEF Locks
  <2>3. "task" \in proto[thread[u].pr].locks
    BY <2>2 DEF Inv, ThreadInv
  <2>4. proto[thread[u].pr].buf # <<>>
    BY <1>12, <2>1 DEF Order, Plain, Attached
  <2> QED
    BY <1>6, <2>1, <2>2, <2>3, <2>4
<1>13. ASSUME Ordered, NEW d \in Conns PROVE LineOk(d)'
  <2>1. CASE d = c
    <3>1. ~Alive(d)
      BY <1>2, <2>1 DEF Alive, Closable
    <3> QED
      BY <1>1, <1>10, <1>13, <3>1, SameLine
  <2>2. CASE d # c
    <3>1. Gave(d)' <=> Gave(d)
      BY <1>4, <1>5, SameGave
    <3>2. proto'[d] = proto[d]
      BY <1>6, <2>2
    <3>3. Line(d)' = Line(d)
      BY <1>1, <3>1, <3>2 DEF Line, Waiting, Unanswered
    <3> QED
      BY <1>1, <1>10, <1>13, <3>3, SameLine
  <2> QED
    BY <2>1, <2>2
<1>14. ASSUME Ordered PROVE Bounded'
  <2>1. \A u \in Threads : thread'[u].pr = slot'.protocol =>
           Len(slot.packets) + Todo(thread'[u]) <= Limit
    BY <1>1, <1>4, <1>5, <1>14, SameTodo
  <2> QED
    BY <1>1, <1>14, <2>1 DEF Ordered, Bounded, Limit
<1>15. slot'.packets # <<>> => slot.protocol # None
  BY <1>1 DEF Order, Plain, Attached
<1> QED
  BY <1>1, <1>9, <1>11, <1>12, <1>13, <1>14, <1>15, KeptOrder

-----------------------------------------------------------------------------
(* Sending.                                                                *)

LEMMA WriteOrder ==
  ASSUME Inv, Order, NEW t \in Threads, Write(t), outbox' # outbox
  PROVE  Order'
<1>1. /\ Quiet(t) /\ thread[t].at = "write"
      /\ slot.packets # <<>> /\ sock # None
      /\ outbox' = [outbox EXCEPT ![sock] = Append(@, Head(slot.packets))]
      /\ slot' = [slot EXCEPT !.packets = Tail(@), !.sock_lock = FALSE]
      /\ Goto(t, "sent")
      /\ UNCHANGED <<sock, armed, inbox, asked, proto, urgent, normal, dropped, mixed, strays>>
  BY SendQuiet DEF Write, ghost
<1>2. /\ slot'.counter = slot.counter /\ slot'.protocol = slot.protocol
      /\ slot'.packets = Tail(slot.packets)
  BY <1>1 DEF Inv, SlotInv
<1>3. SameStage(t)
  BY <1>1, GotoSame DEF Alike, SendPlaces
<1>4. /\ Kept(t) /\ Ever' = Ever
      /\ \A c : Alive(c)' <=> Alive(c)
  BY <1>1, <1>2, <1>3, QuietKept DEF SameStage
<1>5. /\ slot.packets \in Seq(Item) /\ sock \in Conns /\ outbox[sock] \in Seq(Item)
      /\ DOMAIN outbox = Conns
  BY <1>1 DEF Order, Plain, Requested
<1>6. /\ Tail(slot.packets) \in Seq(Item) /\ Len(slot.packets) \in Nat
      /\ Len(Tail(slot.packets)) <= Len(slot.packets) /\ Len(Tail(slot.packets)) \in Nat
      /\ Head(slot.packets) \in Item
  BY <1>1, <1>5
<1>7. /\ outbox'[sock] = Append(outbox[sock], Head(slot.packets)) /\ outbox'[sock] \in Seq(Item)
      /\ DOMAIN outbox' = Conns /\ \A c \in Conns \ {sock} : outbox'[c] = outbox[c]
  BY <1>1, <1>5, <1>6
<1>8. Requested'
  <2>1. \A c \in Conns : outbox'[c] \in Seq(Item)
    BY <1>7 DEF Order, Plain, Requested
  <2> QED
    BY <1>1, <1>2, <1>6, <1>7, <2>1 DEF Order, Plain, Requested
<1>9. ASSUME NEW u \in Threads, Stage(thread'[u]) # "other"
      PROVE  proto'[thread'[u].pr].buf # <<>>
  BY <1>1, <1>3, <1>4, <1>9 DEF SameStage, Kept, Order, Plain, Attached
<1>10. ASSUME Ordered PROVE sock = slot.protocol
  <2>1. slot.protocol # None /\ proto[slot.protocol].uuid = slot.counter
    BY <1>1 DEF Order, Plain, Attached
  <2>2. slot.protocol \in Conns /\ proto[slot.protocol].life # "none"
    BY <2>1 DEF Inv, SlotInv, Ever
  <2> QED
    BY <1>10, <2>1, <2>2 DEF Ordered, OneSocket
<1>11. ASSUME Ordered, NEW c \in Conns PROVE LineOk(c)'
  <2>1. Unanswered(c)' = Unanswered(c)
    <3>1. Gave(c)' <=> Gave(c)
      BY <1>3, <1>4, SameGave DEF Kept
    <3> QED
      BY <1>1, <3>1 DEF Unanswered
  <2>2. outbox'[c] \o Waiting(c)' = outbox[c] \o Waiting(c) /\ (c = sock => Alive(c))
    <3>1. CASE c = sock
      <4>1. Waiting(c) = slot.packets /\ Waiting(c)' = Tail(slot.packets) /\ Alive(c)
        BY <1>2, <1>10, <1>11, <3>1 DEF Waiting, Alive
      <4>2. Append(outbox[c], Head(slot.packets)) \o Tail(slot.packets) = outbox[c] \o slot.packets
        BY <1>1, <1>5, <3>1, HeadMoves
      <4> QED
        BY <1>7, <3>1, <4>1, <4>2
    <3>2. CASE c # sock
      BY <1>2, <1>7, <1>10, <1>11, <3>2 DEF Waiting
    <3> QED
      BY <3>1, <3>2
  <2>3. Line(c)' = Line(c)
    BY <1>1, <2>1, <2>2 DEF Line
  <2> QED
    BY <1>1, <1>4, <1>7, <1>11, <2>2, <2>3, SameLine
<1>12. ASSUME Ordered PROVE Bounded'
  <2>1. \A u \in Threads : thread'[u].pr = slot'.protocol =>
           Todo(thread'[u]) \in Nat /\ Len(slot.packets) + Todo(thread'[u]) <= Limit
    BY <1>2, <1>3, <1>4, <1>12, SameTodo DEF Kept
  <2>2. Len(slot.packets) <= Limit /\ Limit \in Nat
    BY <1>12, HttpAssumption DEF Order, Plain, Requested, Ordered, Bounded, Limit
  <2>3. Limit' = Limit
    BY <1>1 DEF Limit
  <2> QED
    BY <1>2, <1>6, <2>1, <2>2, <2>3 DEF Bounded
<1>13. slot'.packets # <<>> => slot.protocol # None
  BY <1>1 DEF Order, Plain, Attached
<1> QED
  BY <1>1, <1>4, <1>8, <1>9, <1>11, <1>12, <1>13, KeptOrder

-----------------------------------------------------------------------------
(* Receiving.                                                              *)

LEMMA ReadStill ==
  ASSUME Inv, Order, NEW t \in Threads, Read(t), UNCHANGED <<inbox, proto, mixed>>
  PROVE  Still(t)
<1>1. /\ Quiet(t) /\ thread[t].at = "read" /\ thread[t].at \notin {"idle", "open"}
      /\ Shape(thread[t]) /\ Numbered(thread[t], slot.counter)
      /\ Holds(thread[t], "task") /\ Stage(thread[t]) = "other"
  BY DataQuiet, ThreadFacts DEF Read, Holds, TaskPlaces, Stage, Given, SendPlaces, ClosePlaces
<1>2. thread[t].stack = <<>> /\ thread[t].uuid \in 1 .. slot.counter
  BY <1>1, ShapeOf DEF TaskPlaces, Numbered
<1>3. SameStage(t)
  <2>1. CASE Call(t, "close", thread[t].uuid, "consume")
    BY <1>1, <1>2, <2>1, CallSame
  <2>2. CASE Goto(t, "consume")
    BY <1>1, <2>2, GotoSame DEF Alike, TaskPlaces
  <2> QED
    BY <2>1, <2>2 DEF Read
<1>4. SameData
  <2>1. slot' = slot \/ \E value : slot' = [slot EXCEPT !.quiet = value]
    BY DEF Read
  <2>2. UNCHANGED <<sock, asked, outbox, dropped, strays>>
    BY DEF Read, ghost
  <2> QED
    BY <2>1, <2>2, DataKept, MixedBool
<1>5. Tasked(slot.counter)'
  BY <1>4, TasksKept DEF Read, SameData, SameLines
<1> QED
  BY <1>1, <1>3, <1>4, <1>5, StillParts DEF Read

LEMMA Regrouped ==
  ASSUME NEW s \in Seq(Item), NEW m \in Seq(Item), NEW u \in Seq(Item)
  PROVE  (s \o m) \o u = s \o (m \o u)
BY ConcatAssociative

LEMMA ReadOrder ==
  ASSUME Inv, Order, NEW t \in Threads, Read(t)
  PROVE  Order'
<1>1. /\ Quiet(t) /\ thread[t].at = "read" /\ Holds(thread[t], "task")
      /\ Stage(thread[t]) = "other"
      /\ UNCHANGED <<sock, armed, asked, outbox, urgent, normal, dropped, strays>>
  BY DataQuiet DEF Read, Holds, TaskPlaces, Stage, Given, SendPlaces, ClosePlaces, ghost
<1>2. CASE UNCHANGED <<inbox, proto, mixed>>
  BY <1>2, ReadStill, StillOrder
<1>3. CASE ~UNCHANGED <<inbox, proto, mixed>>
  <2> DEFINE c == thread[t].pr
  <2>1. /\ sock # None
        /\ proto' = [proto EXCEPT ![c].buf = @ \o inbox[sock]]
        /\ inbox' = [inbox EXCEPT ![sock] = <<>>]
        /\ mixed' = (mixed \/ (inbox[sock] # <<>> /\ sock # c))
        /\ slot' = [slot EXCEPT !.quiet = @ /\ ~(Valid(thread[t].uuid) /\ Readable)]
        /\ Goto(t, "consume")
    BY <1>3 DEF Read, ghost
  <2>2. /\ c \in Conns /\ sock \in Conns
        /\ \A u \in Threads \ {t} : thread[u].pr = c => Stage(thread[u]) = "other"
    BY <1>1, <2>1, Working DEF Order, Plain, Requested
  <2> HIDE DEF c
  <2>3. /\ slot'.counter = slot.counter /\ slot'.protocol = slot.protocol
        /\ slot'.packets = slot.packets
    BY <2>1 DEF Inv, SlotInv
  <2>4. SameStage(t)
    BY <1>1, <2>1, GotoSame DEF Alike, TaskPlaces
  <2>5. /\ proto'[c].buf = proto[c].buf \o inbox[sock]
        /\ \A d \in Conns : proto'[d].uuid = proto[d].uuid
        /\ \A d \in Conns \ {c} : proto'[d] = proto[d]
    BY <2>1, <2>2 DEF Inv, ProtoInv, ProtoShape
  <2>6. /\ DOMAIN inbox' = Conns /\ inbox'[sock] = <<>>
        /\ \A d \in Conns \ {sock} : inbox'[d] = inbox[d]
    BY <2>1, <2>2 DEF Order, Plain, Requested
  <2>7. /\ inbox[sock] \in Seq(Item) /\ proto[c].buf \in Seq(Item)
        /\ <<>> \in Seq(Item) /\ proto'[c].buf \in Seq(Item)
        /\ mixed' \in BOOLEAN /\ (mixed => mixed')
    BY <2>1, <2>2, <2>5, MixedBool DEF Order, Plain, Requested
  <2>8. /\ Kept(t) /\ Ever' = Ever
        /\ \A d : Alive(d)' <=> Alive(d)
    BY <1>1, <2>3, <2>4, <2>5, <2>7, QuietKept DEF SameStage
  <2>9. Requested'
    <3>1. \A d \in Conns : proto'[d].buf \in Seq(Item) /\ inbox'[d] \in Seq(Item)
      BY <2>2, <2>5, <2>6, <2>7 DEF Order, Plain, Requested
    <3> QED
      BY <1>1, <2>3, <2>6, <2>7, <3>1 DEF Order, Plain, Requested
  <2>10. ASSUME NEW u \in Threads, Stage(thread'[u]) # "other"
         PROVE  proto'[thread'[u].pr].buf # <<>>
    <3>1. u # t /\ thread'[u] = thread[u]
      BY <1>1, <2>4, <2>8, <2>10 DEF SameStage, Kept
    <3>2. thread[u].pr \in Conns /\ thread[u].pr # c
      BY <2>2, <2>10, <3>1, Working
    <3> QED
      BY <2>5, <2>10, <3>1, <3>2 DEF Order, Plain, Attached
  <2>11. ~Gave(c) /\ \A d : Gave(d)' <=> Gave(d)
    <3>1. ~Gave(c)
      BY <1>1, <2>2, GivenStage DEF Gave
    <3> QED
      BY <2>4, <2>8, <3>1, SameGave DEF Kept
  <2>12. ASSUME Ordered, ~mixed', NEW d \in Conns PROVE LineOk(d)'
    <3>1. inbox[sock] = <<>> \/ sock = c
      BY <2>1, <2>12
    <3>2. CASE inbox[sock] = <<>>
      <4>1. proto'[c].buf = proto[c].buf
        BY <2>5, <2>7, <3>2, ConcatEmptySeq
      <4>2. proto'[d].buf = proto[d].buf /\ inbox'[d] = inbox[d]
        BY <2>5, <2>6, <3>2, <4>1
      <4>3. Line(d)' = Line(d)
        BY <1>1, <2>3, <2>11, <4>2 DEF Line, Waiting, Unanswered
      <4> QED
        BY <1>1, <2>8, <2>12, <4>3, SameLine
    <3>3. CASE sock = c /\ d = c
      <4>1. Unanswered(d) = proto[d].buf /\ Unanswered(d)' = proto[d].buf \o inbox[d]
        BY <2>5, <2>11, <3>3 DEF Unanswered
      <4>2. Waiting(d)' = Waiting(d) /\ outbox'[d] = outbox[d] /\ inbox'[d] = <<>>
        BY <1>1, <2>3, <2>6, <3>3 DEF Waiting
      <4> DEFINE s == outbox[d] \o Waiting(d)
      <4>3. s \in Seq(Item) /\ s \o (proto[d].buf \o inbox[d]) \in Seq(Item)
            /\ proto[d].buf \in Seq(Item) /\ inbox[d] \in Seq(Item)
        <5>1. /\ outbox[d] \in Seq(Item) /\ Waiting(d) \in Seq(Item)
              /\ proto[d].buf \in Seq(Item) /\ inbox[d] \in Seq(Item)
          BY LineTyped
        <5> QED
          BY <5>1
      <4>4. Line(d)' = (s \o (proto[d].buf \o inbox[d])) \o <<>>
        BY <4>1, <4>2 DEF Line
      <4>5. Line(d) = (s \o proto[d].buf) \o inbox[d]
        BY <4>1 DEF Line
      <4> HIDE DEF s
      <4>6. Line(d)' = s \o (proto[d].buf \o inbox[d])
        BY <4>3, <4>4, ConcatEmptySeq
      <4>7. (s \o proto[d].buf) \o inbox[d] = s \o (proto[d].buf \o inbox[d])
        BY <4>3, Regrouped
      <4>8. Line(d)' = Line(d)
        BY <4>5, <4>6, <4>7
      <4> QED
        BY <1>1, <2>8, <2>12, <4>8, SameLine
    <3>4. CASE sock = c /\ d # c
      <4>1. proto'[d] = proto[d] /\ inbox'[d] = inbox[d]
        BY <2>5, <2>6, <3>4
      <4>2. Line(d)' = Line(d)
        BY <1>1, <2>3, <2>11, <4>1 DEF Line, Waiting, Unanswered
      <4> QED
        BY <1>1, <2>8, <2>12, <4>2, SameLine
    <3> QED
      BY <3>1, <3>2, <3>3, <3>4
  <2>13. ASSUME Ordered PROVE Bounded'
    <3>1. \A u \in Threads : thread'[u].pr = slot'.protocol =>
             Len(slot.packets) + Todo(thread'[u]) <= Limit
      BY <2>3, <2>4, <2>8, <2>13, SameTodo DEF Kept
    <3> QED
      BY <1>1, <2>3, <2>13, <3>1 DEF Ordered, Bounded, Limit
  <2>14. slot'.packets # <<>> => slot.protocol # None
    BY <2>3 DEF Order, Plain, Attached
  <2> QED
    BY <1>1, <2>8, <2>9, <2>10, <2>12, <2>13, <2>14, KeptOrder
<1> QED
  BY <1>2, <1>3

(* How the bound grows with the passes that are not throttled.             *)
LEMMA LimitMore ==
  ASSUME NEW p \in Nat, NEW s \in Nat
  PROVE  /\ p * (1 + s) \in Nat /\ p * (1 + s) >= p
         /\ p * (1 + (s + 1)) = p * (1 + s) + p
<1>1. p * (1 + s) = p + p * s /\ p * s \in Nat
  OBVIOUS
<1>2. p * (1 + (s + 1)) = p + p * (s + 1) /\ p * (s + 1) = p * s + p
  OBVIOUS
<1> QED
  BY <1>1, <1>2

LEMMA ConsumeOrder ==
  ASSUME Inv, Order, NEW t \in Threads, Consume(t)
  PROVE  Order'
<1> DEFINE c == thread[t].pr
<1>1. /\ DOMAIN thread = Threads /\ Shape(thread[t]) /\ Numbered(thread[t], slot.counter)
      /\ slot.counter \in Nat /\ thread[t].at = "consume" /\ Quiet(t)
      /\ Holds(thread[t], "task") /\ Stage(thread[t]) = "other"
      /\ UNCHANGED <<slot, sock, armed, inbox, asked, outbox, proto, urgent, normal, dropped, mixed>>
  BY ThreadFacts, ConsumeQuiet DEF Consume, Holds, TaskPlaces, Stage, Given, SendPlaces,
     ClosePlaces, env
<1>2. /\ c \in Conns /\ thread[t].stack = <<>> /\ <<>> # <<"answer">>
      /\ \A u \in Threads \ {t} : thread[u].pr = c => Stage(thread[u]) = "other"
  BY <1>1, Working, ShapeOf DEF TaskPlaces
<1>3. PICK throttled \in BOOLEAN :
         throttled <=> Valid(thread[t].uuid) /\ Len(slot.packets) > MaxPending
  OBVIOUS
<1>4. PICK place : place = Loop(proto[c].buf, Pipeline)
  OBVIOUS
<1>5. /\ thread' = IF throttled THEN [thread EXCEPT ![t].at = "throttle"]
                   ELSE [thread EXCEPT ![t].at = place, ![t].left = Pipeline]
      /\ strays' = IF ~Valid(thread[t].uuid) /\ c = slot.protocol THEN strays + 1 ELSE strays
  BY <1>3, <1>4 DEF Consume
<1>6. Pipeline \in Nat \ {0}
  BY HttpAssumption
<1>7. /\ place = "answer" => proto[c].buf # <<>>
      /\ place \notin SendPlaces \cup ClosePlaces /\ place # "answered" /\ place # "shut"
  BY <1>6, <1>4 DEF Loop, SendPlaces, ClosePlaces
<1> HIDE DEF c
<1>8. /\ thread'[t].at = IF throttled THEN "throttle" ELSE place
      /\ thread'[t].left = IF throttled THEN thread[t].left ELSE Pipeline
      /\ thread'[t].stack = <<>> /\ thread'[t].pr = c /\ thread'[t].uuid = thread[t].uuid
      /\ \A u \in Threads \ {t} : thread'[u] = thread[u]
  BY <1>1, <1>2, <1>5 DEF Shape, c
<1>9. /\ Stage(thread'[t]) = IF ~throttled /\ place = "answer" THEN "answer" ELSE "other"
      /\ thread'[t].left \in Nat /\ (~throttled => thread'[t].left >= 1)
      /\ thread'[t].at \notin SendPlaces \cup ClosePlaces /\ thread'[t].at # "shut"
  <2>1. thread[t].left \in Nat
    BY <1>1 DEF Numbered
  <2>2. CASE throttled
    BY <1>8, <2>1, <2>2 DEF Stage, Given, SendPlaces, ClosePlaces
  <2>3. CASE ~throttled
    <3>1. thread'[t].at = place /\ thread'[t].left = Pipeline
      BY <1>8, <2>3
    <3>2. ~Given(thread'[t])
      <4>1. /\ thread'[t].at # "answered"
            /\ thread'[t].at \notin SendPlaces \cup ClosePlaces
            /\ thread'[t].at # "shut"
        BY <1>7, <3>1
      <4> QED
        BY <4>1 DEF Given
    <3>3. thread'[t].left \in Nat /\ thread'[t].left >= 1
      BY <1>6, <3>1
    <3>4. thread'[t].at \notin SendPlaces \cup ClosePlaces /\ thread'[t].at # "shut"
      BY <1>7, <3>1
    <3>5. Stage(thread'[t]) = IF place = "answer" THEN "answer" ELSE "other"
      BY <3>1, <3>2 DEF Stage
    <3> QED
      BY <2>3, <3>3, <3>4, <3>5
  <2> QED
    BY <2>2, <2>3
<1>10. Numbered(thread'[t], slot.counter)
  <2>1. thread[t].uuid \in 1 .. slot.counter /\ slot.counter >= 1
    BY <1>1 DEF Numbered
  <2> QED
    BY <1>2, <1>8, <1>9, <2>1 DEF Numbered
<1>11. /\ Kept(t) /\ Ever' = Ever
       /\ \A d : Alive(d)' <=> Alive(d)
  BY <1>1, <1>10, QuietKept
<1>12. strays \in Nat /\ strays' \in Nat /\ Len(slot.packets) \in Nat
  BY <1>5 DEF Order, Plain, Requested
<1>13. Requested'
  BY <1>1, <1>12 DEF Order, Plain, Requested
<1>14. ASSUME NEW u \in Threads, Stage(thread'[u]) # "other"
       PROVE  proto'[thread'[u].pr].buf # <<>>
  BY <1>1, <1>7, <1>8, <1>9, <1>14 DEF Order, Plain, Attached
<1>15. ASSUME Ordered, NEW d \in Conns PROVE LineOk(d)'
  <2>1. Gave(d)' <=> Gave(d)
    BY <1>1, <1>8, <1>9, GivenStage DEF Gave
  <2>2. Line(d)' = Line(d)
    BY <1>1, <2>1 DEF Line, Waiting, Unanswered
  <2> QED
    BY <1>1, <1>11, <1>15, <2>2, SameLine
<1>16. ASSUME Ordered PROVE Bounded'
  <2>1. MaxPending \in Nat
    BY HttpAssumption
  <2>2. /\ Limit = MaxPending + Pipeline * (1 + strays)
        /\ Limit' = MaxPending + Pipeline * (1 + strays')
        /\ MaxPending \in Nat
    BY HttpAssumption DEF Limit
  <2>3. Limit \in Nat /\ Limit' \in Nat /\ Limit >= MaxPending + Pipeline /\ Limit' >= Limit
        /\ (strays' = strays + 1 => Limit' = Limit + Pipeline)
    <3> DEFINE x == Pipeline * (1 + strays)
    <3>1. /\ x \in Nat /\ x >= Pipeline
          /\ Pipeline * (1 + (strays + 1)) = x + Pipeline
      BY <1>6, <1>12, LimitMore
    <3>2. /\ Limit = MaxPending + x
          /\ strays' = strays => Limit' = MaxPending + x
          /\ strays' = strays + 1 => Limit' = MaxPending + (x + Pipeline)
      BY <2>2, <3>1
    <3> HIDE DEF x, Limit
    <3>3. strays' = strays \/ strays' = strays + 1
      BY <1>5
    <3> QED
      BY <1>6, <1>12, <2>1, <3>1, <3>2, <3>3
  <2> HIDE DEF Limit
  <2>4. Len(slot.packets) <= Limit
    BY <1>16 DEF Ordered, Bounded
  <2>5. ASSUME NEW u \in Threads, thread'[u].pr = slot.protocol
        PROVE  Len(slot.packets) + Todo(thread'[u]) <= Limit'
    <3>1. CASE u # t
      <4>1. Len(slot.packets) + Todo(thread[u]) <= Limit /\ Todo(thread[u]) \in Nat
        <5>1. Numbered(thread[u], slot.counter) /\ thread[u].pr = slot.protocol
          BY <1>8, <2>5, <3>1 DEF Order, Plain, Numbers
        <5>2. Todo(thread[u]) \in Nat
          BY <5>1 DEF Todo, Numbered
        <5> QED
          BY <1>16, <5>1, <5>2 DEF Ordered, Bounded
      <4> QED
        BY <1>8, <1>12, <2>3, <3>1, <4>1
    <3>2. CASE u = t /\ Stage(thread'[t]) = "other"
      <4>1. Todo(thread'[u]) = 0
        BY <3>2 DEF Todo
      <4> QED
        BY <1>12, <2>3, <2>4, <4>1
    <3>3. CASE u = t /\ Stage(thread'[t]) # "other"
      <4>1. Todo(thread'[u]) = Pipeline /\ ~throttled
        BY <1>8, <1>9, <3>3 DEF Todo
      <4>2. CASE Valid(thread[t].uuid)
        <5>1. Len(slot.packets) <= MaxPending
          BY <1>12, <1>3, <2>1, <4>1, <4>2
        <5> QED
          BY <1>6, <1>12, <2>2, <2>3, <4>1, <5>1
      <4>3. CASE ~Valid(thread[t].uuid)
        <5>1. strays' = strays + 1
          BY <1>5, <1>8, <2>5, <3>3, <4>3
        <5> QED
          BY <1>6, <1>12, <2>3, <2>4, <4>1, <5>1
      <4> QED
        BY <4>2, <4>3
    <3> QED
      BY <3>1, <3>2, <3>3
  <2> QED
    BY <1>1, <1>12, <2>3, <2>4, <2>5 DEF Bounded
<1>17. slot'.packets # <<>> => slot.protocol # None
  BY <1>1 DEF Order, Plain, Attached
<1> QED
  BY <1>1, <1>11, <1>13, <1>14, <1>15, <1>16, <1>17, KeptOrder

(* A request moves from the buffer to the packets.                         *)
LEMMA RequestMoves ==
  ASSUME NEW o \in Seq(Item), NEW w \in Seq(Item), NEW b \in Seq(Item), b # <<>>
  PROVE  (o \o Append(w, Head(b))) \o Tail(b) = (o \o w) \o b
<1>1. Head(b) \in Item /\ o \o w \in Seq(Item)
  BY HeadMoves
<1>2. o \o Append(w, Head(b)) = Append(o \o w, Head(b))
  BY <1>1, AppendEnd
<1>3. Append(o \o w, Head(b)) \o Tail(b) = (o \o w) \o b
  BY <1>1, HeadMoves
<1> QED
  BY <1>2, <1>3

(* Where an answer leads to.                                               *)
LEMMA AnswerStage ==
  ASSUME Inv, Order, NEW t \in Threads, Answer(t)
  PROVE  /\ Stage(thread'[t]) = "given" /\ Numbered(thread'[t], slot.counter)
         /\ thread'[t].left = thread[t].left /\ thread'[t].pr = thread[t].pr
         /\ \A u \in Threads \ {t} : thread'[u] = thread[u]
<1> DEFINE c == thread[t].pr
           uuid == proto[c].uuid
           close == proto[c].close \/ Head(proto[c].buf)[3]
           after == IF close THEN <<"end", "answered">> ELSE <<"answered">>
           flush == Valid(uuid) /\ slot.packets = <<>>
           request == Head(proto[c].buf)
<1>1. /\ DOMAIN thread = Threads /\ Shape(thread[t]) /\ Numbered(thread[t], slot.counter)
      /\ slot.counter \in Nat /\ thread[t].at = "answer" /\ Stage(thread[t]) = "answer"
      /\ Holds(thread[t], "task")
  BY ThreadFacts DEF Answer, Stage, Holds, TaskPlaces
<1>2. uuid \in 1 .. slot.counter
  <2>1. c \in Conns /\ proto[c].life # "none"
    BY <1>1, Working DEF Ever
  <2> QED
    BY <2>1 DEF Order, Plain, Numbers
<1>3. thread' = [thread EXCEPT ![t].at = IF flush THEN "flush" ELSE Head(after),
                               ![t].target = IF flush \/ close THEN uuid ELSE 0,
                               ![t].force = TRUE,
                               ![t].stack = IF flush THEN after ELSE Tail(after)]
  BY DEF Answer
<1> HIDE DEF uuid, flush, close, after
<1>4. /\ thread'[t].at = IF flush THEN "flush" ELSE Head(after)
      /\ thread'[t].stack = IF flush THEN after ELSE Tail(after)
      /\ thread'[t].target = IF flush \/ close THEN uuid ELSE 0
      /\ thread'[t].pr = c /\ thread'[t].uuid = thread[t].uuid
      /\ thread'[t].left = thread[t].left
      /\ \A u \in Threads \ {t} : thread'[u] = thread[u]
  BY <1>1, <1>3 DEF Shape
<1>5. \/ thread'[t].at = "flush" /\ thread'[t].stack \in AnsweredStacks
         /\ thread'[t].stack # <<"answer">> /\ thread'[t].target = uuid
      \/ thread'[t].at = "end" /\ thread'[t].stack \in AnsweredStacks
         /\ thread'[t].stack # <<"answer">> /\ thread'[t].target = uuid
      \/ thread'[t].at = "answered" /\ thread'[t].stack = <<>>
  <2>1. CASE flush
    <3>1. after \in AnsweredStacks /\ after # <<"answer">>
      <4>1. <<"end", "answered">> # <<"answer">> /\ <<"answered">> # <<"answer">>
        OBVIOUS
      <4> QED
        BY <4>1 DEF after, AnsweredStacks
    <3> QED
      BY <1>4, <2>1, <3>1
  <2>2. CASE ~flush /\ close
    <3>1. Head(after) = "end" /\ Tail(after) = <<"answered">>
      BY <2>2 DEF after
    <3>2. <<"answered">> # <<"answer">> /\ <<"answered">> \in AnsweredStacks
      BY DEF AnsweredStacks
    <3> QED
      BY <1>4, <2>2, <3>1, <3>2
  <2>3. CASE ~flush /\ ~close
    <3>1. Head(after) = "answered" /\ Tail(after) = <<>>
      BY <2>3, Single DEF after
    <3> QED
      BY <1>4, <2>3, <3>1
  <2> QED
    BY <2>1, <2>2, <2>3
<1>6. Stage(thread'[t]) = "given"
  BY <1>5 DEF Stage, Given, SendPlaces, ClosePlaces
<1>7. Numbered(thread'[t], slot.counter)
  <2>1. /\ thread[t].uuid \in 1 .. slot.counter /\ slot.counter >= 1
        /\ thread[t].left \in Nat /\ thread[t].left >= 1
    BY <1>1 DEF Numbered
  <2>2. thread'[t].stack # <<"answer">> /\ thread'[t].at # "shut"
    <3>1. <<>> # <<"answer">>
      OBVIOUS
    <3> QED
      BY <1>5, <3>1
  <2>3. thread'[t].at \in SendPlaces \cup ClosePlaces => thread'[t].target \in 1 .. slot.counter
    BY <1>2, <1>5 DEF SendPlaces, ClosePlaces
  <2> QED
    BY <1>4, <2>1, <2>2, <2>3 DEF Numbered
<1> QED
  BY <1>4, <1>6, <1>7

LEMMA AnswerOrder ==
  ASSUME Inv, Order, NEW t \in Threads, Answer(t)
  PROVE  Order'
<1> DEFINE c == thread[t].pr
           b == proto[c].buf
           valid == Valid(proto[c].uuid)
<1>1. /\ Quiet(t) /\ thread[t].at = "answer" /\ Stage(thread[t]) = "answer"
      /\ Numbered(thread[t], slot.counter)
      /\ UNCHANGED <<sock, armed, inbox, asked, outbox, urgent, normal, dropped, mixed, strays>>
  BY AnswerQuiet, ThreadFacts DEF Answer, Stage, env, ghost
<1>2. /\ c \in Ever /\ c \in Conns /\ proto[c].life # "none"
      /\ \A u \in Threads \ {t} : thread[u].pr = c => Stage(thread[u]) = "other"
  BY <1>1, Working DEF Ever
<1>3. /\ Stage(thread'[t]) = "given" /\ Numbered(thread'[t], slot.counter)
      /\ thread'[t].left = thread[t].left /\ thread'[t].pr = c
      /\ \A u \in Threads \ {t} : thread'[u] = thread[u]
  BY AnswerStage
<1>4. /\ slot'.counter = slot.counter /\ slot'.protocol = slot.protocol
      /\ slot'.packets = IF valid THEN Append(slot.packets, Head(b)) ELSE slot.packets
  BY DEF Answer, Inv, SlotInv
<1>5. \A d \in Conns : /\ proto'[d].uuid = proto[d].uuid /\ proto'[d].buf = proto[d].buf
  <2>1. \E close : proto' = [proto EXCEPT ![c].close = close]
    BY DEF Answer
  <2> QED
    BY <2>1 DEF Inv, ProtoInv, ProtoShape
<1>6. /\ b # <<>> /\ b \in Seq(Item) /\ slot.packets \in Seq(Item)
      /\ thread[t].left \in Nat /\ thread[t].left >= 1
  BY <1>1, <1>2 DEF Order, Plain, Attached, Requested, Numbered
<1>7. Head(b) \in Item /\ Tail(b) \in Seq(Item)
  BY <1>6, HeadMoves
<1>8. valid => slot.protocol # None
  BY <1>2 DEF Order, Plain, Attached, Valid
<1>9. ~valid => slot.protocol # c
  BY <1>2 DEF Order, Plain, Attached, Valid, None, Conns
<1>10. Ordered /\ valid => slot.protocol = c
  BY <1>2 DEF Ordered, OneSocket, Valid
<1> HIDE DEF valid
<1>11. /\ Kept(t) /\ Ever' = Ever
       /\ \A d : Alive(d)' <=> Alive(d)
  BY <1>1, <1>3, <1>4, <1>5, QuietKept
<1>12. slot'.packets \in Seq(Item) /\ Len(slot.packets) \in Nat
       /\ (valid => Len(slot'.packets) = Len(slot.packets) + 1)
  BY <1>4, <1>6, <1>7
<1>13. Requested'
  BY <1>1, <1>5, <1>12 DEF Order, Plain, Requested
<1>14. ASSUME NEW u \in Threads, Stage(thread'[u]) # "other"
       PROVE  proto'[thread'[u].pr].buf # <<>>
  <2>1. CASE u = t
    BY <1>2, <1>3, <1>5, <1>6, <2>1
  <2>2. CASE u # t
    <3>1. thread'[u] = thread[u] /\ thread[u].pr \in Conns
      BY <1>3, <1>14, <2>2, Working
    <3> QED
      BY <1>5, <1>14, <3>1 DEF Order, Plain, Attached
  <2> QED
    BY <2>1, <2>2
<1>15. ASSUME Ordered, NEW d \in Conns PROVE LineOk(d)'
  <2>1. CASE d = c /\ valid
    <3>1. Gave(d)' /\ ~Gave(d)
      BY <1>1, <1>2, <1>3, <2>1, GivenStage DEF Gave
    <3>2. Unanswered(d) = b /\ Unanswered(d)' = Tail(b)
      BY <1>2, <1>5, <2>1, <3>1 DEF Unanswered
    <3>3. Waiting(d) = slot.packets /\ Waiting(d)' = Append(slot.packets, Head(b))
      BY <1>4, <1>10, <1>15, <2>1 DEF Waiting
    <3>4. outbox[d] \in Seq(Item)
      BY LineTyped
    <3> HIDE DEF b
    <3>5. (outbox[d] \o Append(slot.packets, Head(b))) \o Tail(b) = (outbox[d] \o slot.packets) \o b
      BY <1>6, <3>4, RequestMoves
    <3>6. Line(d)' = Line(d)
      BY <1>1, <3>2, <3>3, <3>5 DEF Line
    <3> QED
      BY <1>1, <1>11, <1>15, <3>6, SameLine
  <2>2. CASE d = c /\ ~valid
    <3>1. ~Alive(d)
      BY <1>2, <1>9, <2>2 DEF Alive
    <3> QED
      BY <1>1, <1>11, <1>15, <3>1, SameLine
  <2>3. CASE d # c
    <3>1. Gave(d)' <=> Gave(d)
      <4>1. \A u \in Threads : Given(thread'[u]) /\ thread'[u].pr = d
                               <=> Given(thread[u]) /\ thread[u].pr = d
        BY <1>3, <2>3
      <4> QED
        BY <4>1 DEF Gave
    <3>2. Waiting(d)' = Waiting(d)
      BY <1>4, <1>10, <1>15, <2>3 DEF Waiting
    <3>3. Line(d)' = Line(d)
      BY <1>1, <1>5, <3>1, <3>2 DEF Line, Unanswered
    <3> QED
      BY <1>1, <1>11, <1>15, <3>3, SameLine
  <2> QED
    BY <2>1, <2>2, <2>3
<1>16. ASSUME Ordered PROVE Bounded'
  <2>1. Limit' = Limit /\ Limit \in Nat
    BY <1>1, HttpAssumption DEF Limit, Order, Plain, Requested
  <2> HIDE DEF Limit
  <2>2. Len(slot.packets) <= Limit
    BY <1>16 DEF Ordered, Bounded
  <2>3. CASE ~valid
    <3>1. ASSUME NEW u \in Threads, thread'[u].pr = slot.protocol
          PROVE  Len(slot.packets) + Todo(thread'[u]) <= Limit
      <4>1. thread'[u] = thread[u]
        BY <1>3, <1>9, <2>3, <3>1
      <4> QED
        BY <1>16, <3>1, <4>1 DEF Ordered, Bounded
    <3> QED
      BY <1>4, <2>1, <2>2, <2>3, <3>1 DEF Bounded
  <2>4. CASE valid
    <3>1. slot.protocol = c
      BY <1>10, <1>16, <2>4
    <3>2. Todo(thread[t]) = thread[t].left /\ Todo(thread'[t]) = thread[t].left - 1
      BY <1>1, <1>3 DEF Todo
    <3>3. Len(slot.packets) + thread[t].left <= Limit
      BY <1>16, <3>1, <3>2 DEF Ordered, Bounded
    <3>4. Len(slot'.packets) <= Limit /\ Len(slot'.packets) + (thread[t].left - 1) <= Limit
      BY <1>6, <1>12, <2>1, <2>4, <3>3
    <3>5. ASSUME NEW u \in Threads, thread'[u].pr = slot.protocol
          PROVE  Len(slot'.packets) + Todo(thread'[u]) <= Limit
      <4>1. CASE u = t
        BY <3>2, <3>4, <4>1
      <4>2. CASE u # t
        <5>1. Stage(thread'[u]) = "other"
          BY <1>2, <1>3, <3>1, <3>5, <4>2
        <5>2. Todo(thread'[u]) = 0
          BY <5>1 DEF Todo
        <5> QED
          BY <1>12, <2>4, <3>4, <5>2
      <4> QED
        BY <4>1, <4>2
    <3> QED
      BY <1>4, <2>1, <3>4, <3>5 DEF Bounded
  <2> QED
    BY <2>3, <2>4
<1>17. slot'.packets # <<>> => slot.protocol # None
  BY <1>4, <1>8 DEF Order, Plain, Attached
<1> QED
  BY <1>1, <1>11, <1>13, <1>14, <1>15, <1>16, <1>17, KeptOrder

LEMMA AnsweredOrder ==
  ASSUME Inv, Order, NEW t \in Threads, Answered(t)
  PROVE  Order'
<1> DEFINE c == thread[t].pr
           b == proto[c].buf
           uuid == proto[c].uuid
           error == IsClosed(uuid) /\ ~proto[c].close
<1>1. /\ Quiet(t) /\ thread[t].at = "answered" /\ Stage(thread[t]) = "given"
      /\ DOMAIN thread = Threads /\ Shape(thread[t])
      /\ Numbered(thread[t], slot.counter) /\ slot.counter \in Nat
      /\ UNCHANGED <<slot, sock, armed, inbox, asked, outbox, urgent, normal, mixed, strays>>
  BY AnsweredQuiet, ThreadFacts DEF Answered, Stage, Given, env
<1>2. /\ c \in Ever /\ c \in Conns /\ proto[c].life # "none" /\ Holds(thread[t], "task")
      /\ \A u \in Threads \ {t} : thread[u].pr = c => Stage(thread[u]) = "other"
  BY <1>1, Working DEF Ever
<1>3. /\ b # <<>> /\ b \in Seq(Item) /\ Tail(b) \in Seq(Item) /\ <<>> \in Seq(Item)
      /\ uuid \in 1 .. slot.counter
      /\ thread[t].left \in Nat /\ thread[t].left >= 1
      /\ thread[t].uuid \in 1 .. slot.counter /\ slot.counter >= 1
  <2>1. b # <<>> /\ b \in Seq(Item)
    BY <1>1, <1>2 DEF Order, Plain, Attached, Requested
  <2>2. Tail(b) \in Seq(Item)
    BY <2>1, HeadMoves
  <2>3. uuid \in 1 .. slot.counter
    BY <1>2 DEF Order, Plain, Numbers
  <2>4. /\ thread[t].left \in Nat /\ thread[t].left >= 1
        /\ thread[t].uuid \in 1 .. slot.counter /\ slot.counter >= 1
    BY <1>1, <1>2 DEF Numbered
  <2> QED
    BY <2>1, <2>2, <2>3, <2>4
<1>4. PICK buf : buf = IF IsClosed(uuid) THEN <<>> ELSE Tail(b)
  OBVIOUS
<1>5. PICK next : next = Loop(buf, thread[t].left - 1)
  OBVIOUS
<1>6. /\ proto' = [proto EXCEPT ![c].buf = buf]
      /\ thread' = [thread EXCEPT ![t].at = IF error THEN "end" ELSE next,
                                  ![t].target = IF error THEN uuid ELSE 0,
                                  ![t].left = IF next = "answer" THEN @ - 1 ELSE 0,
                                  ![t].stack = IF error THEN <<next>> ELSE <<>>]
      /\ dropped' = IF IsClosed(uuid) /\ Tail(b) # <<>> THEN dropped \cup {c} ELSE dropped
  BY <1>4, <1>5 DEF Answered
<1>7. /\ next = "answer" => buf # <<>> /\ thread[t].left - 1 >= 1 /\ ~error
      /\ next \notin SendPlaces \cup ClosePlaces /\ next # "answered" /\ next # "shut"
  <2>1. next = "answer" => buf # <<>> /\ thread[t].left - 1 # 0
    BY <1>5 DEF Loop
  <2>2. next \notin SendPlaces \cup ClosePlaces /\ next # "answered" /\ next # "shut"
    BY <1>5 DEF Loop, SendPlaces, ClosePlaces
  <2> QED
    BY <1>3, <1>4, <2>1, <2>2
<1>8. \A d \in Conns : /\ proto'[d].uuid = proto[d].uuid
                       /\ proto'[d].buf = IF d = c THEN buf ELSE proto[d].buf
  BY <1>2, <1>6 DEF Inv, ProtoInv, ProtoShape
<1> HIDE DEF c, error
<1>9. /\ thread'[t].at = IF error THEN "end" ELSE next
      /\ thread'[t].target = IF error THEN proto[c].uuid ELSE 0
      /\ thread'[t].left = IF next = "answer" THEN thread[t].left - 1 ELSE 0
      /\ thread'[t].stack = IF error THEN <<next>> ELSE <<>>
      /\ thread'[t].pr = c /\ thread'[t].uuid = thread[t].uuid
      /\ \A u \in Threads \ {t} : thread'[u] = thread[u]
  BY <1>1, <1>6 DEF Shape, c
<1> HIDE DEF uuid
<1>10. /\ <<next>> \notin AnsweredStacks /\ <<>> # <<"answer">>
       /\ next # "answer" => <<next>> # <<"answer">>
  <2>1. /\ <<next>> # <<"end", "answered">> /\ <<next>> # <<"flushed", "answered">>
        /\ <<next>> # <<"flushed", "end", "answered">>
    OBVIOUS
  <2>2. <<next>> # <<"answered">>
    BY <1>7
  <2>3. next # "answer" => <<next>> # <<"answer">> /\ <<>> # <<"answer">>
    OBVIOUS
  <2>4. <<>> # <<"answer">>
    OBVIOUS
  <2> QED
    BY <2>1, <2>2, <2>3, <2>4 DEF AnsweredStacks
<1>11. Stage(thread'[t]) = IF next = "answer" THEN "answer" ELSE "other"
  <2>1. CASE error
    BY <1>7, <1>9, <1>10, <2>1 DEF Stage, Given
  <2>2. CASE ~error
    BY <1>7, <1>9, <2>2 DEF Stage, Given
  <2> QED
    BY <2>1, <2>2
<1>12. Numbered(thread'[t], slot.counter)
  <2>1. thread'[t].left \in Nat /\ (next = "answer" => thread'[t].left >= 1)
    BY <1>3, <1>7, <1>9
  <2>2. thread'[t].at # "shut" /\ thread'[t].stack # <<"answer">>
    BY <1>7, <1>9, <1>10
  <2>3. thread'[t].at \in SendPlaces \cup ClosePlaces => thread'[t].target \in 1 .. slot.counter
    BY <1>3, <1>7, <1>9 DEF uuid
  <2> QED
    BY <1>3, <1>9, <1>11, <2>1, <2>2, <2>3 DEF Numbered
<1>13. /\ Kept(t) /\ Ever' = Ever
       /\ \A d : Alive(d)' <=> Alive(d)
  BY <1>1, <1>8, <1>12, QuietKept
<1>14. Requested'
  <2>1. buf \in Seq(Item)
    BY <1>3, <1>4
  <2>2. \A d \in Conns : proto'[d].buf \in Seq(Item)
    BY <1>8, <2>1 DEF Order, Plain, Requested
  <2> QED
    BY <1>1, <2>2 DEF Order, Plain, Requested
<1>15. ASSUME NEW u \in Threads, Stage(thread'[u]) # "other"
       PROVE  proto'[thread'[u].pr].buf # <<>>
  <2>1. CASE u = t
    BY <1>2, <1>7, <1>8, <1>9, <1>11, <1>15, <2>1
  <2>2. CASE u # t
    <3>1. thread'[u] = thread[u] /\ thread[u].pr \in Conns /\ thread[u].pr # c
      BY <1>2, <1>9, <1>15, <2>2, Working
    <3> QED
      BY <1>8, <1>15, <3>1 DEF Order, Plain, Attached
  <2> QED
    BY <2>1, <2>2
<1>16. ASSUME Ordered, NEW d \in Conns PROVE LineOk(d)'
  <2>1. d \in dropped => d \in dropped'
    BY <1>6
  <2>2. CASE d # c
    <3>1. Gave(d)' <=> Gave(d)
      <4>1. \A u \in Threads : Given(thread'[u]) /\ thread'[u].pr = d
                               <=> Given(thread[u]) /\ thread[u].pr = d
        BY <1>9, <2>2 DEF c
      <4> QED
        BY <4>1 DEF Gave
    <3>2. Line(d)' = Line(d)
      BY <1>1, <1>8, <2>2, <3>1 DEF Line, Waiting, Unanswered
    <3> QED
      BY <1>1, <1>13, <1>16, <2>1, <3>2, SameLine
  <2>3. CASE d = c
    <3>1. Gave(d) /\ ~Gave(d)'
      <4>1. Gave(d)
        BY <1>1, <2>3, GivenStage DEF Gave, c
      <4>2. \A u \in Threads : ~(Given(thread'[u]) /\ thread'[u].pr = c)
        BY <1>2, <1>9, <1>11, GivenStage
      <4> QED
        BY <2>3, <4>1, <4>2 DEF Gave
    <3>2. Unanswered(d) = Tail(b) /\ Unanswered(d)' = buf /\ Waiting(d)' = Waiting(d)
      BY <1>1, <1>8, <2>3, <3>1 DEF Unanswered, Waiting
    <3>3. CASE buf = Tail(b)
      <4>1. Line(d)' = Line(d)
        BY <1>1, <3>2, <3>3 DEF Line
      <4> QED
        BY <1>1, <1>13, <1>16, <2>1, <4>1, SameLine
    <3>4. CASE buf # Tail(b)
      <4>1. buf = <<>> /\ d \in dropped'
        BY <1>4, <1>6, <2>3, <3>4
      <4>2. CASE Alive(d)
        <5>1. /\ outbox[d] \in Seq(Item) /\ inbox[d] \in Seq(Item)
              /\ Waiting(d) \in Seq(Item) /\ Unanswered(d) \in Seq(Item) /\ asked[d] \in Nat
          BY LineTyped
        <5>2. Good(d, Line(d))
          BY <1>16, <4>2 DEF Ordered, LineOk
        <5>3. Own(d, asked[d], Line(d)') /\ Rising(Line(d)')
          BY <1>1, <3>2, <4>1, <5>1, <5>2, PieceCut DEF Good, Line
        <5> QED
          BY <1>1, <1>13, <4>1, <4>2, <5>3 DEF LineOk, Good
      <4>3. CASE ~Alive(d)
        BY <1>1, <1>13, <1>16, <2>1, <4>3, SameLine
      <4> QED
        BY <4>2, <4>3
    <3> QED
      BY <3>3, <3>4
  <2> QED
    BY <2>2, <2>3
<1>17. ASSUME Ordered PROVE Bounded'
  <2>1. Limit' = Limit /\ Limit \in Nat
    BY <1>1, HttpAssumption DEF Limit, Order, Plain, Requested
  <2>2. Len(slot.packets) <= Limit /\ Len(slot.packets) \in Nat
    BY <1>17 DEF Ordered, Bounded, Order, Plain, Requested
  <2>3. ASSUME NEW u \in Threads, thread'[u].pr = slot.protocol
        PROVE  Len(slot.packets) + Todo(thread'[u]) <= Limit
    <3>1. CASE u # t
      BY <1>9, <1>17, <2>3, <3>1 DEF Ordered, Bounded
    <3>2. CASE u = t /\ next = "answer"
      <4>1. Todo(thread'[u]) = thread[t].left - 1 /\ Todo(thread[t]) = thread[t].left - 1
        BY <1>1, <1>9, <1>11, <3>2 DEF Todo
      <4>2. Len(slot.packets) + Todo(thread[t]) <= Limit
        BY <1>9, <1>17, <2>3, <3>2 DEF Ordered, Bounded, c
      <4> QED
        BY <4>1, <4>2
    <3>3. CASE u = t /\ next # "answer"
      <4>1. Todo(thread'[u]) = 0
        BY <1>11, <3>3 DEF Todo
      <4> QED
        BY <2>1, <2>2, <4>1
    <3> QED
      BY <3>1, <3>2, <3>3
  <2> QED
    BY <1>1, <2>1, <2>2, <2>3 DEF Bounded
<1>18. slot'.packets # <<>> => slot.protocol # None
  BY <1>1 DEF Order, Plain, Attached
<1> QED
  BY <1>1, <1>13, <1>14, <1>15, <1>16, <1>17, <1>18, KeptOrder

-----------------------------------------------------------------------------
(* The whole program.                                                      *)

LEMMA NextOrder ==
  ASSUME Inv, Order, [Next]_vars
  PROVE  Order'
<1>1. ASSUME NEW c \in Conns, HangUp(c) PROVE Order'
  BY <1>1, IdleOrder DEF HangUp, ghost
<1>2. CASE UNCHANGED vars
  BY <1>2, IdleOrder DEF vars, env, ghost
<1>3. ASSUME NEW t \in Threads, Closing(t) PROVE Order'
  BY <1>3, CloseStill, StillOrder, DropPacketsOrder, ClearOrder, CloseSocketOrder, OnCloseOrder
     DEF Closing
<1>4. ASSUME NEW t \in Threads, Sending(t) PROVE Order'
  <2>1. CASE Write(t)
    BY <2>1, WriteOrder, SendStill, StillOrder
  <2>2. CASE ~Write(t)
    BY <1>4, <2>2, SendStill, LockStill, ReadyStill, UnlockStill, StillOrder DEF Sending
  <2> QED
    BY <2>1, <2>2
<1>5. ASSUME NEW t \in Threads, Receiving(t) PROVE Order'
  BY <1>5, DataStill, LockStill, UnlockStill, StillOrder, ReadOrder, ConsumeOrder, AnswerOrder,
     AnsweredOrder DEF Receiving
<1>6. ASSUME NEW t \in Threads, TimingOut(t) PROVE Order'
  BY <1>6, ReviewedStill, UnlockStill, PingStill, StillOrder, ClearOrder DEF TimingOut
<1>7. ASSUME NEW t \in Threads, Step(t) PROVE Order'
  BY <1>3, <1>4, <1>5, <1>6, <1>7, ClearOrder, NameOrder, AttachOrder, PollStill, TakeStill,
     StillOrder DEF Step
<1>8. ASSUME NEW t \in Threads, Accept(t) \/ Poll(t) \/ Review(t) PROVE Order'
  BY <1>8, AcceptOrder, PollStill, LockStill, StillOrder
<1> QED
  BY <1>1, <1>2, <1>7, <1>8, SendOrder DEF Next

LEMMA InitOrder ==
  ASSUME Init
  PROVE  Order
<1>1. /\ slot.counter = 0 /\ slot.protocol = None /\ slot.packets = <<>> /\ sock = None
      /\ armed = {} /\ dropped = {} /\ mixed = FALSE /\ strays = 0
      /\ urgent = <<>> /\ normal = <<>>
  BY DEF Init
<1>2. /\ DOMAIN inbox = Conns /\ DOMAIN outbox = Conns /\ DOMAIN asked = Conns
      /\ \A c \in Conns : /\ inbox[c] = <<>> /\ outbox[c] = <<>> /\ asked[c] = 0
                          /\ proto[c].uuid = 0 /\ proto[c].life = "none" /\ proto[c].buf = <<>>
  BY DEF Init
<1>3. \A t \in Threads : /\ thread[t] = Idle /\ Stage(thread[t]) = "other"
                         /\ Numbered(thread[t], 0) /\ ~Special(thread[t])
                         /\ \A l : ~Holds(thread[t], l)
  BY IdleNumbered, IdleShape DEF Init
<1>4. /\ <<>> \in Seq(Item) /\ Len(<<>>) = 0 /\ <<>> \o <<>> = <<>>
  OBVIOUS
<1>5. Ever = {}
  BY <1>2 DEF Ever
<1>6. Numbers
  <2>1. DOMAIN <<>> = {}
    OBVIOUS
  <2>2. Tasked(0)
    BY <1>1, <2>1 DEF Tasked
  <2> QED
    BY <1>1, <1>2, <1>3, <2>2 DEF Numbers
<1>7. Requested
  <2>1. 0 \in Nat /\ FALSE \in BOOLEAN /\ None \in Conns \cup {None}
    OBVIOUS
  <2>2. \A c \in Conns : /\ proto[c].buf \in Seq(Item)
                         /\ inbox[c] \in Seq(Item) /\ outbox[c] \in Seq(Item)
                         /\ asked[c] \in Nat
    BY <1>2, <1>4, <2>1
  <2>3. /\ slot.packets \in Seq(Item) /\ sock \in Conns \cup {None}
        /\ strays \in Nat /\ mixed \in BOOLEAN
    BY <1>1, <1>4, <2>1
  <2> QED
    BY <1>2, <2>2, <2>3 DEF Requested
<1>8. Attached
  BY <1>1, <1>3, <1>5 DEF Attached
<1>9. OneSocket
  BY <1>2, <1>3 DEF OneSocket, Special, Making
<1>10. ASSUME NEW c \in Conns PROVE LineOk(c)
  <2>1. Line(c) = <<>>
    BY <1>1, <1>2, <1>4 DEF Line, Waiting, Unanswered
  <2>2. Own(c, 0, <<>>) /\ Rising(<<>>) /\ Gapless(<<>>)
    <3>1. 1 .. Len(<<>>) = {}
      BY <1>4
    <3> QED
      BY <1>4, <3>1 DEF Own, Rising, Gapless
  <2> QED
    BY <1>2, <1>4, <2>1, <2>2 DEF LineOk, Good
<1>11. Bounded
  <2>1. Limit \in Nat /\ Len(slot.packets) = 0
    BY <1>1, <1>4, HttpAssumption DEF Limit
  <2>2. \A t \in Threads : Todo(thread[t]) = 0
    BY <1>3 DEF Todo
  <2> QED
    BY <2>1, <2>2 DEF Bounded
<1> QED
  BY <1>6, <1>7, <1>8, <1>9, <1>10, <1>11 DEF Order, Plain, Ordered

LEMMA OrderHolds == Spec => [](Inv /\ Order)
<1>1. Init => Inv /\ Order
  BY InitLives, InitOrder
<1>2. Inv /\ Order /\ [Next]_vars => (Inv /\ Order)'
  BY NextLives, NextOrder DEF Lives
<1> QED
  BY <1>1, <1>2, PTL DEF Spec

(* For any number of threads, connections, requests and events, and while  *)
(* no system call and no close has met another connection than it meant:   *)
(* what fio_flush writes to a client are the answers to its own requests,  *)
(* in the order it sent them, and none is left out before one that is      *)
(* written unless the connection was closed and has lost it.               *)
THEOREM AnswersInOrder == Spec => []OwnAnswersInOrder
<1>1. Inv /\ Order => OwnAnswersInOrder
  <2>1. ASSUME Inv, Order, Ordered, NEW c \in Conns
        PROVE  /\ \A n \in DOMAIN outbox[c] : outbox[c][n][1] = c
               /\ \A m, n \in DOMAIN outbox[c] : m < n => outbox[c][m][2] < outbox[c][n][2]
               /\ c \in dropped \/ \A n \in DOMAIN outbox[c] : outbox[c][n][2] = n
    <3>1. Good(c, outbox[c]) /\ outbox[c] \in Seq(Item)
      BY <2>1, Written, LineTyped
    <3>2. DOMAIN outbox[c] = 1 .. Len(outbox[c])
      BY <3>1
    <3> QED
      BY <3>1, <3>2 DEF Good, Own, Rising, Gapless
  <2> QED
    BY <2>1 DEF Order, OwnAnswersInOrder
<1> QED
  BY <1>1, OrderHolds, PTL

(* For any number of threads, connections and requests, and any pipeline   *)
(* limit: no more answers wait for a client that reads slowly than         *)
(* http1_consume_data lets through and one pipeline more, and one for each *)
(* pass of a task of an earlier connection, which is not throttled.        *)
THEOREM FewAnswersWait == Spec => []WaitingBounded
<1>1. Order => WaitingBounded
  BY DEF Order, Ordered, Bounded, Limit, WaitingBounded
<1> QED
  BY <1>1, OrderHolds, PTL
=============================================================================
