# Verification of rinhabackend2023Q3

A TLA+ development beside the C web service of this repository: an HTTP API
for people ("pessoas") over PostgreSQL, served by two facil.io servers behind
nginx through a hand-written database layer. Paths below are relative to
`src/`; `db.c`, `db.h` and `db_postgres.h` are in `src/src/`.

Contents: [inventory](#inventory), [modules](#modules-and-the-code),
[runs](#runs), [fairness](#fairness), [proofs](#proofs),
[divergences](#divergences), [what is left out](#not-modelled), [plan](#plan).

## Inventory

The repository's own code is about 3000 lines of C, SQL and Scala; facil.io
(40,000 lines) is vendored, and of it the paths a request takes through the
server are modelled too. A request travels: nginx, one of the servers, the
buffer and the parser of its connection, a task on one of facil.io's threads,
`on_request` (`main.c`), a query of `models/pessoas.h`, `db_exec` (`db.c`), a
connection of the pool, Postgres, and back through the results, written as
JSON, to the handler, which answers exactly once; the answer waits in the
descriptor's list of packets until the socket takes it.

| Component | State | Operations | Hard | Correct when |
|---|---|---|---|---|
| Connection pool (`db_postgres.h` 90-118, `db.c` 373-427) | array of `PGconn*`, `available_connection`, mutex | `db_request_conn_postgres`, `db_return_conn_postgres`, the retry loop of `db_exec` | both functions test the counter before they take the mutex | a connection serves one thread, none is lost, no access leaves the array, the pool refills, calls return |
| Connecting (`db_postgres.h` 32-88, 121-172, `main.c` 44-96) | `db->state`, the array, libpq's state of each entry | `db_create`, `db_connect`, `db_stat`, `db_destroy`, main's loop | asynchronous connections, failure of one of several | requests are served only with all connections up; each is freed once; main gives up or serves |
| Query execution and results (`db_postgres.h` 13-29, 630-937, `db.c` 687-756) | `db_results_t`: code, entries | `db_exec_function_postgres`, `db_results_*` | which errors keep the code `ok` | no entry is read that is not there |
| Array literals (`db_postgres.h` 740-853) | cursor, count, values | encode, count, take apart | two loops over one text must agree | no write outside the allocation; what was sent comes back |
| Date check (`models/date.h`) | the text, which it overwrites | `date_check` | count and length of fields | accepts dates, refuses months and days that are none |
| Handlers and queries (`main.c` 99-396, `models/pessoas.h`, `db/init.sql`) | the table; the response of each request | count, search, by id, create | servers, threads, deaths, restarts, broken connections | nicknames are unique, created people are found, counts cover them, every request is answered |
| Worker processes (`main.c` 60-89, `fio.c` 3831-3944) | sockets, libpq's buffers per process | fork, send, read, die | processes share what main connected | a call gets the answer to its own statement |
| Parameters (`db.c` 224-371) | none | `db_param_new` | null elements of arrays | invalid parameters are found |
| Growing strings, JSON (`string+.c`, `db.c` 577-685) | buffer, length, capacity | concatenate, format, render | capacity, truncation | no write outside the buffer; the text is JSON |
| Task queues (`facil.io/fio.c` 825-1089, 3700-3832) | two chains of ring blocks, each with a spin lock; the threads' loop | `fio_defer`, `fio_defer_perform`, `fio_cycle`, clean-up of a worker | blocks that are reused while others read them; tasks pushed while the server stops | first in first out, each task once, no block leaks or is used after its free, nothing is left behind |
| HTTP connections (`fio.c`, `facil.io/http1.c`) | a slot per descriptor (counter, protocol, packets, locks), the epoll set, protocol objects, tasks | accept, attach, events, read, answer, flush, throttle, time out, close | a uuid kept over a database call, descriptors that are used again, close against callbacks | a client gets its own answers in order; a protocol object is closed once, when no callback runs |
| Request parser (`facil.io/http1_parser.h`, `http1.c` 640-776) | buffer, position, state of the parser | read, parse, deliver, move the rest | a request cut into reads anywhere, several in one read | every request is delivered once, with its body |
| Start-up data (`varenv.h`), vendor and oid maps, `dbtest.c` | - | parsing, tables | - | - |
| nginx, docker, Postgres, libpq, facil.io | external | | restarts, order of answers | |

`PROJECT.json` lists the hazards of each at the line where they bite.

## Modules and the code

**ConnPool** (state machine, every access to shared memory is a step).
`connections`, `available_connection` and `connections_lock` are the fields of
`db->context`; `pc`, `conn` and `retries` are the locals of `db_exec`. `Check`,
`Lock`, `Take`, `Inc`, `Unlock` are the lines of `db_request_conn_postgres`;
`GiveBack`, `Relock`, `Dec`, `Put`, `Reunlock` those of
`db_return_conn_postgres`; `Call`, `NoConnection`, `Exec`, `Refuse` are
`db_exec`. Reads outside the mutex are data races in C; they are modelled as
atomic reads of the current value, which is what the build does with an
aligned word. Accesses behind the array meet words whose content is chosen at
the start (null, or something that is no connection) and then keep what is
stored in them; to use one that is no connection kills the process (`crashed`).

**PoolService** is the abstract pool: ask, be granted a connection nobody
uses, or be refused; release. `ConnPool!ImplementsPool` and
`ConnPool!ImplementsServing` are the refinements, with `wanting` and `using`
computed from the locals.

**DbConnect** is main's thread from `db_create` to its end: `ConnectFirst`,
`StartOne`, `StartFails`, `CleanUp`, `StartDone` are `db_connect`, `Poll` and
`EndPass` are `db_stat` with main's `switch` around it, `Destroy` is
`db_destroy`. What libpq answers is a choice. `SizeMax` bounds the `size_t`.

**QueryResults** (operators): the code that an answer of libpq becomes
(`ResultCode`), the entries (`Results`), and the checked reads. Reading the
type of an entry that is not there is the value `Fault`. Fields are records of
a type and a value: the conversion of numbers is not modelled further.

**PessoasApi** composes the handlers with those results, the pool's service,
the table and the failures. `Handle` is a handler up to its call of `db_exec`
(it runs without shared state), then `Acquire`, `Refused` or `Overrun` (the
pool), `Execute` (Postgres commits), `Answer` (`PQexecParams` returns, and
`Results` turns it into code and entries), `Finish` (the rest of the handler),
`Rest`. `Die`, `StartServer` and `RestartDb` are the failures. Text is a
nickname, or a class of text that a check of `on_post` tells apart; `Sent`
says that the first response wins, as `http_send_body` does with a handle that
was used. A statement that is in Postgres when its server dies has executed
before, or never does.

**PessoasRegistry** is what clients rely on, without servers and threads.

**WorkerProcesses** has the sockets, the buffers of libpq and the workers; a
message is tagged with the call it belongs to.

**ServerProcess** composes `DbConnect` and `WorkerProcesses`: main connects,
then `fio_start`'s threads call `db_exec` on what it connected, then main
frees it. `Crash` is a fault at any time while it serves, whatever its
threads are doing (`Die`): the worker of `docker-compose.yml` is the process of
main itself, which begins again.

**TaskQueue** is `fio_defer` and its threads. `reader`, `writer`, `block` are
the fields of the two `fio_task_queue_s`; a block has its ring, `write`,
`read`, `state` and `next`, and `heap` says which of the heap's are allocated.
`Push` and `Pop` are each one step, as the spin lock covers them; `Free` is
the free after the lock. `Step`, `Defer` and `Return` are a performer and its
task, `Again` is `fio_cycle` pushing itself, `Check` is the loop of
`fio_defer_cycle`, `CleanUp` and `End` are `fio_worker_cleanup`, whose several
rounds of tasks are one round. Naps only delay, and are left out; a `malloc`
that fails ends the process.
**TaskFifo** is its abstract specification: queues of tasks, and who runs one.

**HttpConnection** is one descriptor. `slot` is `fd_data(fd)` (its counter is
part of the uuid), `armed` what epoll waits for, `proto` the objects of
`http1_new` with the three locks of a protocol, `urgent` and `normal` the
tasks, by what `TaskQueue` shows sequences. A thread has a place and a stack of
returns, because `fio_flush`, `fio_close` and `fio_force_close` are called
from several places. What a spin lock covers is a step (so nobody finds
`protocol_lock` taken); every read of shared state outside a lock is a step of
its own. An error of `write` leads to the close, or, as ECONNRESET does, leaves
the packet where it is. The client sends whole requests,
hangs up, or reads slowly. The handler is the step `Answer`. Three variables
only remember what the properties speak of: `dropped`, the connections that a
close took answers or unanswered requests from; `mixed`, that a system call or
a close met another connection than it meant; `strays`, how often a task of an
earlier connection passed over the requests of the present one.
**ProtocolLife** is what facil.io promises of a protocol object: callbacks
under locks, only while it is attached, `on_close` once and alone.

**HttpParser** is the buffer of `http1.c` and `http1_parse`: a request is a
sequence of tokens (a line, CR, LF, a byte of its body), `OnData` reads any
number of them, and each turn of the parser is an action. `beyond` remembers
that the parser looked at the memory behind the data.

**JsonEntries** is `db_json_entries`: a step for each piece it writes, every
one through `Cat` (`_string_cat_raw`) or `CatFmt` (`string_cat_fmt`, which
cuts). A text is a sequence of pieces with their sizes in bytes.

**StackArray** follows a stack through the literal of
`db_exec_function_postgres`, the reading and printing of Postgres (external:
array_in, array_out, token by token) and the two loops of
`db_process_entries_postgres`. A text is a sequence of tokens: words, and
commas, braces and quotes. Backslashes, white space and the word NULL are left
out.

**DateCheck** runs `date_check` one field at a time; a field is the number of
its digits, its value and whether it holds another character. `passed` is what
is left of the text when dashes have become NULs.

**TextCode** puts the four sequential modules into one state space, of which a
behaviour runs one; they share nothing.

Modules whose name begins with `MC` give the constants small values.
Definitions whose name ends in `Bug` are the definition after them with a
mistake; no action uses them. They show that the properties notice.

## Runs

| Run | Instance | Shows |
|---|---|---|
| `pool_enough` | 3 threads, 3 connections | no access leaves the array, the pool refills, refinement of the pool that always serves |
| `pool_oversubscribed` | 3 threads, 1 connection | exclusive use, nothing lost, the counter covers, bounded overrun, refinement of the pool, every call returns |
| `server_process` | 4 connections, 4 threads, 2 deaths, `SizeMax` 7 | serves only when all connections are up, frees each once, every call gets its own answer, start-up ends |
| `connect_cleanup` | 3 connections | violation: the clean-up frees nothing |
| `api_compose` | 2 servers x 1 thread, 1 connection each (docker-compose.yml), 2 nicknames, 3 ids, limit 2 | created people are found by id and by search on any server, no fault, every request is answered |
| `api_faults` | 1 server, 2 threads on 1 connection, 2 ids, every kind of odd request, deaths, 1 restart of Postgres | registry refined, known nicknames refused, counts cover, refused searches stay refused |
| `api_lost_read` | as `api_faults`, no restart | violation: a person that exists is answered 400 |
| `api_null_read` | 2 servers x 1 thread | violation: an answer without rows is read |
| `task_queue` | 2 threads and main, blocks of 2 tasks, 2 heap blocks, 4 tasks | no block leaks or is used after its free, refinement of the queues, every task is performed, none is left |
| `http_connection` | 2 threads, 2 connections on one descriptor, 4 events | own answers in order, few answers wait, refinement of the life of protocol objects |
| `text_code` | see below | the parser delivers what was sent, dates, arrays and JSON are right and in bounds |
| `http_split` | as the parser of `text_code` | violation: a body that is not the one sent |

Why the bounds are enough:

- *Pool.* Overrun needs two threads beside the one that has the last entry (3
  on 1); with `Retry` 2 a call can lose once and win, and lose for good (the
  code has 5: more of the same step). `pool_enough` uses the symmetry of its
  identical threads.
- *API.* Three ids and a limit of 2 make a search that is cut. Two threads on
  one connection reach every order of two requests, and one restart hits every
  place of each.
- *Server.* Two deaths show a death after a restart. Four connections come up
  in every order, with one failing in every place.
- *Tasks.* Blocks of 2 fill, wrap and are followed by the other static or heap
  block with 4 tasks and `fio_cycle` itself; 2 heap blocks are never used up,
  so that the instance does not hide an allocation.
- *HTTP.* `MaxEvents` counts connections, requests, hang-ups, timeouts and
  full socket buffers together. With 4, a descriptor is used twice with a
  request on each, a client is throttled and resumed, an answer meets a
  connection that is gone, and a timeout races a request. `MaxPending` 0 and
  `Pipeline` 1 (4 and 8 in the code) let one waiting answer throttle and two
  requests make a forced event.
- *Parser.* Two requests of three shapes, and three bare ones, with a buffer
  of 12 tokens and 2 taken at once (8192 bytes and 8 in the code): every cut of
  the bytes into reads, a buffer that wraps to its front, and a forced event.
- *Dates.* Up to four fields of 0 to 10 digits with values at the bounds and
  about ten characters in all: the check treats all fields after the third
  alike.
- *Arrays.* All stacks of up to 3 texts out of 14 kinds.
- *JSON.* A text of every length from 0 to 260 with the code's own limits (100,
  50, 255), a row of two columns of every type, two rows.

Bounds inside a model are `MaxRestarts`, `MaxDeaths`, `SizeMax`, `MaxTasks`,
`MaxConns`, `MaxEvents`, and `MayInsert`, by which a post waits until there is
a fresh id for it.

`CHECK_DEADLOCK FALSE` stands where the program or what drives it ends:
`server_process` and `connect_cleanup` (the process exits), `task_queue`
(`fio_start` returns), `http_connection` (every client may be gone),
`text_code` and `http_split` (the functions return), and
`pool_oversubscribed` (a junk pointer kills the process).

## Fairness

- `ConnPool`: weak fairness of every step of a thread (the scheduler runs it,
  `PQexec` returns), strong fairness of taking the mutex (a waiter may lose
  races, not for ever: futex-based mutexes wake waiters and a holder leaves in
  a few instructions). None for `Call`: a thread need not ask again.
- `DbConnect`, also in `ServerProcess`: main runs; a connection in progress is decided in the end (the
  kernel's connect timeout), so strong fairness of an answer at each index.
- `PessoasApi`: weak fairness of every thread's handling, and of the death and
  restart of a server (`restart: always`). None for clients or for Postgres'
  restarts.
- `TaskQueue`: weak fairness of every thread's steps. None for what pushes
  tasks or for the signal that stops the server.
- `TextCode`: sequential code goes on while it can.
- `HttpConnection`: none. That a request is answered in the end is not
  claimed: a client that is throttled may not be resumed (see below).

## Proofs

Checked by TLAPS for all values of the constants, under the assumptions named
in the modules (finite sets of threads, at least one connection and so on).

**ConnPoolProofs.** `Base` = types + mutual exclusion + what each place says
of the locals + `CounterCovers` + `OverrunBound` is inductive; the types need
the overrun bound (an index stays inside the words the model has), which needs
`CounterCovers`, which needs the mutex. `ExclusiveUse` and `NothingLost` are
inductive together with `Base`: the boundary between taken and free entries
(`FirstFree`) moves by one over the entry of the thread inside the critical
section. With at least as many connections as threads, `EnoughInv` bounds the
counter by the number of threads between check and return: from it follow
`NeverRefused`, `InBounds`, `PoolRefills` and the refinement of the pool that
always serves. Both refinements are proved step by step.

**PessoasApiProofs.** `IInv` speaks of the table (unique nicknames, told ids
are registered) and of each thread by itself; the step of one thread changes
the table only by adding a person, which keeps what the others know (`Frame`).
The clause that carries the argument: an answer on its way to a post is an
error, or one row with the id of a person who has the nickname of the post and
of whom no client had been told when the post was sent. From it follow the
refinement of the registry and `KnownNicknameRefused`.

**PessoasReadProofs.** A step is for each thread an action of its own, a reset,
or only a growth of the table (`StepKinds`). A count lies between what was told
and what there is when Postgres counts, and stays there because the table does
not shrink. For the reads of people and for `NoFault` the theorems assume what
`docker-compose.yml` sets up, a connection for every thread, and that Postgres
does not restart (`Calm`); then every answer arrives with the code `ok`, and a
select returns the people it is asked for or as many as the limit, by counting
the rows of an injective choice. `NoFault` also assumes posts whose fields are
text and whose stack can be stored: `api_null_read` shows what happens
otherwise.

**ServerProcessProofs.** `MainInv` says what the array holds at each place of
main: in the clean-up of `db_connect` the entry that is freed is the NULL one,
so `PQfinish` does nothing there; in `db_stat` every entry that was passed
while `all_ok` stood was up; after `db_destroy` nothing is freed again. From it
follow `ServesOnlyConnected`, `FreedOnce` and the types of the composed module;
`OwnAnswer` follows from the invariant of `WorkerProcesses`, as main's steps
leave the workers alone or reset them: with one process, request, answer and
buffer of a connection together hold at most one message, that of the thread
using it.

**HttpConnectionProofs.** `HttpConnection` implements `ProtocolLife`. The
invariant says that the descriptor's object is attached and live; that an object
whose `on_close` is queued or running is live, was attached before, is no longer
the descriptor's, and has one such task or thread; that threads making objects
are apart; and that a thread holds the lock of the callback it is in, also while
it is in `fio_flush` or `fio_close` called from there, which its stack of return
places tells. Most steps leave objects, locks and close tasks alone
(`QuietStep`); those that clear, name or attach, take a task, lock, unlock or
accept are treated one by one.

**HttpOrderProofs.** What is written to the clients. The *line* of a connection
is what was written to it, then what waits in the packets, then what was read
and not answered, then what was not read. The invariant says that a line holds
requests of its own client only, in their order and, until a close takes a piece
out of it, all of them. A client that sends makes the line longer, a close or a
drop cuts a piece out of it, and every other step only moves a boundary: reading,
answering, writing. Between `Answer` and `Answered` a request is in the packets
and still in the buffer, so the line counts it once (`Gave`), and at most one
thread is there, because it holds the task lock of `HttpConnectionProofs`. That
answers go to the right socket needs `OneSocket`: the socket is that of the
connection with the current uuid, or of the one about to get it. All this is
claimed until `mixed` is set, as the code then breaks it. The bound on waiting
answers counts, with the packets, the answers that a thread may still give
before it looks at `fio_pending` (`Todo`).

**TaskQueueProofs.** `LaidOut` lays a chain out: its blocks one by one, no block
twice, each leading to the next and holding a task unless it is the last, which
is `writer`; and the tasks of the first i blocks. `Sound` says that there is such
a layout, so the proofs follow chains of any length, and what a ring holds is
the part between `read` and `write`, which may wrap. That a step keeps the chains
needs that blocks are in one place (`Owned`): in one chain, with a thread about to
free them, or with the allocator; otherwise a block that is appended or freed
could be one of the other chain. The tasks of the last block of the layout are
the sequence of `TaskFifo`: `Push` appends to it whether it stays in the block,
takes the static one or allocates one, and `Pop` takes its first whether it
empties the block or not. `NothingLeft` needs what the places of the worker that
cleans up say about the queues (`Ending`). `TypeCorrect` says beside the types that a
thread at a place where it runs something has a task: what `Pop`
takes is the first of `Contents`, never the junk of a slot nothing was put in,
and `Places` carries it from there. The functions that the module defines
by recursion over a chain are shown to exist, and to be the layout, by
induction.

**TextCodeProofs.** Of `date_check`: every field that was passed is free of other
characters, and the second and third were in range when they were passed. Of the
arrays: what Postgres prints starts with a brace, so the commas and opening
braces the first loop counts are more than the commas the second one has passed,
and the value it sets is one of those allocated.

The proofs about texts of any length rest on one lemma of induction over the
numbers and one over finite sets. With them the folds that sum lengths and that
put texts one behind the other are shown to add one element at a time (`AddsUp`,
`FlattenAt`), and everything else follows the code from one place of a text to
the next:

- `GoodDatesPass`: while the loop is inside the date, its fields are the same
  and were long enough and numbers in their ranges, so no check refuses it.
- `RowsBecomeJson`: `WrittenInv` says, for every place of `db_json_entries`,
  what the string is: the brackets, the rows before this one, the columns before
  this one, the items before this one. Each step writes one piece more, which is
  the next of the text the places stand for. The buffer of `string_cat_fmt` cuts
  nothing off: with `NameLimit > 7` the names the source uses fit it.
- `WordsComeBack`: in a literal of words every element lies between the brace or
  comma that `LiteralLaid` places and the next. `WordsInv` says where the cursors of
  Postgres, of the loop that counts and of the loop that copies are among them and
  what each made of the elements before: words, their number, values.
- `RequestsArrive`: `StreamLaid` lays the requests out in the stream. Until
  the parser looks behind the data, `ExactInv` says that the buffer and
  what was not read are the rest of the stream (`DataInv`), at which line or byte of
  which request the parser is and what it remembers of it (`StageInv`), that
  the bodies of the requests before were delivered (`BodiesInv`), and that a
  call of the parser only returns to wait when there is something to wait for
  (`PlaceInv`). The last part is what rules out that the server holds a whole request
  and does not answer it.
- `TextsInBounds` and `TextsTyped` join the four: the decoded values and the JSON
  stay in the memory allocated for them, what was read of a stream in its buffer.

Only model-checked: liveness (`CallReturns`, `StartupSettles`,
`RequestsAnswered`, `TasksPerformed`, `DecodeEnds`), which is beyond the prover.
Of `DecodeEnds` everything but the fairness is proved (`DecoderGoesOn`): the loop
is always at a token that one of its branches takes, a closing brace is still
ahead, and each step takes a token.
Every safety property of the passing runs is proved. Statements about data of
any length (a chain of blocks, a line of requests) are proved by induction over
the natural numbers, for which the set of the numbers that have the property
stands in for an operator parameter.

## Divergences

Shown by a run, with the quoted text in `PROJECT.json`:
`connect_cleanup`, `api_lost_read`, `api_null_read`, `http_split`.

Met while modelling, visible in the modules, without a run of their own:

- Oversubscribed pool (`db_postgres.h` 93): two threads pass the bound check
  for the last entry; the loser increments behind the array, gets NULL and
  never decrements. The counter stays above zero and a returned connection
  lies out of reach: `PoolRefills` needs a connection per thread.
- Several workers (`.env.template` line 4): with 2 processes in
  `WorkerProcesses`, `OwnAnswer` fails, because each process has its own copy
  of the pool over the same sockets. `docker-compose.yml` uses one worker.
- `date_check` leaves only the year in the text that is inserted, and accepts
  ten digits without a dash (`models/date.h` 14, 32).
- A person without a stack is returned with a stack of one empty text: the
  brace of `{}` is counted (`db_postgres.h` 749). Braces of inner or quoted
  elements are counted as values that are never set.
- `on_post` frees `key` twice when a stack element is too long (303, 327), and
  calls `strlen` with a NULL string for fields that are no text.
- A creation is answered 500 when no connection is free.
- A search matches whole texts: the query has `like` without wildcards, so
  only a client that sends them searches for parts.
- A malformed id is answered 400; the branch for 422 in `on_get_uuid` (228) is
  never reached, because results with that code have no entries.
- After a restart of Postgres `db->state` stays connected and the dead
  connections go round until the process dies.

- Texts are written into the JSON without escaping quotes or backslashes, and
  cut at 254 bytes with their closing quote (`db.c` 623); `RenderedIsJson`
  is claimed for the others.

facil.io, met in `HttpConnection` (its ghost variable `mixed` remembers that
one of them happened to a connection; `OwnAnswersInOrder` is claimed until
then) and in `TaskQueue`:

- `fio_force_close` tests the uuid once (`fio.c` 2894): two closers of one
  connection can both pass, and the slower one closes the next connection on
  the descriptor.
- `fio_poll` makes the uuid of an event from the slot as it is by then (1729),
  and `fio_read` tests the uuid before it reads (2759): what is read may belong
  to the connection after.
- `fio_fd2uuid` opens a slot that was just closed (405), from
  `fio_review_timeout`, which then pings it; `deferred_on_ready_usr` (2160)
  looks at no uuid.
- A throttled client is resumed by `on_ready`: when the last packet leaves
  between `fio_pending` (`http1.c` 680) and setting the flag, nobody resumes it.
- `fio_close` marks a connection when it has packets (2881), and `fio_flush`
  looks at the mark when it has sent one (2974): when the last one leaves
  between the test and the mark, the close waits for a timeout.
- The counter of a uuid has 8 bits (`fio_clear_fd`): after 256 connections on a
  descriptor an old uuid is valid again. The model counts without a limit.
- `fio_defer_has_queue` (1063) reads the queues without their locks; it is used
  only to decide about a nap.
- A task of `on_data` that passed `fio_is_closed` (2193) before its connection
  was closed locks the object of the next connection on the descriptor (2198);
  `fio_pending` of its old uuid is 0 (2864), so it answers that client's
  requests without throttling it. `WaitingBounded` allows a pipeline of answers
  for each such pass (`strays`); a fixed bound of one pipeline does not hold.
- When `on_request` finds its connection closed, the unread rest of the buffer is
  dropped (`http1.c` 551), while a thread that is past the test of `on_data`
  goes on to answer requests sent later: the client sees a gap.
  `OwnAnswersInOrder` counts such a connection among the dropped ones.
- A request that fills the buffer is answered 413 again with every read
  (`http1.c` 698).

## Not modelled

In the repository's own code: `db_param_new` and its constructors fill a record
from their arguments (the tests for NULL elements look at the scalar tags and
never find any), `db_results_destroy` and `db_print_results`, `varenv.h`
(parsing of a file before anything runs), `dbtest.c` (a manual test of an older
schema), vendor and oid maps (data). In a JSON row, booleans, floats and arrays
of integers are rendered as integers and arrays of texts are.

In facil.io: the parser of JSON bodies and fiobj objects, taken as delivering
the fields of a post; chunked bodies, which nginx does not pass on, and a
Content-Length that is repeated; writes of a part of a packet;
hijacking, shutdown of open connections, TLS hooks, static files and the
Slowloris test of `HttpConnection`'s code; timers, the command line and logging.

How much of the source is covered: of 43,000 lines, 40,000 are vendored
facil.io, and most of those are HPACK, Mustache, OpenSSL, WebSockets,
publish/subscribe, Redis, and the fiobj containers, which this program does not
call, macros, and documentation in headers. The map covers nearly all of the
program's own concurrent and failure-handling code and the paths of facil.io
that a request takes; a share like a third of all lines could only be
had by modelling code that never runs here.

Performance, logging and the wording of answers are left out throughout.

## Plan

Done, in this order: the pool and its service, connecting, results, the
handlers over both, array literals, the date check, worker processes and
their composition with main; then the task queues, the HTTP connections, the
request parser and the JSON of results.

Proved since: the refinements and invariants of the pool, the registry, the
life of protocol objects, the order of answers, the task queues, dates, array
literals, JSON and the request parser.

Left: statements that outlive their server (an insert that commits after the
process that sent it has died); the release of results; a descriptor with
more events, whose state space is beyond a run of some minutes.
