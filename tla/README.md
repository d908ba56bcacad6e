# A formal model of penguinTrace

penguinTrace is a debugger with a web interface: an HTTP server compiles a
program, runs it under ptrace and lets a browser step through it. This directory
holds TLA+ modules that model the server's own logic and the page it is used
from, the TLC runs that check them and TLAPS proofs about them. Paths below are
relative to the repository (`src/` here).

## The system

### Threads

| thread | code | what it does |
|---|---|---|
| main | `PenguinTrace::run` | watches the keyboard (q, l, k) and SIGINT, prints log messages |
| server | `WebServer::run` | accepts connections, answers one request at a time, removes finished sessions |
| readers | `WebServer::readRequest` | one detached thread per connection, fills the request queue |
| workers | `Session::processTaskQueue` | one per session, runs its commands; all ptrace calls are made here |
| page | `penguintrace.js` | a browser's event loop: clicks, timers and answers, one at a time |

### Components

| component | state | operations | hard behaviour | what makes it correct |
|---|---|---|---|---|
| `Session` | task queue, thread, `taskQueueRunning`, `pendingStop`, `pendingRemove`, compile failures, parser, stepper | enqueue, stop, cleanup, the worker's loop | two mutexes, unlocked reads, a thread object that is recreated | FIFO, one command at a time, stop and cleanup take effect |
| `SessionManager`, `SessionWrapper` | map of sessions, map of session locks | create, lock, remove, end all, clean finished | locks taken inside locks, join with a mutex held | no deadlock, nobody uses a destroyed session |
| response builders | none | one handler per route | read the session without the worker's mutex | state is read only while the worker is idle |
| `SessionCmd` | the command's arguments | compile, upload, parse, step, stdin | each may fail half way | every failure leaves something to report |
| `WebServer` | request queue, `running` | accept, read, answer, stop | partial reads, timeouts | every request is answered; shutdown ends |
| `PenguinTrace` | `running`, terminal attributes | q, l, k, SIGINT | runs beside the server thread | shutdown completes |
| `Stepper` | tracee, breakpoints, registers, stack trace | init, step, stdin, breakpoints | signals, syscalls, breakpoints inserted while stopped | memory restored, step loop ends |
| `Compiler` | pipes, child process | execute | fork, partial reads, exit codes | failures are reported |
| DWARF (`dwarf/`) | abbreviations, DIE tree, line table, frame info | line program, CFA rules, expressions, lookups | byte codes of variable width, state stacks | a pc maps to one location; unwinding inverts the calls |
| objects, disassembler | sections, symbols | parse, disassemble | library calls | - |
| `Logger`, `IdGenerator`, `Config` | message queue, counters, settings | log, next id, set | logging from every thread | names are unique |
| web interface (`static/js/penguintrace`) | page state, session name, polls to come, listing, markers, highlights, tables, popup | buttons, gutters, timers, answers, popup, page load | requests that overlap, timers racing answers, exceptions in handlers | the page shows the server's state; exchanges end |
| editor (`static/js/lib/codemirror.js`) | tree of lines, undo history, saved mode states, lines drawn | edit, undo, scroll, highlight in the background | caches that edits make stale | it behaves as if it were a plain sequence of lines |
| requests (`static/js/lib/jquery_3.3.1.js`) | deferred, callback lists, transport | send, answer, abort, attach handlers | handlers that throw, abort or attach | each handler of the outcome runs once |

The server thread, the workers and the main thread meet in `SessionManager`
and `Session`. That is where penguinTrace can deadlock, lose a command or use
a destroyed object, and what is modelled first.

## Modules

| module | what it is |
|---|---|
| `CommandQueue` | abstract: what a session promises to whoever hands it commands |
| `SessionQueue` | one `Session`: its worker and one caller, each section under a lock an action |
| `SessionQueueProps` | its properties, and the refinement mapping to `CommandQueue` |
| `SessionQueueProofs` | the inductive invariant, and the theorems |
| `SessionManager` | the composition: server thread, main thread, one worker per session, both kinds of locks, requests and commands |
| `SessionManagerProps` | its properties |
| `SessionManagerProofs` | the inductive invariants, and the theorems |
| `Stepper` | the step loop of one session, its breakpoints, and the process it traces |
| `StepperProps` | its properties, and what the theorems suppose of the program |
| `StepperProofs` | the lemmas about memory and breakpoints, the inductive invariants, and the theorems |
| `RequestReader` | the thread that reads a request from its connection |
| `EditorLines` | operators: an editor's lines as the page sees them, with their marks |
| `WebUI` | the page, its requests and timers, and the server as the page sees it |
| `WebUIProps` | its properties |
| `WebUIPageProofs` | lemmas about the page's operators: what each function of the interface keeps |
| `WebUIProofs` | the inductive invariant of page and server, and the theorems |
| `WebUITruthProofs` | what each request under way knows of the server and the page, and what a user who waits is shown |
| `AjaxRequest` | one request of the page through jQuery |
| `RequestProofs` | the two ends of a request, `RequestReader` and `AjaxRequest`: their inductive invariants, and the theorems |
| `LineTree` | the tree in which the editor keeps lines |
| `EditHistory` | the editor's undo history |
| `TextHistory` | abstract: what an undo history promises |
| `EditorView` | the editor's highlighting and the lines it has drawn, and its properties |
| `EditorViewProofs` | lemmas about reading states and moving views, the inductive invariant, and the theorems |
| `MCSessionQueue`, `MCSessionManager`, `MCStepper`, `MCWebUI`, `MCParts` | the instances TLC checks |

### SessionQueue

`queue` is `taskQueue`: numbered commands. The variables `taskQueueRunning`,
`thread`, `pendingStop` and `pendingRemove` are the fields of the same name;
`task` and `run` are the locals of `processTaskQueueImpl`, and `worker` its
program counter. There is one action for each stretch of the loop between two
lock operations (`Fetch`, `RunTask` or `Throw`, `Pop`, `CheckEmpty`,
`CheckStop`) and one per method for the caller (`EnqueueCommand`, `EnqueueStop`,
`SetRemove`, `CleanupBegin`, `CleanupEnd`). The read of `taskQueue.empty()` at
`Session.cpp:236` holds no lock and is an action of its own. A command's front
slot stays in the queue, moved from, while it runs: that is what makes
`pendingCommands()` true meanwhile.

There is one caller because a session's methods are called under its session
lock or, for cleanup, by the thread that owns the map. `k` breaks that rule:
`SessionManager` models it.

`accepted`, `ran`, `seenEmpty` and `ranAtCleanup` are history variables.

### SessionManager

A member of `Session` is a Session object. `sessionMutex` is the manager's
mutex, `sessionLock[s]` an entry of `sessionLocks`. `threadMutex` and
`stopMutex` sections take no other lock and are single actions here. The
server thread goes through `CleanFinished` (top of its loop), takes requests
(`TakeRequest`) until `NoRequest`, and for each request goes through the steps
of its response builder: `CreateSession`, `InsertSession`, `EnqueueCompile`,
`EnqueueParse`, `Release` for compile and upload; `FindSession`, `LockSession`,
then `HandleStep`, `HandleStop` or `BeginState`/`ReadState`, and `Release` for
the others. `NoTempFile` is a compile request for which no temporary file can be
made: the wrapper is invalid, no session is created and the answer says so.
`NoState` and `TellRetry` are the two reads of `pendingCommands()` in
`StateResponseBuilder`: the second only decides whether the client is to ask
again, and the worker may pop a command in between. `Clean(t)` is what `endAllSessions`, `cleanFinishedSessions` and
the replacement in `createSession` have in common: the flag is reset
(`CleanSession`), the worker is joined (`Joined`), and the mutex is released
(`Cleaned`). The commands are reduced to what they change in the session:
failures, stepper, and the locks `ParseCmd` takes.

What ends the program is recorded in `fault`: destroying a joinable thread,
using a destroyed session, dereferencing a null stepper or a null session.

Requests arrive in any order and name any session, including one that does not
exist yet or any more. Constants that describe the environment: `MaxQueue`
(a client asks for no step while that many commands are queued), `PatientClient`
(nobody compiles while commands are pending), `MayThrow`, `MayQuit`, `MayKill`.

### Stepper

One worker thread (`StepCmd`, `StdinCmd`, and the first step that `ParseCmd`
makes), the server thread that queues commands and breakpoints, and the tracee.
`mem` is the tracee's memory in cells: ptrace reads and writes `Word` cells at
once, an instruction takes `Size`. A cell is the program's code, a breakpoint
instruction or a zero; `breakpointMap` holds the word each breakpoint replaced,
as in the code. `arch` chooses what differs between `x86_64/Stepper.cpp` and
`aarch64/Stepper.cpp`: where the program counter is after a breakpoint, and
library calls. `tracee` is the state of the process as waitpid sees it.

`step()` is cut at the points where the other threads or the tracee can act:
`BeginStep` (pushToPipe), `WaitStopped` or `WaitEnded` (doWait), `AddQueued`,
`AllAdded`, `RemoveQueued`, `AllApplied` (the section under breakpointMutex),
then `FirstStep`, or one of `StepInstruction`, `Continue`, `StepOverLibrary`
for allStep. `StepOnceMore` and `CommandEnds` are the loop and the two extra
calls of `StepCmd::run`; `call` says which call it is in. Whether a return from
main is seen is left open (`ReturnSeen`): the code peeks at the memory of a
tracee it has already resumed.

The traced program (`Trap`, `Execute`, `Fault`) is external: a graph of
instructions, some of which read input, fault, call a library or are system
calls that Stepper blocks. `lpc` follows where the program would be with nobody
tracing it; `strayed` records that the tracee executed anything else.

### RequestReader

`readRequest` with its locals `n`, `curLength`, `gotAll` and `tries`. Bytes are
counted, not kept: a request is a method, the lengths of its header and content,
and whether it gives its length. `FirstRead`, `Turn` (a turn of the loop up to
its read), `Read` and `Finish` are the reader; `Send` and `Leave` are the other
end, which delivers any number of bytes at a time. A read returns what is there
up to `Buffer`, 0 when the other end has closed, and -1 when the receive timeout
is over.

### WebUI

`ui` is the page: the fields of `ptrace` (`state`, `session`, `autoStep`,
`pollTries`, ...), the two editors as documents of `EditorLines`, the timers
that are set (`pollSession` and `pollStep` count them, `autoTimer` is the one
`ptrace.autoStepTimer` names, `strayTimers` those it has forgotten) and
`requests`, the bag of requests whose answer has not been handled. A function of
the interface is an operator from one page to the next, under its own name
(`ChangeState`, `CommonStateUpdate`, `BreakpointUpdate`, `PollSessionState`, ...);
an event handler is an action: the buttons (`PlayClick`, `FwdClick`, `StopClick`,
`LoopClick`, `GutterClick`, `StdinEnter`, `UploadClick`, `ExampleClick`,
`MoreClick`), the timers, `Deliver` (the handler of an answer, in any order),
the popup and `Reload`. `threw` says that the handler under way has thrown:
`Then` skips the rest of it.

`server` is what the response builders answer from: `Serve` is one request
(`ServeCompile`, `ServeState`, `ServeStep`, ...), `Work` one command of a worker
or the removal of a stopped session. It is coarser than `SessionManager` (no
locks, a request at a time, as the server thread is) and takes what those
modules show for granted: commands run in order, breakpoints agree with the map.
What a command leaves is the same whoever sees it end (`EndCompile`, `EndStep`,
`EndInput`): the worker on its own (`CompileDone`, `StepDone`, `InputDone`), or the
worker between the two reads of `pendingCommands()` that `StateResponseBuilder.cpp`
makes at 57 and 59 (`ServeLate`; `ServeNoState` is the answer when both say the
same). A compiled program waits for its first step with the breakpoint that
`firstStep` sets at its entry. A step applies the breakpoints queued, unless its
first wait finds the program ended; it may erase any it hits, and may leave one
where a library call that it stepped over returns (`StepMaps`; `returns` lists
such places of a program). A compile request may find no temporary file
(`ServeCompile`): the page goes back to idle.

`overlap` records that a request was sent, or a file chosen, while another
exchange was under way,
`excused` that something the interface does not handle has happened (a lost
request, an exception because the popup was still loading, input for a server of
several sessions, a forgotten timer, automatic steps started without a session,
an answer that ends the session while the timer of an automatic step is set,
a reload in the middle of an exchange, a page loaded again that is told of no
session because the last command ended between the server's two reads). They are the premises of what holds
only for a user who waits. `Stopping` is one more: in single session mode a page
loaded again is shown the session it was told to stop, until it is gone.

### The editor

`EditorLines` is what `WebUI` needs of CodeMirror: a line object with its
classes, widgets, gutter marker, and whether the interface still holds a handle
to it. `LineTree`, `EditHistory` and `EditorView` are the parts of CodeMirror
that make such a document.

* `LineTree`: `LeafChunk` and `BranchChunk`, as a value. Inserting cuts leaves
  (`SplitLeaf`) and spills branches (`Spilled`) on the way up, removing
  collapses what has become small.
* `EditHistory`: `done` and `undone` with their selection and change events,
  merged by operation, origin and time, dropped by `undoDepth`. Actions are the
  editor's own operations: `ReplaceRange`, `ReplaceSelection`, `SetValue`,
  `Select`, undo and redo with and without selections (`History`), and the
  passage of time. It refines `TextHistory` under a mapping that unwinds the
  events into the texts they restore.
* `EditorView`: the states saved after lines (`after`), the styles cached on
  them, `highlightFrontier`, `modeFrontier`, the background worker
  (`HighlightWorker`, which stops wherever its time is over) and the lines drawn.
  A block comment stands for what one line passes to the next. `margin` is
  `viewportMargin`: infinite in penguinTrace's editors, 10 by default. The loops
  over lines are recursive functions (`StateAt`, `PatchDisplay`) or say at once
  what the loop leaves on each line (`ContextBefore`, `Worked`). `TrueBefore`
  reads the document from its start, which the code never does: it is what the
  shortcuts are compared with.

### AjaxRequest

`$.ajax` from `Request` to the handlers: `Callbacks`, `Fire`, `Add` and `FireWith`
are jQuery's callback lists with flags once and memory, `Done` and `Abort` the
functions of those names. A handler returns, throws, aborts the request or
attaches another one, and may so start a loop of `fire` inside another: `calls`
is the stack of the functions under way. An event of the browser (`Request`,
`Answer`, `AbortRequest`, `Attach`) starts with an empty stack (`Idle`), and its
steps follow until the stack is empty again: the loop's next handler (`Call`) or
its end (`Fired`), what is left of `done` (`Complete`, `Count`), and the `.fail`
that penguinTrace adds to what `$.get` returned (`Fail`). An exception empties the
stack and leaves the lists as they are.

### MCParts

`RequestReader`, `LineTree`, `EditHistory`, `EditorView` and `AjaxRequest` share
no state and are small: one run checks them, each behaviour being one of one
part. Their order of steps among each other would show nothing.

## Runs

| run | instance | shows |
|---|---|---|
| `session_queue` | 3 commands, exceptions | all the properties of one queue, and that it refines `CommandQueue` with its fairness |
| `manager_multi` | 2 sessions, multiple session mode | no deadlock between the two kinds of locks; state is read while no command runs; cleaning up cannot block |
| `manager_live` | 1 session, 3 queued commands | a request that was taken does not hang on the locks, compilations settle, stopped sessions go away |
| `manager_single` | 2 session objects, single session mode, exceptions, q and k | what still holds when sessions are replaced and killed |
| `web_ui` | 2 sessions of 2 programs, both session modes, 12 users | the page shows the server's state to a user who waits, highlights and markers are where they should be, exchanges end if the commands do |
| `parts` | one part at a time, see below | the reader takes whole requests; the tree is a sequence; undo restores; highlighting settles right; handlers run once |
| `shutdown` | 1 session, q | violation: `ShutdownCompletes` |
| `kill` | 1 session, k | violation: `KillIsSafe` |
| `reconnect` | 1 session | violation: `ReconnectIsSafe` |
| `stepper` | 6 instructions as long as a word, both architectures, 2 breakpoint addresses, 1 command at a time | memory and `breakpointMap` agree, the program runs as it would alone, blocked calls are stepped over, descriptors are closed once, commands end but for the named cases |
| `clobber` | aarch64, 2 instructions to a word | violation: `NeverStrays` |
| `removed` | x86_64 | violation: `NeverStrays` |

Bounds. Three commands let one run, one wait and one arrive at each point of
the worker's loop; a fourth only repeats what the third can do. Two sessions
are enough for one to hold a lock another waits for (a deadlock needs a cycle,
and at most the server thread and one worker can be in it, since only the
server thread takes other sessions' locks), and for one to be removed while
the other works. Liveness is checked with one session: the fairness conditions
per worker make the two-session instance too large; that a second session cannot
block the first is what `LocksNest` and `FinishedNeverParses` say, with two. In
`manager_single` a session object is used up by each compilation: two are the
replaced and the replacing session.

The program of `stepper` has one instruction of each kind the code tells apart,
in a loop so that breakpoints are set before, at and behind the program counter;
two breakpoint requests between two steps are enough to set and remove, or
remove and set, the same address. Its instructions fill a word: breakpoints do
not overlap and do not reach the next instruction. That is a real restriction
(an instruction is 1 to 15 bytes on x86_64 and 4 on AArch64, a word is 8), and
`clobber` shows what happens without it. One command at a time is what the web
interface does: it waits for an answer before it offers the next step.

`web_ui`: a program of two instructions behind a section and a symbol, and one
with an instruction at an address of the first: listings of different length,
whose breakpoints can be confused. Two sessions are the one the page is attached
to and another (an older one, or the one that replaces it). A user is a set of
kinds of events, a number of clicks and whether they wait; five clicks are
enough to compile, set and remove a breakpoint and step; who has fewer has no
more to do with the events they are given. Users that do not wait make two
clicks, which is what it takes for two exchanges to overlap. 537,127 distinct
states. One
request may be lost. `MaxPollTries` of 1 lets a limit be passed, if it worked.

`parts`: the reader has a buffer of 2 and up to 6 bytes, so that requests end
inside a buffer, exactly at its end and after several. The tree has leaves of up
to 4 lines and branches of up to 4 children and holds 9 lines, enough for three
levels; insertions of up to 8 lines cut a leaf into many. The history is checked
twice, with an `undoDepth` that drops events (2) or few of them (4): over texts of 2
letters with 2 selections and 2 changes recorded, where positions move, and over
texts of one letter with 4 selections and 3 changes, where long histories are
undone and redone. The view has up to 3 lines, one of them visible, and a margin
that covers every line, as in penguinTrace, or none. `Slack`, `SaveEvery`, `Search` and `Early` are scaled down with the number
of lines (20, 5, 100 and 10 in the code), so that each limit is passed. A request
has at most 5 handlers.

Deadlock is not checked by TLC: a session ends after cleanup, and a fault ends
the program. What a deadlock of the threads would be is stated by `LocksNest`,
`FinishedNeverParses` and the liveness properties.

### Fairness

`SessionQueue`: weak fairness of the worker (the operating system schedules it
and commands end) and of the return of join. `SessionManager`: weak fairness of
each thread; strong fairness of `ParseFind`, since `sessionMutex` is taken and
released by the server thread with a sleep between its turns
(`WebServer.cpp:201`), and of `NoRequest`, since clients do not fill the request
queue for ever. No fairness is assumed of clients or of the operator. A step is
assumed to end: a tracee that waits for its standard input keeps its StepCmd,
and the worker, for as long as it does.

`Stepper`: weak fairness of the worker and of the tracee (both are scheduled),
and strong fairness of each branch of the traced program, which stands for a
program that ends: nothing could be said of the commands of one that loops for
ever. `StepEnds` has three exceptions, each of which is how the code behaves:

* `Starved`: the tracee waits for input. A StdinCmd that arrives then is behind
  the StepCmd in the same queue.
* `Faulting`: the tracee faults. Stepper resumes it without the signal, so it
  faults again; a step by line, or a continue, goes on for ever.
* `Caught`: a continue that starts elsewhere than at a breakpoint. The call of
  step() that finds the next breakpoint has `stepAgain` set by the one before,
  does not count it as hit and continues into it again, for ever, unless a
  request removes it.

`WebUI`: weak fairness of the browser, of the server's answers, and for each
session of its compilation and of its removal. None of steps and inputs: `Stepper`
shows steps that never end (`Starved`, `Faulting`, `Caught`), and an input waits
behind them in the queue. `Settles` therefore has the premise `CommandsEnd`, that
every session comes to be without steps and inputs again and again; it is about
what the page and the server make of commands that end, and a page that waits
for one that does not polls for ever. The browser's fairness is written `[]<>~Due \/ []<><<Browser>>_vars`,
which is `WF_vars(Browser)` with its ENABLED spelled out: evaluating it would
compute every handler twice. Users and the network owe nothing.

`StopRemoves` and `StopTakesEffect` assume that nobody keeps enqueuing commands for
a session that was stopped. Without this they are false: a stop is only looked at
when the queue is found empty. The premise of `StopTakesEffect` is that the caller
eventually enqueues nothing more (`<>[][accepted' = accepted]_accepted`). Since
`MaxCommands` bounds the caller, every behaviour of the run satisfies it; the run
shows nothing of a caller who goes on for ever, and the property claims nothing.

### What the violations mean

* `shutdown`: the worker is about to run ParseCmd, which needs `sessionMutex`;
  `endAllSessions` holds it and joins the worker. q or Ctrl-C within the time a
  compilation takes hangs the program.
* `kill`: the main thread resets `taskQueueRunning` while the server thread is
  between the two commands of a compile request; `enqueueCommand` then destroys
  the thread it has not joined. With the session already destroyed, the wrapper
  dangles.
* `reconnect`: a stop that arrives while the worker is between its two looks at
  the queue drops the ParseCmd; a state request that arrives before the server
  thread removes the session finds no failure and no stepper. The same happens
  on a second state request after the failures were reported.

* `clobber`: a breakpoint on the instruction in front of a loop, set while the
  program is in front of it, zeroes the loop's first instruction. When
  the first of two neighbouring breakpoints is removed, its word takes the
  second one out of memory; a later removal of the second one writes back the
  zeros it saved.
* `removed`: on x86_64 the program counter is one behind a breakpoint. Removing
  that breakpoint before the next step leaves it there. `Transparent`, which
  the `stepper` run checks, says that this is the only way for the program to
  stray when breakpoints do not overlap.

### What the passing runs say of the interface and the reader

Things a reader of the properties may wonder about, each at its line:

* The polling functions reset `pollTries` themselves (`penguintrace.js:127`, 381,
  535), so `maxPollTries` ends nothing. `Settles` holds without it, because the
  server's answers end every exchange whose commands end; for a step that never
  does, the page polls for ever.
* `pollSessionStateNoRetry` says "Will still retry if there are pending commands"
  (508), which is not always so. `StateResponseBuilder.cpp` reads
  `pendingCommands()` at 57, to find out whether there is a state to tell, and again
  at 59, to say whether to retry. A user gives a line of input and, once it is
  answered, loads the page again; the worker pops the input between the two reads;
  the answer has no state and does not ask to retry. The page takes that for no
  session: it stays idle and asks no more, beside a session that nobody stopped.
  Only the first question of a page is hurt, the other polls ask again by
  themselves. `ServeLate` is this answer, and sets `excused` in that case:
  `TruthWhenPatient` is false without it.
* A step by hand while an automatic one is to come (552) sets a second timer over
  the first, which `clearTimeout` cannot reach any more: it steps after a stop.
  The loop button (700-711) does not look at the state.
* A popup opened before the first step ends its `onload` with an exception
  (290-292), since `lastVars` is still `{}`; an answer that comes while the
  popup loads throws in `commonStateUpdate`, and the page stays as it was. The
  callback list of that request is left firing (`AjaxRequest`: `Stuck`): handlers
  attached later do not run.
* Input is posted without the session's name (739): with several sessions the
  server refuses it.
* The text of a session replaces what the user has typed (`ShowText`).
* The reader counts the last bytes twice if they fill its buffer exactly
  (`WebServer.cpp:326`): a GET then goes round for ever, counting, and a POST is
  past its length. A read that times out counts as no try, so the reader
  waits for a silent open connection without limit; and the loop is never left
  with `n < 0`, so that the branch at 388 is not reached (`NoFailedEnd`).
* With a margin smaller than the document, CodeMirror's worker does not restyle
  lines above the view that it passes; scrolled back to, they keep wrong styles
  until they change. With penguinTrace's infinite margin there are no such lines.

## Proofs

`SessionQueueProofs` proves for every `MaxCommands` and both values of
`MayThrow`, from `SessionQueueAssumption` only:

* `TypeCorrect`, `RunningPending`, `RunningThread`, `StopDrops`, `OneMore`: the
  safety properties of the `session_queue` run;
* `Refinement`: `Spec => CQ!Spec`, the safety part of the refinement.

None of the properties is inductive. The invariant `IInv` adds how the number of
commands started, the queue and the commands accepted relate in each state of
the worker: in normal operation the queue holds exactly the accepted commands
that were not started, preceded by the slot of the running one, in order. This
is what makes the head of the queue the next number, hence the refinement of
`Start`. Each action has a lemma that it preserves `IInv`, split by the parts it
can disturb; the theorems follow by `PTL`. The refinement maps `Fetch` of a
non-empty queue to `Start`, `Pop` to `Finish`, `Throw` to `Abort`, and a worker
that exits or a session that is cleaned up to `Close`.

`RequestProofs` proves for every size of the buffer, number of tries and length
of requests, from `ReaderAssumption` only:

* `WholeRequests`: `TakenIffWhole`, what reaches the request queue is whole and
  was read once;
* `NoFailedEnd`: `NeverFails`, the loop never ends on a failed read since a
  read that adds no byte cannot complete a request (proved only, no run lists it);
* `ReaderInvariant`: the invariant both follow from.

`ReaderInv` adds to the types what the locals say at each place: what is taken
is at most what was sent (`Order`); while the reader goes on, `curLength`, with
the bytes of a read not yet counted, is `taken` or past the whole request, and
is not that of a whole request (`Counting`); a read that returned 0, and hence a
try, means that the other end has closed and everything was read (`AtEnd`); and
what the loop is about to end with is a whole request or one that was given up
(`Ending`), which stays so since the other end may only leave. The lemma
`WholeIsAll` says that a request of penguinTrace's pages is complete for `IsAll`
at its exact length and at no smaller one, and past it only if it is a GET.

It also proves, for every `MaxHandlers`, that is for any number of handlers:

* `RequestsAreAnswered`: `HandlersRunOnce`.

`HandlersRunOnce` speaks of what has run and what was attached; what makes it
true is how the two relate to the index and the list of jQuery's loop at every
step of an event. `AjaxInv` has two parts. `Sound`: in each list, what is left are
the handlers attached last, what has run are those before (`Linked`), and the
difference (`Gap`) only changes when a list is emptied; -1 stands for the
deferred's own callback, which is in front of the handlers and not one of them.
`Placed`: where an event can be, as the stack of functions under way with the
state of each list there. A list has not fired (`Fresh`), is firing, rests with
its memory, or was disabled (`Dead`). The list of the outcome starts (`Starting`),
settles the request and disables the other (`Settling`), then the handlers of
completion run (`Completing`), one of which may attach a handler of the outcome,
so that its list fires inside (`Within`); later a handler may be attached and
called alone (`Later`), and an exception can end all of these (`Thrown`). The
lemmas follow the code: what `add`, `fireWith`, the call of a handler
(`HandlerCalled`), the end of a loop and `done` make of a list, and then one for
each action. Nothing is proved by induction over handlers that attach handlers,
since the stack is at most four deep: that is what `Placed` shows.

`SessionManagerProofs` proves for every set of sessions, both session modes, any
bound on the queues and every environment (`MayThrow`, `MayQuit`, `MayKill`),
from `SessionManagerAssumption` only unless said otherwise:

* `TypesHold`: `TypeOK`;
* `StateIsReadAlone`, `LocksAreNested`, `ParseAlwaysFinds`, `ResultWhenSettled`:
  `StateReadAlone`, `LocksNest`, `ParseFindsSession` and `SettledHasResult`, the
  safety properties of the manager runs;
* `FinishedHaveParsed`: `FinishedNeverParses`, if in single session mode nobody
  compiles while commands are pending (`SingleSession => PatientClient`). Without
  that the replacement in `createSession` joins a worker that may have its
  ParseCmd to come, which is one of the hazards;
* `SafeWithoutKill`: `KillIsSafe`, which the `kill` run refutes, if the operator
  does not kill the sessions (`~MayKill`). So `k` is the only way to that fault.

`SafeInv` is the invariant of the first five. It says who owns `sessionMutex` and
each session's lock at every place of the code (`MutexHeld`, `LocksHeld`), what a
place knows of the request (`Placed`), that a session outside `born` is empty
(`Unborn`) and one whose worker runs is in the map (`Living`), that a running
command is the head of its queue (`Holding`), that `CompileCmd` is first in a queue
with `ParseCmd` behind it (`CompileFirst`), that state is read of a session without
commands (`Idle`), and that each session has a result or a ParseCmd to come
(`ResultComes`). Each is needed for another one: a state is read alone because a
command keeps its slot while it runs; ParseCmd finds its session because only a
thread that has joined the worker erases it. `RemovalInv` adds when
`pendingStop` and `pendingRemove` may be set (`RemovedLater`, `Finished`), and
`UnkilledInv` that a worker's flag is only reset by a server thread about to join
it (`Unkilled`). Each action has a lemma that it preserves `SafeInv`, with a step
for each part; `SameQueues` and `SameResults` serve the many that leave the
queues alone.

`StepperProofs` proves for every program (instructions, flow, entry, library calls,
blocked calls), word and instruction size, and both architectures, from
`StepperAssumption` and the hypotheses named here:

* `TypesHold`: `TypeOK`;
* `DescriptorsClosedOnce`: `ClosedOnce`, if a client has at most one command queued
  (`MaxQueue <= 1`). `Closing` is the invariant: once the tracee has ended nothing
  is queued, and `done` ends each of the loops of `StepCmd`;
* `BlockedCallsSkipped`: `BlockedSkipped`, if no two blocked system calls are next
  to each other (the code steps over one). The invariant `Skips` says that what
  single-steps is at such a call only if a breakpoint is in its place;
* `MapAndMemoryAgree`: `BreakpointsInMemory`, if the places of breakpoints are at
  least a word apart (`Spaced`);
* `SteppingIsTransparent`: `Transparent`, if besides that no instruction reaches
  into the word of a breakpoint, what the word hides is reached only by the
  breakpoint (`Enclosed`), a word has more than a cell, and no breakpoint that was
  asked for is set while the program is at what it hides (`[][SetElsewhere]_vars`).

The last two say what the `clobber` run lacks. They matter because the programs
that are traced have several instructions in a word: a breakpoint hides the next
ones, and that does no harm as long as the program comes to them past the
breakpoint, which is removed when it is hit. `Agree` is the invariant of memory:
what is saved is code, a breakpoint's first cell is a breakpoint, and everything
else is code; the lemmas `InsertAgrees`, `RemoveAgrees` and `LeftAgrees` say that
`insertBreak`, `removeBreak` and the removal in `allStep` preserve it, and
stepping over a library call is the last and the first of them. `OnTrack` adds
that the program counter is where the program is, or (x86_64) behind the
breakpoint there (`Place`), and that no breakpoint hides it (`InSight`); from
it `SetBackToPlace` follows: `allStep` sets the program counter back to the
right place, and no breakpoint one byte behind it misleads it. The exception in
`Transparent` is what the `removed` run shows. TLC evaluates the hypotheses about
the program on the instance of the `stepper` run (`LoopAssumption`).

`WebUIPageProofs` and `WebUIProofs` prove for every set of programs (listings with
headings anywhere, lines, sources), any number of sessions in both modes, every
choice of what the user may do and any bound, from `WebUIAssumption` only:

* `TypesHold`: `TypeOK`;
* `HighlightsTakenBack`: `OneHighlight`;
* `MarkersHaveAddresses`: `GutterAddresses`;
* `PopupAgrees`: `PopupMirrors`;
* `StepsOneByOne`: `OneStepAtATime`;
* `OneExchangeAtATime`: `Inv`, the invariant they follow from.

`Inv` has four parts. The page alone, after every handler and whatever answers
come in whatever order (`PageInv`): the listing agrees with `lineNumbers` and
`disasmMap`, and what is marked in it is an instruction (`ListingAgrees`); a line
that is highlighted is one the interface holds a handle of (`Held`), else the
highlight could not be taken back; the popup and the tables agree as far as the
popup has loaded (`Mirrored`); one line of the listing is lit (`OneLit`). The
server alone (`ServerAgrees`): steps only of a program that is ready, and one
session that is alive in single session mode. The exchange, unless requests
overlap (`OneExchange`): one request or one poll to come and never both (`Lone`),
of the session the page is attached to (`Own`), and no highlight in the source
while a listing is awaited (`SourceLit`): the answer with the
listing highlights a line without taking the last highlight back. And what relates the two, unless an exchange was
broken into (`StepsAsked`): a step to be executed is the only one, and its state
is asked for, or will be (`StepUnderWay`), so that no answer to come sends
another one before it is done.

`WebUIPageProofs` has, for each function of `ptrace`, a lemma saying which
parts of the page it leaves alone and that it keeps the rest in agreement,
whether it throws or not. In `WebUIProofs` an action is then one of a few kinds:
a handler that asks for nothing (`QuietHandler`), one that sends a request
(`AskingHandler`), a click that posts (`PostingClick`), an answer that is applied
(`AnswerApplied`, with `AnswersExchange` for what any answer may leave
behind), a request that is served (`AnswerKeeps`); each action has a lemma that
it preserves `Inv`.

`OneHighlight` of the source, `OneStepAtATime` and `Lone` have premises
(`~overlap`, `~excused`) because the interface does not prevent the contrary: two
clicks are two exchanges. What holds without them is proved without them.

`WebUITruthProofs` proves, in the same generality and from `ProgramsAssumption`
(the compiler's line table is of instructions in the listing and lines of the
source, which has one) besides `WebUIAssumption`:

* `PatientUsersAreTold`: `TruthWhenPatient`, a page at rest shows the source, the
  listing, the position and the breakpoints that the server has, and its state is
  the server's, unless requests overlapped or one of the named excuses holds;
* `TruthIsKept`: `Inv` and `TruthInv`, the invariant it follows from.

What a page at rest shows was put there by answers that were formed earlier, from
a server that went on meanwhile. `TruthInv` therefore follows an exchange on both
sides. Sessions are created in order, and those the page does not name are gone or
told to stop (`CreatedInOrder`, `Others`, `Unstopped`, `AllStopped`). `RequestTruth`
says of the request under way, for each kind and for each place it can be in (sent,
answered, about to be handled), what its answer will find: a compile answer names
the newest session; a session answer carries the listing of a program that the
source on the page is the text of; a state answer carries the place
and the breakpoints that the server has and will have until the next request, since
only requests make the server's worker move it (`Moving`, `Marking`). `Documents`,
`PositionShown` and `BreakpointsShown` are the page's side. Between requests the page
is initial, idle, or attached to a session that waits (`InitTruth`, `IdleTruth`,
`DebugTruth`).

The proof has three kinds of steps. The server moves: what a request knows is kept
(`ServedTells` for the answer that is formed, `ServeLateTells` for the one that is
formed while the last command ends, `TruthStands` for the worker and the
removal of sessions, which happen only where no answer says otherwise). The page
handles an answer: what the answer carried becomes what is shown (`AnswerTells`),
leaving the page at rest (`TruthRests`), asking for more (`TruthAsked`) or about to
poll (`TruthPolls`). The user acts: the page was at rest, since requests do not
overlap, and what it showed is what the next request starts from (`AtEase`,
`AtRest`). TLC checks `TruthInv` with the other properties on the instance of the
`web_ui` run before it is proved.

Two excuses came out of this proof, as states in which the property is false and
that the bounds of the run did not reach: a file chosen while an exchange is under
way is read and sent in the middle of it, and a failed step leaves the timer of an
automatic step set on a page that says it is idle.

`EditorViewProofs` proves for documents, views, margins and searches of every
size, from `ViewAssumption` only (a state is saved at least as often as it is
looked for: every 5 lines and within 100 in the code):

* `SavedStatesAreRight`: `FrontierSound`;
* `TheViewIsOfTheDocument`: `ViewShowsDocument`;
* `SettledHighlightingIsRight`: `SettledIsRight`;
* `EditorViewCorrect`: `ViewInv`, the invariant they follow from.

That the states saved above a frontier are right is not inductive: with none of
them near enough, `findStartLine` starts from the line above as if it were code,
and the frontier passes over what was read wrongly. `SavedAbove` adds that every
`SaveEvery`th line above a frontier has a state, so that above a frontier a
search always finds one or gets to the first line (`SavedNear`, `ContextIs`).
Every loop that moves a frontier has to keep that up, and an edit of line n has
to move both frontiers back to n before anything is read (`FrontierRetreats`,
`DocumentIsEdited`). `Highlighted` is the same for styles, which the worker may leave as
they were above the view (`skipped`); `Unskipped`, that with a margin that covers the
document the view starts at the first line, or comes to do so before it is
drawn, so nothing is skipped. `Viewed` says which lines the view is of, `Drawn` that
it covers what is visible, and `Due` that a worker that has not come to the
end of the view has its timer set. Each holds at every step of an operation or
only at its end, and is proved so: an operation edits (`EditIsDue`), tells the view
(`ChangeIsShown`) and draws (`DisplayIsUpdated`, `DisplayIsPatched`,
`StyledIs`), and `WorkIsDone` is the worker's pass.

The proofs are about what loops compute over lines, that is by induction. The
library's induction theorems take a predicate as a parameter, which the provers
here cannot instantiate; `HasAll` states induction for a set of numbers instead and
follows from the well-foundedness of the numbers, and `RecursionEnds` is the
existence of the function that a recursive definition chooses.

Only model-checked: the liveness properties and the liveness part of the
refinement (fairness is out of the prover's reach), and `LineTree` and
`EditHistory`, which use recursive operators, over trees and over events merged
into each other. In a module with those the prover has no arithmetic.

## Not modelled

The compiler driver's pipes, the DWARF reader, `Logger` and `IdGenerator`
(planned below), the build tools, Config's parsing, the text of responses and of
the tables, and reading of object files by ELF structures and LLVM. Capabilities
and namespaces of the tracee are system calls without state of their own. Of the
page: console, tabs, menus, download and resizing, which keep no state that
another handler reads.

Most of `static/js/lib` is left out on purpose. It is third-party code, a few
hundred lines of which penguinTrace relies on in ways that are hard to test;
these are modelled. The rest of jQuery (selectors, DOM manipulation, effects) and
of CodeMirror (input, key maps, measurement, bidirectional text, marked spans,
linked documents) works on the DOM of a browser or is not used here. It is more
than half of the repository's JavaScript, so the share of JavaScript lines that
the modules cover stays near a tenth; of `penguintrace.js` itself they cover two
thirds.

## Plan

1. Done: `CommandQueue`, `SessionQueue`, `SessionManager`, their runs, and the
   proofs about `SessionQueue`.
2. Done: proofs about `SessionManager`, for any number of sessions.
3. Done: `Stepper`, its runs, and the proofs of its safety properties.
4. Done: `RequestReader` and its proofs. To do: `Compiler`'s pipes.
5. DWARF machines as pure operators: line program, call frame rows,
   LEB128, expression stack, each against a reference definition.
6. Done: `WebUI`, the parts of the editor and `AjaxRequest`, and proofs about
   `WebUI`, `EditorView` and `AjaxRequest`. To do: with its recursion written as
   functions, proofs about `LineTree`.
7. `Logger`, `IdGenerator`, Base64 of uploads.
