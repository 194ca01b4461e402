# PyCortex in TLA+

TLA+ models of the coding agent in this repository, checked with TLC on small
instances, with theorems proved by TLAPS.  Source paths below are under
`src/packages/`; a leaf package `x/y` keeps its code in
`x/y/src/cortex/x/y/`.  `PROJECT.json` maps every definition to its lines.

## The system

| part | state | operations | what is hard |
| --- | --- | --- | --- |
| agent loop (`agent/loop`) | the run's copy of the transcript, the batch of tool calls, the background tasks in flight and their results | run, collect, inject, stream, execute tools, end | tasks end at any suspension point; batches mix detached, rejected, parallel and sequential calls; a run stops in the middle |
| agent (`agent/agent`) | transcript, two queues, pending calls, the active run | prompt, continue, steer, follow_up, clear, abort | callers interleave with the run; listeners may raise |
| agent session (`code/session/agent_session.py`) | queue texts for display, deferred rows, one abort controller | prompt, queue, listen, shell commands | two copies of the queues; rows must not split a call from its results |
| session manager (`code/session/manager.py`) | entry tree, leaf, file, flush flag | append, label, branch, open, fork | memory and file agree through kills, branches and restarts |
| session runtime (`code/session/runtime.py`) | the current session | new, switch, fork | what a fork copies |
| credential store (`code/config/auth_storage.py`) | `auth.json`, lock directory, own copy | set, remove, logout, reload, refresh | several processes, kills, a refresh token that can be used once |
| tree navigation (`code/session/tree_navigation.py`) | the agent's transcript, beside the tree | navigate, with a summary or a label | an await between reading the old leaf and moving it; a run that sends its own copy of the transcript |
| settings (`code/config/settings_*.py`) | `settings.json`, lock file, own copy, what was changed | change, load, flush | the file is looked for before the lock is taken; writers that die |
| message transformation (`ai/provider-common`) | the loop variables of two passes | replay | pairing of calls and results of any transcript |
| compaction and the agent package's sessions (`agent/compaction`, `agent/session`) | the path of entries, the leaf | append, move, compact | a cut anywhere, also within a turn; what a second summary keeps of the first; the application does not use it |
| agent harness (`agent/harness`) | a phase, writes put off, queues | prompt, compact, navigate | not modelled: nothing builds one, and it is not finished (see below) |
| providers and event stream (`ai/provider-*`, `ai/stream`) | decoder's buffer, the message being built, blocks by number, the queue and its reader | chunk, end, break, push, read | chunks end anywhere; a reader and a producer on one future |
| OAuth, models (`ai/oauth`, `ai/models`) | tables, tokens | log in, refresh | network; the refresh is modelled with the store |
| the user's shell commands (`code/session/bash_executor.py`, `code/tools/bash*.py`) | processes, pipes, one decoder, the sink and its file | start, pump, abort, join | five threads; processes that outlive the shell |
| terminal input (`tui/terminal`) | buffer, paste buffer, timer | process, flush | the timer's thread flushes what process() splits |
| terminal rendering (`tui/render`) | what the terminal is believed to show, caches, requests, overlays | render, request, resize, show and hide overlays | differential drawing; coalesced requests; focus |
| footer (`code/interactive/footer_data_provider.py`) | cached branch, watcher, timers | watch, refresh, set_cwd | three threads and a debounce |
| editor (`tui/components/editor.py`, `tui/editing`) | lines, cursor, sticky and snapped columns, pastes by number, kill ring, undo stack, history, the completion menu and its tasks | keys, pastes, submission, requests for completions | what a key does depends on the key before it; markers that are one character; columns from before an edit; answers that come late |
| chat (`code/interactive/interactive_mode.py`, `bash_execution_controller.py`) | blocks, the streamed block, pending calls, held command blocks and their area | event, submit, command, navigate, replace | drawn from events and rebuilt from the transcript, at any moment of a run |
| the rest of the interactive mode, print and RPC modes, the other tools, MCP, startup (`code/*`, `agent/tools`, `agent/mcp`) | screens and subprocesses | dispatch to the parts above | I/O; out of scope |

A mode calls the session; the session prompts or steers the agent and listens
to its events; the agent runs the loop, which calls back for queued messages,
emits events and executes tools; the listener appends to the session manager;
the runtime replaces the session; the provider stream asks the credential
store for a key.  All of this runs on one asyncio loop, where the interleavings
are those of its suspension points, with these exceptions: `auth.json` and
`settings.json` are shared by processes, the input buffer, the footer and a shell
command have threads, and a resize is a signal.

## The modules

**AgentLoop** is the agent and its loop.  An action is the code between two
suspension points.  `pc` says where the run is; `context` is the loop's copy of
the transcript and `messages` the agent's, reduced from events; `pending`,
`hasMore` and `skipPoll` are locals of `_run_loop`; `call` and `batch` follow
the tool calls of one assistant message through the three dispatch functions;
`bg`, `results` and `waiter` are `_BackgroundTaskManager`.  `prompted`,
`steered`, `followed` and `discarded` are history, for the properties.
`CollectThen` is `_collect_pending_messages` with the loop tests that follow it
without suspension.  A task ends in two steps, as in the code: the coroutine
appends its result (`TaskEnds`), the done callback runs later (`TaskSettles`).
What a run leaves in flight is `abandoned` when it ends: its manager was local.

Abstracted: a message is its role, its owner and its calls; whether a tool runs
in the background is fixed per call; a streaming message appears when it is
complete; any tool call may be rejected and any tool may ask to terminate.
Listeners are suspension points in the model, as `_process_events` awaits them;
the application's own listener never suspends, so the program shows a subset of
the interleavings checked.

**AgentSession** extends AgentLoop with the session.  Its listener is part of
the agent's step that emits the event (`AgentStep`), and may raise half way
(`AgentFails`).  The transcript stands for the session file too, which the same
listener extends.  Texts are a function of messages; the runs give every
message its own, because the lists are shortened by comparing text: with equal
texts a prompt takes the text of a queued message off the list.

**SessionStore** is the session manager with the runtime's operations on it: a
list of entries in memory, files of lines, and a process that may be killed
between operations or in a write.  `Torn` says what a killed write can leave:
some whole lines, then perhaps a line without its newline, complete or not.  A
header line is never the one cut, being shorter than the writer's buffer.
`Added` runs the next line into a cut one.  Ids are fresh numbers where the
code draws random ones.  Left out: migrations, in-memory mode, `fork_from`,
clearing a label that is not set.

**AuthStorage** is the credential store: processes with a main thread (which
blocks its event loop) and a refresh task (which yields while it waits for the
lock and the provider).  `Overrun` lets a live holder's lock grow old; no run
takes it, because the code accepts by design that a holder of more than 30 s is
overtaken, and the theorems name it as a condition.  Tokens are numbered by the refresh that issued them;
the provider accepts only the newest.  `Truncate` and `Write` are the two halves
of `_write`.  Left out: creation of the file, the count of retries (an attempt
on a taken lock may be the last), a restart of a killed process, an answer of
the provider lost on the way back (a request that fails, fails before it is
used).

**Conversation** is what the agent promises of its transcript, without queues,
batches and background tasks: it grows one message at a time and only during a
run; the model speaks only when nothing it called is unanswered; each message
of a user is heard once or given up; a background tool reports once, after its
call was answered.  **AgentConversation** maps AgentLoop to it: who waits is
read off both queues, the messages about to be injected and a prompt whose
events are to come; what is owed is the batch that is not answered.

**TreeNavigation** extends SessionStore with the agent's transcript and with
navigations that await credentials.  `Collected` is
`_collect_entries_for_summary` as it is: the first entry of the target's branch
that is on the old one too is the root, so nothing is collected on two branches
of one conversation, although the comment at line 181 speaks of their "common
ancestor".  A session has several roots once a navigation has gone before its
first message; then there is something to collect.  The store writes the file as in SessionStore.
`sends` is the copy of the transcript that the loop of a run works on (`_create_context_snapshot`):
its messages go to both, but `set_agent_messages` (`tree_navigation.py:152`) replaces the
agent's only.  A navigation during a run, which `/tree` does not refuse, parts the two until the
run ends; `left` is history and names that case.

**SettingsFile** has processes that change settings, load and flush them, over a
file that may not be there and a lock file whose holder may die.  A setting may
be in a group, which `_mark_modified` marks as a whole; a group is written as it
was loaded, so a sibling that another process has saved meanwhile is taken back
(`spoiled`).  Reads and writes are steps of their own; the emptying of the file
by `write_text` is another.  So are the look at a lock file's age (`FindStale`) and its
unlinking (`BreakStale`), which takes whatever lock file is there by then; `seized` is history and
says that one went whose process lives.  That is the race of the findings' `auth.json`, on another
lock; of this one the source claims no exclusion, so the property is about what comes before.

**ReplayTranscript** is `transform_messages`, one message per step.
Blocks of an assistant's message are a set of types, apart from its calls.

**Renderer** is a frame: the content of the components, concatenated through the
cache of flat lines, overlays composed onto it, the cursor's marker extracted,
and one of the ways to write it (full, cleared, changed rows, deleted rows,
cursor only), against a terminal that scrolls.  A line is its text and whether
it holds the marker; columns are left out.  An
overlay may be above or below the end of the content, which is then padded with rows that were
never written; `sunk` is history and says that such a frame has put the tracked cursor out of place
(see Not modelled).  The rows that a terminal leaves
undefined when it is resized are arbitrary, as the renderer redraws them.

**RenderLoop** is when frames are painted: `request_render`, the callbacks and the
timer it uses, the forced path, a key painted at once, a key the input buffer's
thread delivers, the signal handler, over asyncio's queue and sleep.

**Overlays** is the stack of overlays and the focus; a component is on the stack once.

**StdinBuffer** is the input buffer; an action is what its two threads run between
points where Python may switch.  Input is made of atoms: characters, ESC, `[`, the
ends of CSI sequences and the marks of a paste.

**Editor** is the text with its cursor, counted in characters, and all that a key may
do to it.  The bracket of a paste's marker is one character and the rest another, so
that a marker is a segment of two and the cursor can be inside it; what the marker
stands for is looked up by id when the text is submitted.  `Wrap` is the body of the
loop of `word_wrap_line`, `Vertical` is `_move_to_visual_line` with the table of
`_compute_vertical_move_column`.  `before`, `aim`, `serial`, `since` and `loose` are
history.  The lines of the code's state are one sequence, `draft`; its wrapped lines are
recursive functions over places.  `Submit` and `GiveBack` are what the interactive mode adds to it: a submitted
prompt enters the history, and Escape puts queued messages back.

**Completion** is the menu of the same editor: the request a key makes, its debounce,
the tasks that wait for one another, and the test whether an answer is still of use.
The text is one of a few places; the two modules share nothing but that.  `Barred` are the places
where `should_trigger_file_completion` says no: a request for files made there returns before it
has cancelled or asked anything (`Unasked`).

**FooterBranch** is the footer's branch: HEAD of two repositories, a watcher that
samples, a debounce, refresh threads, and the application that moves the
provider to another directory.

**ChatLog** is the chat of the interactive mode.  A run is what `handle_session_event`
hears of it, with the row that the session appends after the event; `SubmitBash`,
`BashBegins` and `BashEnds` are a shell command from Enter to its result; `Navigate`
and `Replace` rebuild the chat with `render_session_context`.  A block is filled or not,
nothing else of it is kept.  `Replace` stands for every replacement: the listener goes,
the old run is not heard of again and its turn keeps the message loop.  `excused` and
`overlapped` are history, and name the blocks for which the code does not do what a
rebuild would.

**ProviderStream** is a response of the Anthropic provider: the body is cut into
chunks, decoded into lines and server-sent events, and every event extends the
message and is pushed on the event stream, whose reader is the loop's.  The handling of
a chunk suspends nowhere and is one step.  A line is its parts, a character of several
bytes is two tokens.  `told` is history: the content a client of the deltas alone has.

**ShellOutput** is a command of the user: the worker that starts it, reaps it and
joins the readers, a thread per pipe that decodes into the one buffer and appends to the
one sink, the thread that polls the signal, and the event loop that paints.  `holders`
are the processes with the pipes open, among them one that left the group.  `Compressed` is
`compress_bash_output` as what it may do to a text that is long enough: leave a stretch of it out.

**Compaction** is a session of the agent package and its compaction: the path of entries
from the root to the leaf, the cut that a budget of tokens gives, the turn it splits, what the summary
covers and what the next context shows.  An entry is its place on the path; `covers` is history:
the entries that a summary was made from, by way of earlier summaries too.  Messages have a
role, as those of the agent's events have; the caller is one that appends other rows once the
results are in (`owed`), and moves the leaf and compacts between runs.

**AgentLoopMC**, **AgentSessionMC**, **SessionStoreMC**, **AuthStorageMC**,
**ProviderStreamMC**, **TerminalMC** and **RecordsMC** hold instances, symmetry sets and constants
for TLC.  TerminalMC extends the six modules that ScreenProofs and EditorProofs are about, so that TLC and
the prover read the same properties and assumptions, and runs them beside instances of the others.  Definitions marked `mutant` are
faulty variants of the definition after them; putting one in place of it must
break a property.

## The runs

| run | module | expected | shows |
| --- | --- | --- | --- |
| `agent_loop_safety` | AgentLoopMC | pass of `TypeOK`, `EveryCallAnsweredInPlace`, `TranscriptsAgree`, `PendingCallsExact`, `NoBackgroundResultLost`, `ImplementsConversation` | Whatever the order of prompts, steering, follow-ups, aborts, mixed tool batches, background completions and failures, both transcripts stay the same well-formed conversation, the calls shown as pending are the ones under way, no result of a run that ends of itself is lost, and every step is a step of the abstract Conversation or none. |
| `agent_loop_liveness` | AgentLoopMC | pass of `RunsEnd`, `SteeringHeard` | Under weak fairness of the run and of its background tasks every run ends, no wake-up of the wait for a task is lost, and a steering message that waits during a response reaches the same run; with a sequential tool and the other queue modes. |
| `agent_loop_promise` | AgentLoopMC | violation of `PromisesAreKept` | A run that fails while a detached task is in flight leaves it behind: its result is never reported, although its placeholder promised it. |
| `agent_session_safety` | AgentSessionMC | pass of `EverythingOnce`, `QueuesAreFifo`, `RowsRecordedOnce`, `UiShowsQueues` | With a session listening, two messages in a queue and the user running shell commands beside the agent: every queued message is in exactly one place and the transcript has them in the order they were queued, across runs, cleared queues and failures; every command is recorded once and never between a tool call and its results; the lists a UI draws agree with the agent's queues. |
| `agent_session_bash` | AgentSessionMC | violation of `RunningBashCanBeAborted` | Of two overlapping shell commands the first to end takes the only controller with it: the other can no longer be cancelled and is not shown as running. |
| `session_store_fork` | SessionStoreMC | violation of `ForkCopiesBranch` | A fork whose branch has no assistant message is never written, and the session opened on its path is empty: the fork does not copy the branch. |
| `auth_storage_safety` | AuthStorageMC | pass of `TypeOK`, `NoChangeIsUndone`, `NewestTokenKept`, `MutualExclusion` | Two processes that store keys, log out, reload and refresh over one auth.json never undo each other's change and never spend a refresh token twice, and only one is under the lock, also when the other is killed there or in the middle of a write. |
| `terminal` | TerminalMC | pass of `InputAccounted`, `RestHasTimer`, `FocusOnStack`, `ShownBranchSettles`, `RingRestores`, `CursorInPlace`, `MenuSettles`, `NothingDropped`, `EveryFrameShowsContent`, `ContentPainted`, `CommandReturns`, `EditsCanBeUndone` | What the user sees and types, one part per behaviour: the screen shows the content and the cursor after every frame that an overlay below the content has not put out of place, requests for frames are carried out, input is delivered once and in order, keys go to what is on the screen, the footer settles on HEAD's branch, in the editor what is killed can be put back, edits can be undone, the cursor keeps its column and stays out of markers and the completion menu settles on the text, and a command's output is recorded and the command returns. |
| `records` | RecordsMC | pass of `SavedStays`, `SavedOnceAnswered`, `WalksEnd`, `ContextIsBranch`, `CallsAnswered`, `Paired`, `ReplyIsWhatWasSent`, `ResultsHaveCalls`, `ChatShowsTranscript`, `SavedStaysSaved`, `ForkCarriesEntries`, `LeavingIsSummarized` | What is written, kept, sent and shown, one part per behaviour: saved settings stay saved, as long as no lock file is unlinked under a process that lives; through branches, labels, forks, restarts and kills the file of an answered session holds what memory holds and loses nothing, and a fork carries every entry and label; the agent's transcript is the branch it navigated to, and what a run sends is too unless a navigation has left the run's branch; every replayed call has one result; a response is the one the server sent; a compaction summarizes what it takes out of the context and leaves no result without its call; the chat that the events draw is the one that a rebuild from the transcript would. |
| `auth_storage_lock` | AuthStorageMC | violation of `MutualExclusion` | Two processes that find the lock of a killed third stale can both enter: the second to break it removes the lock the first has just taken. |
| `compaction_summary` | Compaction | violation of `NothingForgotten` | A second compaction that cuts within the turn the first one kept replaces the summary by one of the turn alone: what the first had summarized is forgotten. |
| `provider_stream_signed` | ProviderStreamMC | violation of `ThinkingStaysSigned` | The signature of a thinking block comes after its text and is kept in the provider's own map: the message never gets it. |

The runs `terminal` and `records` put modules side by side that share no variable: a
behaviour chooses one of them at its start and the others rest, so the state space is
the sum of theirs and each property is about one of them.  `terminal` has two instances
of the editor: `moves`, narrow and with markers that wrap, and `kills`, wide and with
three edits; `records` has two of the chat: `turns`, with two calls and one command, and
`shells`, with one call and two commands; and two of the session store: `store`, with four
entries, and `killed`, with three entries and a kill.

### Bounds

- AgentLoop: two foreground calls give a parallel batch with an order, one
  background call mixes with them in batches of up to three, and two user
  messages are a prompt and one message queued during it.  A queue with an order
  takes three messages, one of them the prompt: `agent_session_safety` has three.  Each message and call is used once, which bounds
  the runs.  The liveness run has one sequential foreground call, the other
  queue modes and no symmetry.
- AgentSession: three messages, so that two can wait in one list; two commands,
  because deferral and the controller take two; one call.  The two runs that
  show findings need fewer messages.
- SessionStore: four entries are a branch, an answer, and a label set and
  cleared; two files are a fork or a switch; one kill, at any point of three entries in `records`.
  The run `records` takes
  entries of two kinds: cutting before a user message is the case where moving
  the leaf to its parent and cutting there is the same fork.
- AuthStorage: two processes with two threads each, three tokens, two
  operations each, one kill.  With three processes the lock itself fails (see
  the findings), which is why the safety run has two.

- Editor: in `moves` the screen is two or three columns wide, and one edit is made to
  texts with a marker that must wrap, a line of five characters below it, a backslash and
  an undo that is there already; in `kills` three edits make up to two characters,
  with one entry in the ring that holds the marker of an earlier message: joined kills,
  a yank and a yank-pop take three.
- Completion: a path, a slash command (where files are barred), a symbol and a symbol with a letter behind it; two
  tasks, one at the provider and one that waits for it.
- Renderer: the editor with one of three contents (with and without the cursor's marker), and
  above it a child of two or three lines or none; one overlay on the third row or, on a lower
  screen, the last; heights 2 and 3: content is shorter than, as long as and longer than the
  screen, and an overlay is on it and below it.
- RenderLoop: three callbacks on the loop's queue, which is one of each kind.
- StdinBuffer: two gestures, each a character, Escape, Alt+[, an arrow, a Kitty report or
  a paste, cut into reads in every way, and two time outs; the paste doubled is
  left out (more than eight atoms).
- Overlays: three, one of which does not capture and another that hides when the
  terminal is small: out-of-order removal takes two, the focus handed to a third three.
- ChatLog: four messages and commands (three in `shells`), of which a turn with calls takes two and a run
  that fails three; a command before, during and after it; one navigation or
  replacement, after which the run or the command goes on.
- FooterBranch: two checkouts, one move and one failure of the watcher.
- SettingsFile: three processes, two changes, one death; one setting of its own and
  two of a group: it takes a dead holder and two others to break its lock one after the other.
- TreeNavigation: four entries, two navigations that wait at once, any number of runs.
- ProviderStream: five replies (text, thinking, a tool call, a block of an unknown kind,
  a stop reason the program does not know), cut into two chunks at any place.
- ShellOutput: two commands, one of which writes a byte that is no text, to one pipe
  or both, and more than the two bytes the sink keeps in memory; a text is
  long enough for compression from two bytes on, so that what is compressed may have a file or not; a process of the group
  or outside it is left behind.
- Compaction: five entries (seven in `compaction_summary`), which hold a batch of two calls, or two
  turns, with a compaction between or after them; the theorems hold for any number.
- ReplayTranscript: two turns of up to two calls with any number of their results, by the
  model asked or another, failed or not, with and without a user between and after.

Deadlock is not checked: an idle agent whose messages are used up, a store that
has spent its ids and processes that have done their operations really stop.

### Fairness

Weak fairness of `RunStep` (the asyncio loop resumes a ready coroutine; a
response and a tool come to their end) and of every task's end and done
callback.  Nothing is assumed of callers, aborts or failures.  A tool that never
returns hangs the run in the code too.

RenderLoop: weak fairness of what asyncio runs from its queue, of its timers, and
of the thread in the middle of a key.  Nobody need press a key, and nothing
assumes that the loop wakes: `ContentPainted` has that as its condition where a
resize is to be painted.

ShellOutput: weak fairness of the worker, the poller, the pumps and what the loop is
posted.  No process need write or exit unless it is killed, and nobody need abort:
`CommandReturns` is about a command that is aborted or whose shell has gone.

## What is proved

The first part of `ConversationProofs` proves, for every set of messages and calls, every queue mode
and either way of executing tools: `TypeOK`, `PendingCallsExact` and
`NoBackgroundResultLost`.  The assumptions are the three named in AgentLoop:
foreground and background calls are disjoint, user messages are not calls, and
the modes are among those of the code.

The inductive invariant `IInv` is `TypeOK`, `BatchInv` and `ReportInv`.
`PendingCallsExact` alone is not inductive: a call left over from an earlier
batch could end and be taken out, so `BatchInv` adds that a call is under way
only as part of the batch, and that there is a batch only while tools execute.
`NoBackgroundResultLost` speaks only of the last moment of a run: `ReportInv`
follows every result on its way there, from `_results` to the messages about
to be injected to the transcript, and says that a run reaches its end of itself
only with nothing in flight.  A failed run breaks the chain, hence the
exceptions for it; `FinishRun` mends it by making abandoned what was not
reported.

The second part proves that a message is in one place at a time
(`EverythingOnce`) and from it that the agent and its loop implement Conversation
(`ImplementsConversation`): every step maps to a step of Conversation or to a stutter.  The
invariant `MessageInv` adds three parts to `IInv`.  `UserInv` says of each user's message
that it was accepted exactly when it is in one of six places (a queue of each kind,
collected, about to be sent as a prompt, heard, given up), in no two of them, and not twice
in one.  `PromptsInv` is needed where a run begins: until its prompts are emitted, the
loop's copy of the transcript is the agent's and the prompts that are left.  `ResultsInv`
says the same of background results on their way from `_results` to the transcript, and
that the call of one that has ended was answered, so that its report comes after its
answer.  Most steps move no message; they are put together once (`Quiet`), and each of the
others has its own step in the proof.

`TranscriptProofs` proves that queues are first in, first out (`QueuesAreFifo`) and that the
loop's copy agrees with the transcript (`TranscriptsAgree`).  A queue's messages may be in
four places at once, which `FifoInv` puts in line behind each other: of two messages that
were queued, the later one is in none of the places ahead of the earlier one, and behind it
where both are in the same place.  `CopyInv` holds of the copy that it is the transcript
without the results that a batch has so far, so that both have the same length again when
the batch ends; for that the results have to be counted, hence the lemmas on cardinality.

The last part of `TranscriptProofs` proves that the calls of an assistant message are answered in its place
(`EveryCallAnsweredInPlace`).  A message whose calls have all come to an end keeps what is
said of it, because a transcript only grows behind it; the work is in the message whose
batch is executed.  `TailInv` says that the transcript ends in the results it has so far, in
the order of the batch, and `OrderInv` that the loop answers none before those that come
first.  Of a batch that a failure cut short nothing is claimed: its calls are `dropped`.

`SessionProofs` proves these properties of AgentSession: every one of its steps is a step of
the agent and its loop beside other changes, or adds rows between runs (`RowsStep`), and
both keep the invariants.  Of the session's own state it proves that a recorded command has
exactly one row (`RowsRecordedOnce`; `RowsInv` adds where a row waits and that it is not in
two places) and that a UI's lists are those of the queues (`UiShowsQueues`).  The latter
needs that no two messages say the same (`OwnTexts`): the session finds an entry of a
list by its text, so of two with equal texts the second stays listed when the first is
heard, and the list shows the text of a message that was delivered.  In the run, too, every
message has a text of its own.  Before a
message is heard it stays listed although no queue has it any more, so `UiInv` speaks of
hearing and `InjectInv` says that what is collected is not empty while it is injected.

The other assumptions of `ConversationProofs`, `TranscriptProofs` and `SessionProofs` are those of AgentLoop; none is added.

`AuthStorageProofs` proves, for any number of processes, keys and operations:
`TypeOK` without conditions, and under `MaxKills = 0` and `Overrun = FALSE`
(no process is killed, no holder keeps the lock for more than 30 s)
`MutualExclusion`, `NoChangeIsUndone` and `NewestTokenKept`.  The condition is
not for convenience: with a kill and three processes the lock fails, and the run
`auth_storage_lock` shows how.  The theorems say that it takes a kill or such a hold.

The inductive invariant is `TypeOK`, `LockInv`, `FileInv` and `TokenInv`.
`LockInv` says that no lock is ever old, hence nobody is about to break one, and
that a thread in the section made the lock that is there: two of them are then
one (`OneHolder`).  `FileInv` says that what a thread is about to write is what
it means to write, made from the committed contents; this needs the lock,
because nobody else may commit between the read and the write.  `TokenInv`
follows the newest token from the provider's answer to the file.  Steps fall
into those of the holder (`HolderKeeps`: only the holder's own state matters)
and the quiet ones (`QuietKeeps`: nothing in hand changes).

The assumptions are the two named in AuthStorage: the bounds are numbers, and
`None` is neither a key nor a lock.

`ContextProofs` proves of replayed transcripts, for every set of transcripts, ids and normalisation of
them, that a provider is sent no call without a result (`CallsAnswered`).  The
inductive invariant `ReplayInv` says of the result being built that a call not
answered yet is among `pending_tool_calls` (`OpenIsPending`), and that an id in
`existing_tool_result_ids` has a result after every call that makes it
(`ExistingIsThere`): without the second, a call answered by an earlier result of the
same id could be passed over.  The assumption is `ReplayAssumption`: the transcripts
are messages, the normalisation a function on ids.

Of transcripts that runs have left it also proves that calls and results are paired
(`Paired`).  This needs the two hypotheses of `OfRuns`: `LeftByRun`, that results stand right
behind the message that makes their calls, which did not fail (`AnswersInPlace` shows this of
the agent), and that no two messages make a call of one id, which is up to the provider; and
`KeptApart`, that normalized ids tell the calls of a message apart.  The code's
normalisations cut ids off, so the latter is a condition on ids that nothing in the code
ensures.  TLC evaluates both of the transcripts of the run.  `PassedInv` says
that the first pass renames a result as it renames its call, although it decides so by
`tool_call_id_map` alone; `PairedInv` says that the message whose calls are pending is the
last one but for its results and that what has a result is in `existing`, so that none is
put in twice.

The second part of `ContextProofs` proves, for any sizes, budget and number of entries, that no result
is shown without the message whose call it answers (`ResultsHaveCalls`) and that a
compaction summarizes all it takes out (`LeavingIsSummarized`).  The inductive invariant
`CompactionInv` holds three facts beside the types: a result follows its assistant
message on the path with nothing but results and entries without a message between
(`ResultsFollow`), while results are to come the path ends in such a stretch (`Owing`), and
a summary keeps from an earlier place on with which no result loses its message (`CutsAreClean`).  The cut is a
minimum over places that a maximum bounds; that such exist in a finite stretch of the
naturals is a lemma of its own.  The assumptions are `SizesAssumption` and
`BudgetAssumption`: sizes and the budget are numbers.

`StoreProofs` proves, for any number of entries, files and kills and for entries of any of
the three kinds, the store's four properties and the one of the navigation: walks end
(`WalksEnd`), the file has what memory has once an answer came (`SavedOnceAnswered`), what
was saved stays (`SavedStaysSaved`), a fork carries its branch and its labels
(`ForkCarriesEntries`), and the agent has the messages of its branch (`ContextIsBranch`).

The inductive invariant `StoreInv` has two parts beside the types.  `AllRooted`: in memory and
in every file, ids are among those issued and an entry's parent is older than the entry, so
that a walk descends and is at its end after as many steps as there are ids.  `FileFollows`:
while its file has no malformed line, it yields no entry that the session does not have in
memory, and all of them once the session has flushed, which it has as soon as there is an answer.
`SavedOnceAnswered` alone is not inductive: the append that brings the first answer writes
everything, so what is in the file before it must be part of what is in memory.

The fork needs more: it copies the file's last entry of each id and sets the labels
anew, while memory and file have not the same lines, because a first flush repeated after a restart
writes all entries again behind those that are there.  `TailIsMemory` says that a file yields
what memory has behind some entries of memory; the last occurrence of an id, and with it the branch
and the labels, are then the same.  `NavigationInv` says for the
context that parents are older, the leaf was issued and a navigation that waits has a
target that is known: an entry appended meanwhile is then on no branch that was there before.  The
copy of a run in progress gets the same messages; a navigation is what parts it, which sets `left`.

The walks, the branch and `Without` are recursive functions.  The induction theorems of the
library take an operator, which the provers cannot instantiate; that such functions exist,
and what they give, is proved from well-foundedness, applied to the set of counterexamples.  The
assumption is `StoreAssumption`: the kinds are among three, the bounds are numbers, and
`None` is no number.

The last part of `StoreProofs` proves, for any number of processes, deaths, settings and groups, that
saved settings stay saved and that nobody reads half a file (`SavedStays`), until a lock file is
unlinked under a process that lives.  The inductive invariant `SettingsInv` has four parts beside the
types; `HoldInv` and `CarriedInv` speak of the time before that.  `HoldInv`: a process in the section
has the lock file, because what is found stale is a dead one's, and `seized` says when what is
unlinked is another's.
`ThereInv`: the file does not go once it was looked for and found, and what a flush starts
from are settings.  `TornInv`: an empty file is being written, or its writer is dead.
`CarriedInv`: what a process has read and is about to write carries what the others saved,
which needs the lock between the read and the write, and fails for two processes that both
find no file, hence that exception.  The assumption is `SettingsAssumption`: the values
that stand for no file, an empty file and no holder are no settings and no process.

`ScreenProofs` proves six properties of what the user sees and types, each for any
constants of its module, its bounds among them.

The focus stays on the stack (`FocusOnStack`).  `InOrder` says, as long as overlays go in
order, that none is on the stack twice and that each hands the focus back to the base or to one
below it (`HandsBackDown`): what is under the last one outlives it.  Concealing and resizing
need no part of their own, as what is on top of a stack is on it (`TopOrAmong`).  The assumption
is `OverlaysAssumption`: the base is no overlay.

The footer settles on the branch of HEAD (`ShownBranchSettles`).  The property speaks of the
end only; `FreshInv` says at every step that what is cached, and what a refresh has read and
not stored yet, is what HEAD names, or that a reading is still to begin (`ToBeRead`): a timer
runs, a thread is about to refresh, the refresh was told to go again, the watcher's last
sample is not HEAD, or there is no watcher.  `ViewInv` says the same of the frame and what is cached, and
`WatcherInv` that a sample is never of a later HEAD than the present one, so that a checkout
always leaves the watcher something to see.  The assumption is `FooterAssumption`: no branch
is the value for none.

The menu settles (`MenuSettles`).  `Chain` says that of the tasks that wait for one another only
the last can still do something, and none can while the debounce timer runs; `MenuInv` then
says of that one task or timer that its answer will be for the text at the cursor (`Pending`),
or that the menu is already for it and nothing is asked.  A task of Tab finds no menu open.  A deletion
that asks nothing changes the text under an open menu and is excepted (`strayed`).

A rest has a timer (`RestHasTimer`).  `RestInv` adds that a paste is looked for only in a
buffer that was emptied, since that is the one way to stop reading without setting the timer.

Input arrives (`InputAccounted`): what the terminal sent is delivered once and in order, with
no key in a paste and no paste in a key, but for the exceptions the property names.  The
inductive invariant `InputInv` has four parts.  `AloneInv`: of the reader and the threads
that flush, one at a time has something in hand, unless they have met (`raced`).  `WholeInv`:
what was sent is what was delivered, then what is in hand, then what is in the buffer or the
paste, then what is still to be read.  `MarksInv`: a paste that begins in what was delivered has
ended there, none begins in the keys on their way, and no whole mark waits in the buffer.
Its heart is where the first mark is (`Find`) when a buffer is cut there: a mark that
overlaps the cut would have to begin in it.  `Extract` and `FlattenSeq` are recursive in a
length; that they exist and what they give is proved from well-foundedness (`UpTo`), and the
splitting of keys then by the least length at which it fails.  The assumptions are
`AtomsAssumption` (ESC, the bracket, the marks and what is pasted are told apart),
`InputsAssumption` (an input is a sequence, and the atom that stands for pasted text is in a
paste) and `NoneAssumption`.  The proof found that the exception for an Escape in front of
a paste was too narrow: Alt+[ there is an incomplete sequence too, and is lost with the
mark's ESC.

A shell command's output is kept (`NothingDropped`), for any output, any cut into chunks and any
ceiling.  `Flow` says, of a stream that is used while the other is not, where the bytes taken
are: those that have reached the file or, as long as there is none, are kept (`Sunk`), then
the text in the pump's hands, then the decoder's rest, of which nothing can be decoded, then the chunk
not yet decoded.  The delicate place is the rolling tail: chunks may be dropped at
twice the ceiling of characters, and the file begins, with what is kept, only when the counter
of bytes passes the ceiling; but a chunk that decodes to nothing is not counted.  So `Flow`
bounds what is kept by twice what was counted, since no more than half a character can be carried
over into the next chunk (`HalfCarried`); characters of more bytes change nothing, as the tail is
measured in characters and a chunk completes at most as many as it has bytes.  `EndInv` orders the ends: of the pumps before the worker's
when all was read, and of the worker before anything the loop concludes.  A text shorter than the least that is compressed is its
own record; of a longer one the theorem says that it is kept if there is a file.  The assumptions are
`OutputsAssumption` (chunks are not empty), `MaxBytesAssumption`, `MinSizeAssumption` and `NothingAssumption`.

`EditorProofs` proves, for any texts, history, kill ring and widths, that kills come back as
they were (`RingRestores`), that edits can be undone (`EditsCanBeUndone`) and that the cursor
keeps its place and its column (`CursorInPlace`).  For the first two the inductive
invariant `EditInv` is the types and `JoinInv`, and neither is inductive without the other: a
kill that is joined takes the last entry of the ring, so the types need that the ring is
not empty during a run of kills or yanks (`RingInv`).  `RingInv` also says that a yanked
entry fits in front of the cursor.  `WordInv` says that while a word is typed the last entry of
the undo stack is the text without what was typed behind its cursor, and that of this
only the first character may be a space; `Undoable` about an undo follows from it, and the
rest of the property from the step itself.  A snapshot may hold a cursor that is `Astray`, on
the left of its line, because a vertical move with a column from before an edit can put
it there; the types allow it, and no edit starts from it.

The argument about the ring is one about a text in three parts: what `TakenOut` and `PutIn` say of
a part taken out of a text and put into it, and `KillJoins` of two kills that meet.
Where wrapped lines begin matters to neither, but a vertical move must leave the cursor
in the text, so the visual lines are typed: their recursive functions exist, and give lines
of the text, by well-foundedness.

The cursor's place needs two more invariants on top of `EditInv`, and more about the lines.

- `MarkersInv`: unless a jump has gone into a marker, the markers of the message being written
  are whole (`Wholes`: each tail follows its bracket, and stands for a paste that was made) in the text, the
  kill ring, the history and every snapshot, and the cursor, there and in each snapshot, is in
  no marker.  The ring and the snapshots have to be in it: a yank or an undo brings
  back what they hold.  It is kept because every edit cuts and joins texts between
  characters that are stepped over as one (`WholeParts`, `WholeJoin`, `Back`, `Ahead`).
- `Rows`: the visual lines of a line are pieces of it (`Piece`) that begin outside markers, come in
  order (`RowsInOrder`) and hold every place of the line (`Covers`), the last one its end too.
  With it a place is found again in one visual line only.  It is proved of `Breaks` and
  `Wrapped` by well-foundedness, one break at a time, from what `Wrap` may answer.
- `ColumnsInv`: while a run of vertical moves lasts, the cursor is where some visual line keeps
  the column the run began with (`KeepsAim`): at that column, or at the line's end with the column
  remembered in `preferred`, or on the bracket of a marker with the column in `snapped`.  A move made at the
  end of the text also remembers a column, without moving (`EndKept`).

The proof attempt found an exception the property had not named: a vertical move with a column
from before an edit may leave the cursor on the left of its line, an abort that then gives
back queued messages keeps that cursor in its snapshot, and an undo brings it back.

The assumptions are `WidthsAssumption` (widths are numbers),
`KindsAssumption` (a key types a letter, a space, a backslash or a bracket),
`TextsAssumption` (texts are sequences of characters, and what is written first is at least one)
and `PastesAssumption` (what is written first has whole markers for its own pastes, and the history, the
kill ring and what is pasted have none for pastes of the message being written).

## What is only model-checked

Liveness (`RunsEnd`, `SteeringHeard`, `ContentPainted`, `CommandReturns`) is out of the
prover's reach.  So is what
the provider's decoder does to a whole sequence of events, a fold whose value for every input
needs an induction over data: that is `ReplyIsWhatWasSent`.  (The recursive functions of the
store, of the input buffer and of the editor have one argument that counts down, and a set of
counterexamples with a least member did for them.)  The
chat (`ChatShowsTranscript`) and the renderer (`EveryFrameShowsContent`) are not proved, nor is
anything about the credential store where a process is killed but its types.

## Findings

- **PromisesAreKept** (`agent_loop_promise`, `agent/loop/src/cortex/agent/loop/__init__.py:513`): The _BackgroundTaskManager is local to _run_loop (line 513): when the run fails with an exception (or returns at lines 553-556 on a response that ends in "error" or "aborted"), the result of a task still in flight is appended to a list that nobody reads. The placeholder the model and the user were given says (agent/loop/src/cortex/agent/loop/__init__.py:393-394): "Started \"{tool}\" in the background. Its result will arrive as a follow-up message once it finishes". The run shows a call that is detached, then a run that raises (a listener or the stream function), which Agent._handle_run_failure ends: the call is never reported, in this run or a later one.
- **RunningBashCanBeAborted** (`agent_session_bash`, `code/session/src/cortex/code/session/agent_session.py:872`): execute_bash stores its controller in the one _bash_abort_controller and sets it to None when any command ends (line 872). code/session/src/cortex/code/session/agent_session.py:916 says of abort_bash "Cancel the running bash command, if there is one." The run shows two overlapping commands: when the first ends, the other is running, abort_bash does nothing and is_bash_running is False.
- **ForkCopiesBranch** (`session_store_fork`, `code/session/src/cortex/code/session/runtime.py:505`): create_branched_session does not write a branch without an assistant message (manager.py:1181-1190), and fork then opens the path it would have had, which makes an empty session (runtime.py:505-507). code/session/src/cortex/code/session/runtime.py:469 says "Copy the branch up to ``entry_id`` into a new session and switch to it." The run shows a session with an answer in its file whose fork is of a branch without one (a summary that branch_with_summary put at the root after an answer, or messages in front of the first answer): the new session has none of its entries. A label inside the branch breaks it too, which the run does not need: it is left out while the entry after it still names it as its parent (manager.py:1133).
- **NothingForgotten** (`compaction_summary`, `agent/compaction/src/cortex/agent/compaction/compaction.py:901`): When the cut splits a turn and no message lies between the boundary of the last compaction and the turn, compact() takes "No prior history." for the history (lines 901-902) and never looks at previous_summary: the new entry's summary replaces the old one and tells of the turn alone. agent/compaction/src/cortex/agent/compaction/compaction.py:663 says of an update "PRESERVE all existing information from the previous summary". The run shows a session of four messages and two compactions: the first keeps the second user message and its answer and summarizes the message before, the second cuts at that answer, within the turn the first has kept, and summarizes the beginning of the turn alone; what the first had summarized is neither in the context nor in the summary.
- **ThinkingStaysSigned** (`provider_stream_signed`, `ai/provider-anthropic/src/cortex/ai/providers/anthropic.py:1105`): A thinking block's signature is sent after its text; signature_delta stores it in block_map (lines 1105-1107), and content_block_stop pushes an event without writing it to output.content, so the message is saved unsigned. ai/provider-common/src/cortex/ai/providers/_common/transform_messages.py:122 says "For same model: keep thinking blocks with signatures (needed" and goes on "for replay)". The run shows a response with one thinking block that ends as it should: the block in the answer has no signature.
- **MutualExclusion** (`auth_storage_lock`, `code/config/src/cortex/code/config/auth_storage.py:185`): _try_acquire looks at the age of the lock and _break_stale removes whatever lock is there by then (lines 161-163, 185-189): two processes that both found a killed holder's lock stale can both enter, the second by removing the lock the first has just made. code/config/tests/test_auth_storage.py:11 says the directory lock guarantees "mutual exclusion, and recovery from a stale lock." The run shows three processes, one of them killed under the lock.

## Not modelled

`PROJECT.json` lists every component with the reason, and every hazard with the
properties that cover it or the reason why none does.

What the code does that no property states, because it is what the code means
to do or because nothing in it says otherwise:

- `flush()` of the settings has one caller, the end of the interactive mode
  (`code/interactive/.../interactive_mode.py`): a setting changed before a crash is lost.
- A resize is painted when the loop next wakes, although `request_render` says of
  itself that it coalesces "to one frame per MIN_RENDER_INTERVAL_MS via the
  running event loop": a callback put on the queue by a signal handler does not end
  the loop's sleep.
- A shell command that ends between two turns is recorded before the rows that the
  first turn put off (`code/session/agent_session.py:907`).
- A byte that is no text stays in the decoder of a shell command, and nothing after it
  is recorded (`code/tools/bash_executor`).
- The agent harness (`agent/harness`) is not modelled: it saves a user's message as a dict
  (`agent_harness.py:63-68`), of which `getattr(msg, "role", "")` in compaction finds nothing and
  `entry.message.role` in `build_session_context` (`agent/session`, `session.py:49`) fails; and each
  turn starts from no messages, since `context` is no dict there (`agent_harness.py:347`).
- An overlay below short content is composed onto rows that were never written.  Where the
  content begins below other output (the first frame in a shell), the cursor cannot go down to
  them, the terminal stops it at the bottom (`tui/render`, `_render.py:1308-1321`), and the
  renderer goes on believing that it did: rows are off by so many until the screen is cleared.
  `_render.py:851` means the padding to give "screen-relative positions".  Nothing in
  `packages/code` shows an overlay.
- A record of 1024 bytes or more of a shell command is compressed before it is decided whether it
  needs a file: lines may be missing of it that no file has, although `compress_bash_output`
  (`code/tools`) is said to be "strictly lossless".
- A navigation during a run does not reach the transcript that the run sends to the model: its
  answers are on the branch that was left and are saved on the one chosen.
- A jump to a character can land inside the marker of a paste, although line 124 of the
  editor says that markers are single units (`tui/components/editor.py:1960`).
- The ids of pastes begin again with every message: a marker that is killed in one and
  yanked in the next stands for the new message's paste of that id.
- The column from before a marker is kept through a forward delete, a kill to the end
  of the line, a submission and an undo; a move up or down after it may compute a column
  on the left of the line.
- A completion applied to an entry of the history is lost by the next Up, without a
  snapshot; and the menu stays open, with its old prefix, while kills, yanks, undo and
  moves change the text under it, and a menu of files also while a character is deleted that
  leaves a / and one word.
- A prompt that is submitted while the previous one is handled is put in the history
  and dropped (`code/interactive/.../interactive_mode.py:1175`).
- Of two shell commands at once the first one's block is never completed, and the end of
  either makes the other's no longer current (`bash_execution_controller.py:90`, `:117`).
- A navigation during a message leaves the message out of the chat until the next
  rebuild, and one while a command runs, or its row is put off, its block; a block that
  waits in the area is drawn twice once its row is in the transcript.
- The blocks of commands held when a session is replaced are moved into the next one's
  chat at the next submission, and the rows it had put off are never recorded.
- A run that fails with an exception leaves the message it had streamed so far in the
  chat, which no rebuild draws.
- A call that an opened session has left unanswered waits in `pending_tools`, "which is
  what lets a tool that was running at quit finish drawing after a resume"
  (`interactive_mode.py:2021`): its result cannot come, and the end of the next run drops
  it, or its failure fills it.
- A session that is replaced while its agent runs is torn down without an abort
  (`code/session/runtime.py:376`); the calls of a parallel batch whose listener raised run
  on (`agent/loop`, line 948).
- Overlays that go out of order leave the focus with one that has gone.
- A refresh of the footer that a move of the directory overtakes stores the branch of
  the directory that was left.

Parts without state of their own that TLC could tell apart: tables of models and keys,
translations between wire formats, prompts and resources, layout and drawing of
components.  Parts that nothing calls: the files of the agent package's own sessions
and the compaction controller of `code/session`.

## Plan

1. `SessionRuntime`: AgentSession composed with SessionStore, and the replacement of
   a session whose agent runs.
2. Proofs: the chat
   (`ChatShowsTranscript`); what of the credential store survives a process that is killed.
