------------------------------- MODULE ChatLog -------------------------------
(***************************************************************************)
(* The chat of the interactive mode (packages/code/interactive): blocks    *)
(* drawn one by one from the events of a run, and drawn anew from the      *)
(* session's transcript after a navigation or when the session is          *)
(* replaced; the blocks of the user's shell commands, which wait in an     *)
(* area of their own while the agent runs; and the message loop.           *)
(*                                                                         *)
(* A block is its kind, the number of its message or command and, for a    *)
(* tool call, its place in the message.  What a block shows is one bit:    *)
(* whether it is filled, with the message's end, the call's result or the  *)
(* command's.  Of the session's tree only the branch to the leaf is kept.  *)
(* The listener suspends nowhere, nor does the replacement.                *)
(***************************************************************************)
EXTENDS Naturals, Sequences, SequencesExt, FiniteSetsExt, Functions

CONSTANTS
    MaxCalls,       \* bound: calls of a message
    MaxIssued,      \* bound: messages and commands
    MaxCommands,    \* bound: commands
    MaxRedraws      \* bound: navigations and replacements

VARIABLES
    rows,           \* the session's messages on the branch
    deferred,       \* its _pending_bash_messages
    run,            \* of the session's agent: idle, ready, streaming or tools
    answer,         \* the message that is streamed, or whose calls are executed
    loop,           \* message_loop: input, given, turn; elsewhere in a replaced session's turn
    commands,       \* those typed, running, or running in a session that was replaced
    chat, filled,   \* chat_container, and the blocks that are filled
    streaming,      \* streaming_component, by its message
    pendingTools,
    held, area,     \* pending_bash_components, and those in pending_messages_container
    current,        \* bash_component
    issued, redraws,
    excused,        \* history: blocks that the code draws otherwise than a rebuild would
    overlapped      \* history: commands that ran at once with another

chatVars == <<rows, deferred, run, answer, loop, commands, chat, filled, streaming,
              pendingTools, held, area, current, issued, redraws, excused, overlapped>>
bashVars == <<held, area, current, overlapped>>

NoNumber == 0
User(n) == <<"user", n, 0>>
Reply(n) == <<"assistant", n, 0>>
Tool(n, k) == <<"tool", n, k>>
Bash(n) == <<"bash", n, 0>>
Result(n, k) == [block |-> Tool(n, k), calls |-> 0, stopped |-> FALSE]
Row(block, calls, stopped) == [block |-> block, calls |-> calls, stopped |-> stopped]

Message(block) == block[2]
Number(row) == Message(row.block)
Rows(kind, rs) == {i \in DOMAIN rs : rs[i].block[1] = kind}
Calls(row) == [k \in 1..row.calls |-> Tool(Number(row), k)]

\* The commands whose rows wait for the next prompt.
Waiting == {Number(deferred[i]) : i \in DOMAIN deferred}

NoAnswer == [n |-> NoNumber, calls |-> 0, shown |-> 0, started |-> 0, ended |-> {}, recorded |-> 0]

ChatInit ==
    /\ rows = <<>> /\ deferred = <<>> /\ run = "idle" /\ answer = NoAnswer
    /\ loop = "input" /\ commands = [typed |-> {}, here |-> {}, elsewhere |-> {}]
    /\ chat = <<>> /\ filled = {} /\ streaming = NoNumber /\ pendingTools = {}
    /\ held = <<>> /\ area = {} /\ current = NoNumber
    /\ issued = 0 /\ redraws = 0 /\ excused = {} /\ overlapped = {}

-----------------------------------------------------------------------------
(* A chat drawn from the transcript, render_session_context.                *)
Rendered(rs) ==
    FlattenSeq([i \in DOMAIN rs |->
        IF rs[i].block[1] = "tool" THEN <<>> ELSE <<rs[i].block>> \o Calls(rs[i])])
FilledBy(rs) ==
    ({rs[i].block : i \in DOMAIN rs} \cap Range(Rendered(rs)))
        \cup UNION {Range(Calls(rs[i])) : i \in {j \in DOMAIN rs : rs[j].stopped}}
\* mutant of Unanswered: a call without its result is not taken up again.
NoneUnanswered(rs) == {}
\* The calls whose results are awaited.
Unanswered(rs) ==
    UNION {Range(Calls(rs[i])) : i \in Rows("assistant", rs)} \ FilledBy(rs)

-----------------------------------------------------------------------------
(* The run, as handle_session_event and the session's listener have it.     *)
Issue == issued < MaxIssued /\ issued' = issued + 1
Drawn(blocks) == chat' = chat \o blocks
NoCommand == UNCHANGED <<commands, bashVars, redraws>>

\* message_loop goes on with what was submitted: AgentSession.prompt; the model may refuse.
TurnBegins ==
    /\ loop = "given" /\ deferred' = <<>> /\ NoCommand
    /\ \/ /\ Issue /\ loop' = "turn" /\ run' = "ready"
          /\ rows' = rows \o deferred \o <<Row(User(issued'), 0, FALSE)>>
          /\ Drawn(<<User(issued')>>) /\ filled' = filled \cup {User(issued')}
       \/ /\ loop' = "input" /\ rows' = rows \o deferred
          /\ UNCHANGED <<run, chat, filled, issued>>
    /\ UNCHANGED <<answer, streaming, pendingTools, excused>>

\* message_start
MessageStarts(calls) ==
    /\ run = "ready" /\ Issue /\ run' = "streaming" /\ NoCommand
    /\ answer' = [NoAnswer EXCEPT !.n = issued', !.calls = calls]
    /\ streaming' = issued' /\ Drawn(<<Reply(issued')>>)
    /\ UNCHANGED <<rows, deferred, loop, filled, pendingTools, excused>>

\* Blocks for those of the calls that have none.
Opened(calls) ==
    /\ Drawn(SelectSeq(calls, LAMBDA c : c \notin pendingTools))
    /\ pendingTools' = pendingTools \cup Range(calls)
\* message_update, by which the message has k calls or more.
MessageUpdates(k) ==
    /\ run = "streaming" /\ k \in (answer.shown + 1)..answer.calls
    /\ Opened([j \in 1..k |-> Tool(answer.n, j)])
    /\ answer' = [answer EXCEPT !.shown = k] /\ NoCommand
    /\ UNCHANGED <<rows, deferred, run, loop, filled, streaming, issued, excused>>

\* agent_end, and the end of the turn in message_loop.
AgentEnds == run' = "idle" /\ loop' = "input" /\ pendingTools' = {}
\* message_end: finish_assistant_message, then append_message.  A provider that sends no
\* partial message tells of no call before the end.  One that was stopped fails all calls
\* that wait, those a rebuild has taken up too.
MessageEnds(stopped) ==
    /\ run = "streaming" /\ answer.shown \in {0, answer.calls} /\ NoCommand
    /\ filled' = filled \cup {Reply(answer.n)} \cup (IF stopped THEN pendingTools ELSE {})
    /\ streaming' = NoNumber
    /\ rows' = Append(rows, Row(Reply(answer.n), answer.calls, stopped))
    /\ IF stopped
       THEN /\ AgentEnds /\ answer' = NoAnswer
            /\ excused' = excused \cup {b \in pendingTools : Message(b) # answer.n}
                 \cup {Tool(answer.n, k) : k \in (answer.shown + 1)..answer.calls}
       ELSE run' = "tools" /\ UNCHANGED <<answer, loop, pendingTools, excused>>
    /\ UNCHANGED <<deferred, chat, issued>>

\* tool_execution_start
ToolStarts ==
    /\ run = "tools" /\ answer.started < answer.calls /\ NoCommand
    /\ Opened(<<Tool(answer.n, answer.started + 1)>>)
    /\ answer' = [answer EXCEPT !.started = @ + 1]
    /\ UNCHANGED <<rows, deferred, run, loop, filled, streaming, issued, excused>>
\* tool_execution_end
ToolEnds(k) ==
    /\ run = "tools" /\ k \in 1..answer.started \ answer.ended /\ NoCommand
    /\ filled' = filled \cup ({Tool(answer.n, k)} \cap pendingTools)
    /\ pendingTools' = pendingTools \ {Tool(answer.n, k)}
    /\ answer' = [answer EXCEPT !.ended = @ \cup {k}]
    /\ UNCHANGED <<rows, deferred, run, loop, chat, streaming, issued, excused>>
\* message_end of a result, which come in the order of the calls.
ResultEnds ==
    /\ run = "tools" /\ answer.recorded + 1 \in answer.ended /\ NoCommand
    /\ answer' = [answer EXCEPT !.recorded = @ + 1]
    /\ rows' = Append(rows, Result(answer.n, answer'.recorded))
    /\ UNCHANGED <<deferred, run, loop, chat, filled, streaming, pendingTools, issued, excused>>

\* The run goes on, with a message that was queued or a background result, or ends.
TurnEnds ==
    /\ run = "tools" /\ answer.recorded = answer.calls /\ answer' = NoAnswer /\ NoCommand
    /\ \/ run' = "ready" /\ UNCHANGED <<rows, loop, chat, filled, pendingTools, issued>>
       \/ /\ Issue /\ run' = "ready" /\ rows' = Append(rows, Row(User(issued'), 0, FALSE))
          /\ Drawn(<<User(issued')>>) /\ filled' = filled \cup {User(issued')}
          /\ UNCHANGED <<loop, pendingTools>>
       \/ AgentEnds /\ UNCHANGED <<rows, chat, filled, issued>>
    /\ UNCHANGED <<deferred, streaming, excused>>
\* _handle_run_failure: message_start, message_end and agent_end of one more message.  The
\* block of one that was streamed stays, and so do those of calls without a result.
RunFails ==
    /\ run # "idle" /\ Issue /\ AgentEnds /\ answer' = NoAnswer /\ NoCommand
    /\ rows' = Append(rows, Row(Reply(issued'), 0, TRUE))
    /\ Drawn(<<Reply(issued')>>) /\ streaming' = NoNumber
    /\ filled' = filled \cup {Reply(issued')} \cup pendingTools
    /\ excused' = excused \cup pendingTools
         \cup {Tool(answer.n, k) : k \in (answer.recorded + 1)..answer.calls}
         \cup (IF run = "streaming" THEN {Reply(answer.n)} ELSE {})
    /\ UNCHANGED deferred
\* The turn of a session that has been replaced ends; nobody listens.
ElsewhereEnds ==
    /\ loop = "elsewhere" /\ loop' = "input"
    /\ UNCHANGED <<rows, deferred, run, answer, commands, chat, filled, streaming,
                   pendingTools, bashVars, issued, redraws, excused>>

-----------------------------------------------------------------------------
(* What the user does.                                                      *)
\* flush_pending_bash_components
Flush ==
    /\ Drawn([i \in DOMAIN held |-> Bash(held[i])])
    /\ held' = <<>> /\ area' = area \ Range(held)
\* handle_submit of a prompt, which is dropped while a turn is under way.
SubmitPrompt ==
    /\ Flush /\ loop' = IF loop = "input" THEN "given" ELSE loop
    /\ UNCHANGED <<rows, deferred, run, answer, commands, filled, streaming, pendingTools,
                   current, issued, redraws, excused, overlapped>>
\* handle_submit of a command.
Known == commands.typed \cup commands.here \cup commands.elsewhere
SubmitBash ==
    /\ Issue /\ Cardinality(Known) < MaxCommands /\ Flush
    /\ commands' = [commands EXCEPT !.typed = @ \cup {issued'}]
    /\ UNCHANGED <<rows, deferred, run, answer, loop, filled, streaming, pendingTools, current,
                   redraws, excused, overlapped>>
\* handle_bash_command, to its await.
BashBegins(n) ==
    /\ n \in commands.typed /\ current' = n
    /\ IF run # "idle" THEN held' = Append(held, n) /\ area' = area \cup {n} /\ UNCHANGED chat
       ELSE Drawn(<<Bash(n)>>) /\ UNCHANGED <<held, area>>
    /\ LET others == commands.here \cup commands.elsewhere
       IN  overlapped' = IF others = {} THEN overlapped ELSE overlapped \cup others \cup {n}
    /\ commands' = [commands EXCEPT !.typed = @ \ {n}, !.here = @ \cup {n}]
    /\ UNCHANGED <<rows, deferred, run, answer, loop, filled, streaming, pendingTools, issued,
                   redraws, excused>>
\* record_bash_result in the session it began in, unless the command could not be run, and
\* the rest of handle_bash_command.
BashEnds(n, ran) ==
    /\ n \in commands.here \/ (ran /\ n \in commands.elsewhere)
    /\ LET row == IF ran /\ n \in commands.here THEN <<Row(Bash(n), 0, FALSE)>> ELSE <<>>
       IN  IF run = "idle" THEN rows' = rows \o row /\ UNCHANGED deferred
                           ELSE deferred' = deferred \o row /\ UNCHANGED rows
    /\ filled' = IF current = n THEN filled \cup {Bash(n)} ELSE filled
    /\ current' = NoNumber
    /\ commands' = [commands EXCEPT !.here = @ \ {n}, !.elsewhere = @ \ {n}]
    /\ excused' = IF ran THEN excused ELSE excused \cup {Bash(n)}
    /\ UNCHANGED <<run, answer, loop, chat, streaming, pendingTools, held, area, issued,
                   redraws, overlapped>>

Redraw(rs) ==
    /\ redraws < MaxRedraws /\ redraws' = redraws + 1
    /\ rows' = rs /\ chat' = Rendered(rs)
    /\ filled' = FilledBy(rs) \cup (filled \cap {Bash(n) : n \in area})
    /\ pendingTools' = Unanswered(rs)
\* A navigation from the tree: the leaf goes to an entry, or before a user's message.  The
\* component of a message that is being streamed is not in the chat any more, nor are
\* the blocks of commands that have no row yet; those in the area stay there.
Navigate(i) ==
    /\ i \in 1..(Len(rows) - 1)
    /\ Redraw(SubSeq(rows, 1, IF rows[i].block[1] = "user" THEN i - 1 ELSE i))
    /\ LET there == Reply(answer.n) \in {rows'[j].block : j \in DOMAIN rows'}
       IN  excused' =
             (IF run = "streaming" THEN {Reply(answer.n)} ELSE {})
               \cup {Tool(answer.n, k) : k \in
                       IF run # "tools" THEN {} ELSE IF there THEN answer.ended
                       ELSE (answer.recorded + 1)..answer.calls}
               \cup {Bash(n) : n \in commands.here \cup Range(held) \cup Waiting}
    /\ answer' = [answer EXCEPT !.shown = IF run = "streaming" THEN 0 ELSE answer.calls]
    /\ UNCHANGED <<deferred, run, loop, commands, streaming, bashVars, issued>>
\* /new, /fork, /clone, /resume: the session is replaced and its listener taken off, then
\* render_current_session_state.  The list of commands that wait to be drawn is kept.
Replace(i) ==
    /\ i \in 0..Len(rows) /\ Redraw(SubSeq(rows, 1, i))
    /\ loop' = IF loop = "turn" THEN "elsewhere" ELSE loop
    /\ run' = "idle" /\ answer' = NoAnswer /\ streaming' = NoNumber
    /\ deferred' = <<>> /\ area' = {}
    /\ commands' = [commands EXCEPT !.here = {}, !.elsewhere = @ \cup commands.here]
    /\ excused' = {Bash(n) : n \in Range(held)}
    /\ UNCHANGED <<held, current, issued, overlapped>>

ChatNext ==
    \/ TurnBegins \/ \E calls \in 0..MaxCalls : MessageStarts(calls)
    \/ \E k \in 1..MaxCalls : MessageUpdates(k) \/ ToolEnds(k)
    \/ \E stopped \in BOOLEAN : MessageEnds(stopped)
    \/ ToolStarts \/ ResultEnds \/ TurnEnds \/ RunFails \/ ElsewhereEnds
    \/ SubmitPrompt \/ SubmitBash
    \/ \E n \in Known : BashBegins(n) \/ \E ran \in BOOLEAN : BashEnds(n, ran)
    \/ \E i \in 0..Len(rows) : Navigate(i) \/ Replace(i)

-----------------------------------------------------------------------------
\* What a rebuild would draw of the conversation, and what the run has to show beyond it.
Shown(rs) ==
    LET live == IF run = "streaming" THEN Append(rs, Row(Reply(answer.n), answer.shown, FALSE))
                ELSE rs
    IN  SelectSeq(Rendered(live), LAMBDA b :
            b[1] # "bash" /\ (b[1] = "tool" /\ b[2] = answer.n
                                => b[3] <= answer.shown \/ b[3] <= answer.started))
\* At every moment the chat shows the conversation as a rebuild from the transcript would,
\* in its order, with what is streamed at its end, each call filled as soon as it has
\* ended; and every command of the session has one block, in the chat or in its area,
\* filled once it has ended.  Excepted are the message that is streamed during a
\* navigation or when an exception ends the run, results that were on their way then,
\* calls that an earlier session left unanswered and a later failure fills,
\* commands without a row or with a block in the area at a navigation, those that could not
\* be run, those held when the session is replaced, and of commands that overlap, that they
\* are filled.
ChatShowsTranscript ==
    LET blocks == SelectSeq(chat, LAMBDA b : b \notin excused /\ b[1] # "bash")
        expected == SelectSeq(Shown(rows), LAMBDA b : b \notin excused)
        ended == {Tool(answer.n, k) : k \in answer.ended}
        began == commands.here
                   \cup {Number(rows[i]) : i \in Rows("bash", rows)}
                   \cup Waiting
        drawn == SelectSeq(chat \o SetToSeq({Bash(n) : n \in area}),
                           LAMBDA b : b \notin excused /\ b[1] = "bash")
    IN  /\ blocks = expected
        /\ Range(blocks) \cap filled = Range(expected) \cap (FilledBy(rows) \cup ended)
        /\ IsInjective(drawn)
        /\ Range(drawn) = {Bash(n) : n \in began} \ excused
        /\ \A n \in began \ overlapped :
              Bash(n) \notin excused => (Bash(n) \in filled <=> n \notin commands.here)
=============================================================================
