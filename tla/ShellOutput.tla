----------------------------- MODULE ShellOutput -----------------------------
(***************************************************************************)
(* A shell command of the user: execute_bash_with_operations              *)
(* (packages/code/session, bash_executor.py) and the exec it runs on a     *)
(* worker thread (packages/code/tools, bash.py).  A thread per pipe pumps  *)
(* the output into one decoder and one sink, without a lock; a thread      *)
(* polls the signal and kills the process group; the event loop is posted  *)
(* each piece of text, and the end.                                        *)
(*                                                                         *)
(* A step of a pump is what it does between two points where another       *)
(* thread may run; opening the temp file and filling it is one step.  The  *)
(* bytes are "x", a whole character, "lead" and "cont", the halves of one, *)
(* and "bad", which no text holds.                                         *)
(***************************************************************************)
EXTENDS Naturals, Sequences, FiniteSets, SequencesExt

CONSTANTS
    Outputs,    \* what commands write: a sequence of chunks of bytes per stream
    Escapes,    \* whether a command may leave a process outside its group
    MaxBytes,   \* DEFAULT_MAX_BYTES
    MinSize,    \* MIN_COMPRESSION_SIZE
    Nothing

Octets == {"x", "lead", "cont", "bad"}
Streams == {"out", "err"}
ASSUME OutputsAssumption == Outputs \subseteq [Streams -> Seq(Seq(Octets) \ {<<>>})]
ASSUME MaxBytesAssumption == MaxBytes \in Nat
ASSUME MinSizeAssumption == MinSize \in Nat
ASSUME NothingAssumption == Nothing \notin Seq(Octets)

VARIABLES
    unwritten,  \* per stream, the chunks still to be written
    pipe,       \* per stream, the chunks in the pipe
    holders,    \* the processes that hold the pipes: "shell", "child", "escaped"
    aborting,   \* the signal
    exec,       \* the worker: "called", "waiting", "joining", "ended"
    poller,     \* the polling thread runs
    pump,       \* per stream, what its thread does next
    held,       \* per stream, the chunk in its thread's hands
    text,       \* per stream, the text it has decoded
    rest,       \* decoder_remainder
    sink,       \* _OutputSink: chunks, total_bytes, the temp file
    posted,     \* what the loop has been posted; Nothing is the end of exec
    painted,    \* what on_chunk has been called with
    stdioDone,
    outcome,    \* the BashResult
    taken,      \* history: the bytes read from the pipes
    allRead     \* history: both pipes were read to their end in time

processVars == <<unwritten, pipe, holders, aborting>>
pumpVars == <<pump, held, text, rest, sink, taken>>
shellVars == <<processVars, exec, poller, pumpVars, posted, painted, stdioDone, outcome, allRead>>

ShellInit ==
    /\ unwritten \in Outputs /\ pipe = [s \in Streams |-> <<>>]
    /\ holders = {} /\ aborting = FALSE
    /\ exec = "called" /\ poller = FALSE
    /\ pump = [s \in Streams |-> "off"]
    /\ held = [s \in Streams |-> <<>>] /\ text = held /\ rest = <<>>
    /\ sink = [chunks |-> <<>>, total |-> 0, path |-> FALSE, open |-> FALSE, file |-> <<>>]
    /\ posted = <<>> /\ painted = <<>> /\ stdioDone = FALSE /\ outcome = Nothing
    /\ taken = <<>> /\ allRead = FALSE

-----------------------------------------------------------------------------
(* The processes.                                                            *)
Writes(s) ==
    /\ holders # {} /\ unwritten[s] # <<>>
    /\ pipe' = [pipe EXCEPT ![s] = Append(@, Head(unwritten[s]))]
    /\ unwritten' = [unwritten EXCEPT ![s] = Tail(@)]
    /\ UNCHANGED <<holders, aborting, exec, poller, pumpVars, posted, painted, stdioDone, outcome,
                   allRead>>
Exits(p) ==
    /\ p \in holders /\ holders' = holders \ {p}
    /\ UNCHANGED <<unwritten, pipe, aborting, exec, poller, pumpVars, posted, painted, stdioDone,
                   outcome, allRead>>
\* What kill_process_tree leaves, which kills the group.
Outside(processes) == processes \cap {"escaped"}

-----------------------------------------------------------------------------
(* The worker thread, exec().                                                *)
\* A command aborted before it starts is killed at once, else the signal is polled.
Start ==
    /\ exec = "called"
    /\ \E started \in {{"shell"}, {"shell", "child"}}
                      \cup (IF Escapes THEN {{"shell", "escaped"}} ELSE {}) :
          holders' = IF aborting THEN Outside(started) ELSE started
    /\ poller' = ~aborting
    /\ pump' = [s \in Streams |-> "read"] /\ exec' = "waiting"
    /\ UNCHANGED <<unwritten, pipe, aborting, held, text, rest, sink, taken, posted, painted,
                   stdioDone, outcome, allRead>>
\* There is no such shell: the exception ends the command, unless it has been aborted.
SpawnFails ==
    /\ exec = "called"
    /\ exec' = "ended" /\ posted' = Append(posted, [text |-> Nothing, raised |-> TRUE])
    /\ UNCHANGED <<processVars, poller, pumpVars, painted, stdioDone, outcome, allRead>>
Reaped ==
    /\ exec = "waiting" /\ "shell" \notin holders
    /\ exec' = "joining"
    /\ UNCHANGED <<processVars, poller, pumpVars, posted, painted, stdioDone, outcome, allRead>>
\* mutant of Joined: the readers are joined without a limit.
JoinedByAll ==
    /\ exec = "joining" /\ \A s \in Streams : pump[s] = "over"
    /\ stdioDone' = TRUE /\ allRead' = TRUE
    /\ exec' = "ended" /\ poller' = FALSE
    /\ posted' = Append(posted, [text |-> Nothing, raised |-> FALSE])
    /\ UNCHANGED <<processVars, pumpVars, painted, outcome>>
\* The readers have ended, or the grace period has: what is read later is dropped.
Joined ==
    /\ exec = "joining"
    /\ stdioDone' = TRUE /\ allRead' = (\A s \in Streams : pump[s] = "over")
    /\ exec' = "ended" /\ poller' = FALSE
    /\ posted' = Append(posted, [text |-> Nothing, raised |-> FALSE])
    /\ UNCHANGED <<processVars, pumpVars, painted, outcome>>
Poll ==
    /\ poller /\ aborting
    /\ holders' = Outside(holders) /\ poller' = FALSE
    /\ UNCHANGED <<unwritten, pipe, aborting, exec, pumpVars, posted, painted, stdioDone, outcome,
                   allRead>>

-----------------------------------------------------------------------------
(* The pumps, handle_data().                                                 *)
elsewhere == <<processVars, exec, poller, painted, stdioDone, outcome, allRead>>
Goes(s, to) == pump' = [pump EXCEPT ![s] = to]

\* read1() returns a chunk, or the end when nobody holds the pipe.
ReadPipe(s) ==
    /\ pump[s] = "read"
    /\ \/ /\ pipe[s] # <<>>
          /\ pipe' = [pipe EXCEPT ![s] = Tail(@)]
          /\ IF stdioDone THEN UNCHANGED <<pump, held, taken>>
             ELSE /\ Goes(s, "extend")
                  /\ held' = [held EXCEPT ![s] = Head(pipe[s])]
                  /\ taken' = taken \o Head(pipe[s])
       \/ /\ pipe[s] = <<>> /\ holders = {} /\ Goes(s, "over")
          /\ UNCHANGED <<pipe, held, taken>>
    /\ UNCHANGED <<unwritten, holders, aborting, exec, poller, text, rest, sink, posted, painted,
                   stdioDone, outcome, allRead>>
Extend(s) ==
    /\ pump[s] = "extend" /\ Goes(s, "decode")
    /\ rest' = rest \o held[s]
    /\ UNCHANGED <<elsewhere, held, text, sink, taken, posted>>
\* The longest prefix that is text: decoding stops at the first error, and half a
\* character at the end is one.
Fits(bytes, i) ==
    \/ bytes[i] = "x"
    \/ bytes[i] = "lead" /\ i < Len(bytes) /\ bytes[i + 1] = "cont"
    \/ bytes[i] = "cont" /\ i > 1 /\ bytes[i - 1] = "lead"
Decoded(bytes) ==
    LET bad == {i \in DOMAIN bytes : ~Fits(bytes, i)}
    IN  IF bad = {} THEN bytes
        ELSE SubSeq(bytes, 1, (CHOOSE i \in bad : \A j \in bad : i <= j) - 1)
Decode(s) ==
    /\ pump[s] = "decode"
    /\ text' = [text EXCEPT ![s] = Decoded(rest)]
    /\ Goes(s, IF Decoded(rest) = rest THEN "clear" ELSE "delete")
    /\ UNCHANGED <<elsewhere, held, rest, sink, taken, posted>>
\* clear(), whatever the buffer holds by now, or the decoded prefix deleted.
Consume(s) ==
    /\ pump[s] \in {"clear", "delete"}
    /\ rest' = IF pump[s] = "clear" THEN <<>>
               ELSE SubSeq(rest, Len(text[s]) + 1, Len(rest))
    /\ Goes(s, IF text[s] = <<>> THEN "read" ELSE "count")
    /\ UNCHANGED <<elsewhere, held, text, sink, taken, posted>>
\* mutant of WithFile: the file begins with what comes next.
WithFileEmpty(k) ==
    IF k.path THEN k ELSE [k EXCEPT !.path = TRUE, !.open = TRUE]
\* ensure_temp_file.
WithFile(k) ==
    IF k.path THEN k ELSE [k EXCEPT !.path = TRUE, !.open = TRUE, !.file = FlattenSeq(k.chunks)]
Count(s) ==
    /\ pump[s] = "count" /\ Goes(s, "keep")
    /\ LET counted == [sink EXCEPT !.total = @ + Len(held[s])]
           opened == IF counted.total > MaxBytes THEN WithFile(counted) ELSE counted
       IN  sink' = IF opened.open THEN [opened EXCEPT !.file = @ \o text[s]] ELSE opened
    /\ UNCHANGED <<elsewhere, held, text, rest, taken, posted>>
\* output_bytes: the length of the texts, which is their number of characters.
Characters(chunks) ==
    LET all == FlattenSeq(chunks) IN Cardinality({i \in DOMAIN all : all[i] # "cont"})
\* The oldest chunks go while what is kept is more than twice the ceiling.
Rolled(chunks) ==
    LET enough == {i \in DOMAIN chunks :
                      \/ i = Len(chunks)
                      \/ Characters(SubSeq(chunks, i, Len(chunks))) <= 2 * MaxBytes}
    IN  SubSeq(chunks, CHOOSE i \in enough : \A j \in enough : i <= j, Len(chunks))
KeepText(s) ==
    /\ pump[s] = "keep" /\ Goes(s, "post")
    /\ sink' = [sink EXCEPT !.chunks = Rolled(Append(@, text[s]))]
    /\ UNCHANGED <<elsewhere, held, text, rest, taken, posted>>
Post(s) ==
    /\ pump[s] = "post" /\ Goes(s, "read")
    /\ posted' = Append(posted, [text |-> text[s], raised |-> FALSE])
    /\ UNCHANGED <<elsewhere, held, text, rest, sink, taken>>
Pumps(s) ==
    ReadPipe(s) \/ Extend(s) \/ Decode(s) \/ Consume(s) \/ Count(s) \/ KeepText(s) \/ Post(s)

-----------------------------------------------------------------------------
(* The event loop.                                                           *)
\* compress_bash_output: of a text of MinSize bytes or more lines are left out, those the
\* patterns of the command name as noise (here one stretch of them, or none).
Compressed(output) ==
    IF Len(output) < MinSize THEN {output}
    ELSE UNION {{SubSeq(output, 1, i) \o SubSeq(output, j, Len(output)) : i \in 0 .. j - 1} :
                   j \in 1 .. Len(output) + 1}
\* _finish: it is the compressed text that is measured, and saved whole if it must be cut.
Finished ==
    \E shown \in Compressed(FlattenSeq(sink.chunks)) :
        LET k == IF Len(shown) > MaxBytes THEN WithFile(sink) ELSE sink
        IN  /\ outcome' = [raised |-> FALSE, cancelled |-> aborting, saved |-> k.path,
                           whole |-> IF k.path THEN k.file ELSE shown]
            /\ sink' = [k EXCEPT !.open = FALSE]
LoopStep ==
    /\ posted # <<>> /\ posted' = Tail(posted)
    /\ LET e == Head(posted)
       IN  IF e.text # Nothing
           THEN painted' = Append(painted, e.text) /\ UNCHANGED <<sink, outcome>>
           ELSE /\ IF e.raised /\ ~aborting
                   THEN outcome' = [raised |-> TRUE] /\ sink' = [sink EXCEPT !.open = FALSE]
                   ELSE Finished
                /\ UNCHANGED painted
    /\ UNCHANGED <<processVars, exec, poller, pump, held, text, rest, taken, stdioDone, allRead>>
AbortBash ==
    /\ ~aborting /\ outcome = Nothing /\ aborting' = TRUE
    /\ UNCHANGED <<unwritten, pipe, holders, exec, poller, pumpVars, posted, painted, stdioDone,
                   outcome, allRead>>

ShellNext ==
    \/ Start \/ SpawnFails \/ Reaped \/ Joined \/ Poll \/ LoopStep \/ AbortBash
    \/ \E s \in Streams : Writes(s) \/ Pumps(s)
    \/ \E p \in {"shell", "child", "escaped"} : Exits(p)

ShellSpec == ShellInit /\ [][ShellNext]_shellVars
\* The threads and the loop run; no process has to.
ShellFairness ==
    /\ WF_shellVars(Start \/ SpawnFails) /\ WF_shellVars(Reaped) /\ WF_shellVars(Joined)
    /\ WF_shellVars(Poll) /\ WF_shellVars(LoopStep)
    /\ \A s \in Streams : WF_shellVars(Pumps(s))

-----------------------------------------------------------------------------
OneStream == \E s \in Streams : unwritten[s] = <<>> /\ pipe[s] = <<>> /\ held[s] = <<>>
\* The output of a command that used one stream and was read to its end is all in the
\* file the record names, if it names one, else in the record, up to the first byte that is
\* no text, which handle_data never gets past (_OutputSink and the join of exec).  The
\* exception is what is long enough to be compressed and not long enough for a file: lines
\* of it may be gone, and neither `truncated` nor a file says so.
NothingDropped ==
    outcome # Nothing /\ ~outcome.raised /\ allRead /\ OneStream =>
        \/ outcome.whole = Decoded(taken)
        \/ ~outcome.saved /\ Len(Decoded(taken)) >= MinSize
\* An aborted command returns, and so does one whose shell has exited, whoever still
\* holds its pipes (exec's poller and its grace period).
CommandReturns == (aborting \/ exec = "joining") ~> outcome # Nothing
=============================================================================
