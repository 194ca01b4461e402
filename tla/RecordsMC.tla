------------------------------ MODULE RecordsMC ------------------------------
(***************************************************************************)
(* What is written, kept, sent and shown: settings, the session store and  *)
(* its tree, replayed transcripts, a provider's response, compaction and   *)
(* the chat, side by side, on small instances.  A behaviour runs one of    *)
(* them, `part`, and the others rest.                                      *)
(***************************************************************************)
EXTENDS ReplayTranscript, Compaction, SettingsFile, TreeNavigation, TLC

CONSTANTS
    c1, c2, n1, n2                      \* tool call ids and what they are normalized to

VARIABLES
    part,
    \* ProviderStream
    reply, link, coming, chunks, signalled, decoder, output, blockMap, queue, waiting, handed,
    done, answer, added, messages, told, reading,
    \* ChatLog
    rows, deferred, run, streamed, loop, commands, chat, filled, streaming, pendingTools, held,
    area, bashComponent, numbered, redraws, excused, overlapped

-----------------------------------------------------------------------------
(* The instances.                                                           *)
MCSettings == {"theme", "images.resize", "images.block"}
MCGroupOf  == [s \in MCSettings |-> IF s = "theme" THEN "theme" ELSE "images"]

\* A store that is not killed, and with one entry less one that is.
Unkilled == INSTANCE SessionStore WITH AppendedKinds <- {"assistant", "other"}, MaxKills <- 0
Killed == INSTANCE SessionStore WITH AppendedKinds <- {"assistant", "other"}, MaxIds <- 3

Block(kind, pieces) == [kind |-> kind, pieces |-> pieces]
Server == INSTANCE ProviderStream WITH Replies <- {}, MaxChunks <- 0
Stream == INSTANCE ProviderStream WITH
    Replies <- {Server!Wire(<<Block("thinking", <<"think">>), Block("text", <<"wide">>)>>, "stop"),
                Server!Wire(<<Block("other", <<>>), Block("tool", <<"js", "on">>)>>, "toolUse"),
                Server!Wire(<<Block("redacted", <<>>)>>, "error"),
                Server!Wire(<<>>, "unheard of"),
                <<[type |-> "message_start"], [type |-> "error"]>>},
    MaxChunks <- 2

Turns == INSTANCE ChatLog WITH
    MaxCalls <- 2, MaxIssued <- 4, MaxCommands <- 1, MaxRedraws <- 1,
    answer <- streamed, current <- bashComponent, issued <- numbered
Shells == INSTANCE ChatLog WITH
    MaxCalls <- 1, MaxIssued <- 3, MaxCommands <- 2, MaxRedraws <- 1,
    answer <- streamed, current <- bashComponent, issued <- numbered

\* Transcripts of up to two turns, each cut after any of its results.
MCCallIds == {c1, c2, n1, n2}
MCNormalized == (c1 :> n1) @@ (c2 :> n2) @@ (n1 :> n1) @@ (n2 :> n2)

User == [role |-> "user"]
Turn(own, blocks, calls, n, failed) ==
    <<[role |-> "assistant", own |-> own, failed |-> failed, blocks |-> blocks, calls |-> calls]>>
    \o (IF failed THEN <<>> ELSE [i \in 1..n |-> ToolResult(calls[i])])
TurnsWith(ids) ==
    UNION {{Turn(own, blocks, calls, n, failed) : n \in 0..Len(calls)} :
              own \in BOOLEAN, failed \in BOOLEAN,
              blocks \in {{"text", "blank"}, {"redacted", "signed", "thinking"}},
              calls \in {<<>>, ids}}
MCTranscripts ==
    {<<User>> \o first \o between \o second \o last :
        first \in TurnsWith(<<c1, c2>>), second \in TurnsWith(<<n1>>),
        between \in {<<>>, <<User>>}, last \in {<<>>, <<User>>}}

ASSUME TranscriptsOfRuns == \A t \in Transcripts : LeftByRun(t) /\ KeptApart(t)

-----------------------------------------------------------------------------
PartsInit ==
    /\ part \in {"settings", "store", "killed", "tree", "replay", "stream", "compaction",
                "turns", "shells"}
    /\ IF part = "settings" THEN SettingsInit ELSE
          /\ file = Missing /\ lock = Nobody /\ loaded = None /\ modified = None
          /\ at = [p \in Procs |-> "idle"] /\ current = None /\ saved = None /\ spoiled = None
          /\ createdTwice = FALSE /\ usurped = FALSE /\ seized = FALSE /\ crashes = 0 /\ sets = 0
    /\ IF part \in {"store", "killed", "tree"} THEN NavigationInit ELSE
          /\ disk = <<>> /\ named = None /\ issued = None /\ kills = None /\ running = FALSE
          /\ sessionFile = None /\ entries = <<>> /\ leaf = None /\ flushed = None
          /\ context = <<>> /\ sends = None /\ left = FALSE /\ summaries = None
    /\ IF part = "replay" THEN ReplayInit ELSE
          /\ transcript = <<>> /\ phase = "first" /\ pos = 1 /\ idMap = {}
          /\ transformed = <<>> /\ result = <<>> /\ pending = <<>> /\ existing = {}
    /\ IF part = "stream" THEN Stream!ProviderInit ELSE
          /\ reply = None /\ link = None /\ coming = None /\ chunks = None /\ signalled = None
          /\ decoder = None /\ output = None /\ blockMap = None /\ queue = <<>>
          /\ waiting = FALSE /\ handed = <<>> /\ done = None /\ answer = None /\ added = None
          /\ messages = None /\ told = None /\ reading = FALSE
    /\ IF part = "compaction" THEN CompactionInit ELSE
          /\ path = <<>> /\ owed = None
    /\ IF part \in {"turns", "shells"} THEN Turns!ChatInit ELSE
          /\ rows = <<>> /\ deferred = <<>> /\ run = None /\ streamed = None /\ loop = None
          /\ commands = None /\ chat = <<>> /\ filled = {} /\ streaming = None
          /\ pendingTools = {} /\ held = <<>> /\ area = {} /\ bashComponent = None
          /\ numbered = None /\ redraws = None /\ excused = {} /\ overlapped = {}

stream == <<reply, link, coming, chunks, signalled, decoder, output, blockMap, queue, waiting,
            handed, done, answer, added, messages, told, reading>>
shown  == <<rows, deferred, run, streamed, loop, commands, chat, filled, streaming,
            pendingTools, held, area, bashComponent, numbered, redraws, excused, overlapped>>
partVars == <<part, settingsVars, navigationVars, replayVars, stream, compactionVars, shown>>

\* In the parts without navigation the agent's transcript is only ever rebuilt.
Restored ==
    /\ UNCHANGED <<sends, left, summaries>>
    /\ IF UNCHANGED <<entries, leaf>> THEN UNCHANGED context
       ELSE \E es \in {entries'}, i \in {leaf'} :
               context' = IF Ends(es, i) THEN Messages(es, i) ELSE <<>>

PartsNext ==
    /\ part' = part
    /\ \/ /\ part = "settings" /\ SettingsNext
          /\ UNCHANGED <<navigationVars, replayVars, stream, compactionVars, shown>>
       \/ /\ \/ part = "store" /\ Unkilled!StoreNext /\ Restored
             \/ part = "killed" /\ Killed!StoreNext /\ Restored
             \/ part = "tree" /\ NavigationNext
          /\ UNCHANGED <<settingsVars, replayVars, stream, compactionVars, shown>>
       \/ /\ part = "replay" /\ ReplayNext
          /\ UNCHANGED <<settingsVars, navigationVars, stream, compactionVars, shown>>
       \/ /\ part = "stream" /\ Stream!ProviderNext
          /\ UNCHANGED <<settingsVars, navigationVars, replayVars, compactionVars, shown>>
       \/ /\ part = "compaction" /\ CompactionNext
          /\ UNCHANGED <<settingsVars, navigationVars, replayVars, stream, shown>>
       \/ /\ \/ part = "turns" /\ Turns!ChatNext
             \/ part = "shells" /\ Shells!ChatNext
          /\ UNCHANGED <<settingsVars, navigationVars, replayVars, stream, compactionVars>>

PartsSpec == PartsInit /\ [][PartsNext]_partVars

-----------------------------------------------------------------------------
(* The parts' properties.  Those of the modules extended, CallsAnswered,   *)
(* Paired, ResultsHaveCalls, LeavingIsSummarized, SavedStays,              *)
(* SavedOnceAnswered, WalksEnd, SavedStaysSaved, ForkCarriesEntries and    *)
(* ContextIsBranch, are checked as they are stated there.                  *)
\* A response that is reported as done is the one the server sent, once, and is what the
\* deltas have told; and its reader does not wait for what is there, or is over.
ReplyIsWhatWasSent == part = "stream" => Stream!ReplyIsWhatWasSent
\* The chat that the events have drawn is the one a rebuild would draw.
ChatShowsTranscript == part \in {"turns", "shells"} => Turns!ChatShowsTranscript
=============================================================================
