---------------------------- MODULE ProviderStream ----------------------------
(***************************************************************************)
(* One response of the Anthropic provider (packages/ai/provider-anthropic, *)
(* stream_anthropic): the body arrives in chunks that may end anywhere, is *)
(* decoded into server-sent events, and each event extends the message and *)
(* pushes an event on the stream (packages/ai/stream) that the agent loop  *)
(* reads (packages/agent/loop, _stream_assistant_response).                *)
(*                                                                         *)
(* The handling of one chunk suspends nowhere, so it is one step; the      *)
(* reader runs between chunks.  A body is a sequence of tokens: the parts  *)
(* of lines, and LF.  A character of several bytes is the two tokens       *)
(* "lead" and "cont"; the rest of a line arrives whole.  The program's own *)
(* client hands over the body as one chunk; one given in the options may   *)
(* cut it anywhere.                                                        *)
(***************************************************************************)
EXTENDS Naturals, Sequences, SequencesExt, FiniteSetsExt, Functions

CONSTANTS
    Replies,    \* what the server may send: sequences of its events, see Wire
    MaxChunks,  \* bound: the chunks a body arrives in
    None

VARIABLES
    reply,      \* the server's events
    link,       \* the response: "requested", "open", "over"
    coming,     \* the rest of the body
    chunks,     \* chunks that have arrived
    signalled,  \* the abort signal
    decoder,    \* _IncrementalSSEDecoder: the buffer, and the event being put together
    output,     \* the AssistantMessage: content, stop, started, ended
    blockMap,   \* block_map
    queue, waiting, handed, done, answer,     \* EventStream: handed is a woken waiter's event
    added,      \* the reader's added_partial
    messages,   \* what the reader has appended: None is the message that is being built
    told,       \* history: the content a client that only reads the deltas has
    reading     \* the reader is in its loop

serverVars == <<reply, link, coming, chunks, signalled>>
producerVars == <<decoder, output, blockMap>>
streamVars == <<queue, waiting, handed, done, answer>>
readerVars == <<added, messages, told, reading>>
providerVars == <<serverVars, producerVars, streamVars, readerVars>>

-----------------------------------------------------------------------------
(* The server: one data line per event, every block whole before the next.  *)
LF == [part |-> "LF"]
Line(e) ==
    <<[part |-> "event", of |-> e], LF, [part |-> "data", of |-> e]>>
    \o (IF "piece" \in DOMAIN e /\ e.piece = "wide"
        THEN <<[part |-> "lead"], [part |-> "cont"]>> ELSE <<>>)
    \o <<LF, LF>>
Body(events) == FlattenSeq([i \in DOMAIN events |-> Line(events[i])])

\* Blocks are numbered from 0, also those of a kind the program does not know.
BlockEvents(i, b) ==
    <<[type |-> "content_block_start", index |-> i, kind |-> b.kind]>>
    \o [d \in DOMAIN b.pieces |->
           [type |-> "content_block_delta", index |-> i, kind |-> b.kind, piece |-> b.pieces[d]]]
    \o (IF b.kind = "thinking"
        THEN <<[type |-> "content_block_delta", index |-> i, kind |-> "signature"]>> ELSE <<>>)
    \o <<[type |-> "content_block_stop", index |-> i]>>
Wire(blocks, stop) ==
    <<[type |-> "message_start"]>>
    \o FlattenSeq([i \in DOMAIN blocks |-> BlockEvents(i - 1, blocks[i])])
    \o <<[type |-> "ping"], [type |-> "message_delta", stop |-> stop], [type |-> "message_stop"]>>

-----------------------------------------------------------------------------
(* Decoding.  s holds the producer's state while a chunk is handled; the     *)
(* events pushed meanwhile are s.pushed, and s.failed is a raised exception. *)
Working == [line |-> decoder.line, event |-> decoder.event, data |-> decoder.data,
            output |-> output, map |-> blockMap, pushed |-> <<>>, failed |-> FALSE]

\* What is left of a character that a chunk cuts is ignored, on both sides of the cut.
Utf8(chunk) ==
    LET tail == IF chunk[1].part = "cont" THEN Tail(chunk) ELSE chunk
    IN  IF tail # <<>> /\ Last(tail).part = "lead" THEN Front(tail) ELSE tail

\* mutant of FindBlock: the number is taken for the place.
FindBlockByNumber(s, index) ==
    IF index \in DOMAIN s.map /\ index + 1 <= Len(s.output.content) THEN index + 1 ELSE 0
\* A block's place in the content is its rank among the numbers seen.
FindBlock(s, index) ==
    LET rank == 1 + Cardinality({k \in DOMAIN s.map : k < index})
    IN  IF index \in DOMAIN s.map /\ rank <= Len(s.output.content) THEN rank ELSE 0
Pushed(s, type, at, piece) ==
    [s EXCEPT !.pushed = Append(@, [type |-> type, at |-> at, piece |-> piece])]

BlockStart(s, e) ==
    IF e.kind \notin {"text", "thinking", "redacted", "tool"} THEN s ELSE
    LET block == [kind |-> e.kind, pieces |-> <<>>, signed |-> e.kind = "redacted"]
        kept == [s EXCEPT !.map = (e.index :> block) @@ @,
                          !.output.content = Append(@, block)]
    IN  Pushed(kept, "start", Len(kept.output.content), e.kind)
BlockDelta(s, e) ==
    IF e.index \notin DOMAIN s.map THEN s
    ELSE IF e.kind = "signature"
    THEN [s EXCEPT !.map[e.index].signed = TRUE]
    ELSE LET kept == [s EXCEPT !.map[e.index].pieces = Append(@, e.piece)]
             at == FindBlock(kept, e.index)
         IN  IF at = 0 THEN kept
             ELSE Pushed([kept EXCEPT !.output.content[at] = kept.map[e.index]],
                         "delta", at, e.piece)
BlockStop(s, e) ==
    LET at == FindBlock(s, e.index)
    IN  IF at = 0 THEN s
        ELSE Pushed(IF s.map[e.index].kind = "tool"
                    THEN [s EXCEPT !.output.content[at] = s.map[e.index]] ELSE s,
                    "end", at, None)
Handle(s, e) ==
    CASE e.type = "message_start" -> [s EXCEPT !.output.started = TRUE]
      [] e.type = "message_stop" -> [s EXCEPT !.output.ended = TRUE]
      [] e.type = "content_block_start" -> BlockStart(s, e)
      [] e.type = "content_block_delta" -> BlockDelta(s, e)
      [] e.type = "content_block_stop" -> BlockStop(s, e)
      [] e.type = "message_delta" ->
            IF e.stop = "unheard of" THEN [s EXCEPT !.failed = TRUE]
            ELSE [s EXCEPT !.output.stop = e.stop]

\* An event is complete; without data it cannot be parsed.
Dispatch(s) ==
    LET next == [s EXCEPT !.event = None, !.data = None]
    IN  CASE s.event = None /\ s.data = None -> s
          [] s.event = "error" -> [next EXCEPT !.failed = TRUE]
          [] s.event \in {None, "ping"} -> next
          [] OTHER -> IF s.data = None THEN [next EXCEPT !.failed = TRUE]
                      ELSE Handle(next, s.data)
\* A line of the body; a wide character that has lost its bytes leaves nothing.
DecodeLine(s) ==
    LET line == s.line
        next == [s EXCEPT !.line = <<>>]
    IN  IF line = <<>> THEN Dispatch(next)
        ELSE IF line[1].part = "event" THEN [next EXCEPT !.event = line[1].of.type]
        ELSE LET e == line[1].of
             IN  [next EXCEPT !.data = IF "piece" \in DOMAIN e /\ e.piece = "wide" /\ Len(line) = 1
                                       THEN [e EXCEPT !.piece = "lost"] ELSE e]
Feed(s, token) ==
    IF s.failed THEN s
    ELSE IF token = LF THEN DecodeLine(s) ELSE [s EXCEPT !.line = Append(@, token)]
Fed(s, chunk) ==
    LET fed[n \in 0..Len(chunk)] == IF n = 0 THEN s ELSE Feed(fed[n - 1], chunk[n])
    IN  fed[Len(chunk)]
\* The end of the body: what the buffer holds counts as a line, and as an event.
Flush(s) == Dispatch(IF s.line = <<>> THEN s ELSE DecodeLine(s))

-----------------------------------------------------------------------------
(* The event stream.                                                         *)
Terminal(e) == e.type \in {"done", "error"}
\* push() of several events: a waiting reader is handed the first.
Push(events) ==
    /\ handed' = IF waiting /\ events # <<>> THEN <<events[1]>> ELSE handed
    /\ waiting' = (waiting /\ events = <<>>)
    /\ queue' = IF waiting /\ events # <<>> THEN queue \o Tail(events) ELSE queue \o events
    /\ done' = (done \/ \E i \in DOMAIN events : Terminal(events[i]))
\* The last event carries the message, which is the answer.
Ends(s, how) ==
    LET stop == IF how = "done" THEN s.output.stop
                ELSE IF signalled THEN "aborted" ELSE "error"
        final == [s.output EXCEPT !.stop = stop]
    IN  /\ Push(Append(s.pushed, [type |-> how, at |-> 0, piece |-> None]))
        /\ output' = final /\ answer' = final
        /\ link' = "over"
Fails(s) == Ends(s, "error")
Keep(s) ==
    /\ decoder' = [line |-> s.line, event |-> s.event, data |-> s.data]
    /\ blockMap' = s.map

-----------------------------------------------------------------------------
(* The producer, _run().                                                     *)
ProviderInit ==
    /\ reply \in Replies /\ link = "requested" /\ coming = Body(reply)
    /\ chunks = 0 /\ signalled = FALSE
    /\ decoder = [line |-> <<>>, event |-> None, data |-> None]
    /\ output = [content |-> <<>>, stop |-> "stop", started |-> FALSE, ended |-> FALSE]
    /\ blockMap = <<>>
    /\ queue = <<>> /\ waiting = FALSE /\ handed = <<>> /\ done = FALSE /\ answer = None
    /\ added = FALSE /\ messages = <<>> /\ told = <<>> /\ reading = TRUE

\* The signal is not looked at before the first chunk.
Response ==
    /\ link = "requested"
    /\ \/ /\ link' = "open"
          /\ Push(<<[type |-> "begin", at |-> 0, piece |-> None]>>)
          /\ UNCHANGED <<output, answer>>
       \/ Fails(Working)
    /\ UNCHANGED <<reply, coming, chunks, signalled, decoder, blockMap, readerVars>>
\* A chunk of any length; the events before an exception have been pushed.
Chunk ==
    /\ link = "open" /\ coming # <<>> /\ chunks < MaxChunks
    /\ \E n \in DOMAIN coming :
          LET s == IF signalled THEN [Working EXCEPT !.failed = TRUE]
                   ELSE Fed(Working, Utf8(SubSeq(coming, 1, n)))
          IN  /\ coming' = SubSeq(coming, n + 1, Len(coming))
              /\ Keep(s)
              /\ IF s.failed THEN Fails(s)
                 ELSE Push(s.pushed) /\ output' = s.output /\ UNCHANGED <<link, answer>>
    /\ chunks' = chunks + 1
    /\ UNCHANGED <<reply, signalled, readerVars>>
\* The body ends, where it should or before, or the connection breaks.
BodyEnds ==
    /\ link = "open"
    /\ LET s == Flush(Working)
       IN  /\ Keep(s)
           /\ IF \/ s.failed
                 \/ s.output.started /\ ~s.output.ended
                 \/ signalled
                 \/ s.output.stop = "error"
              THEN Fails(s) ELSE Ends(s, "done")
    /\ UNCHANGED <<reply, coming, chunks, signalled, readerVars>>
Breaks ==
    /\ link = "open" /\ Fails(Working)
    /\ UNCHANGED <<reply, coming, chunks, signalled, decoder, blockMap, readerVars>>
Signal ==
    /\ ~signalled /\ link # "over" /\ signalled' = TRUE
    /\ UNCHANGED <<reply, link, coming, chunks, producerVars, streamVars, readerVars>>

-----------------------------------------------------------------------------
(* The reader.                                                               *)
Wait ==
    /\ reading /\ queue = <<>> /\ handed = <<>> /\ ~waiting /\ ~done
    /\ waiting' = TRUE
    /\ UNCHANGED <<serverVars, producerVars, queue, handed, done, answer, readerVars>>
\* The events in the order they are read: the one handed over, then the queue.
Unread == handed \o queue
Take ==
    /\ reading /\ ~waiting /\ Unread # <<>>
    /\ handed' = <<>> /\ queue' = IF handed = <<>> THEN Tail(queue) ELSE queue
    /\ UNCHANGED <<serverVars, producerVars, waiting, done, answer>>
\* The partial message goes into the transcript once and is the message being built;
\* the client of the deltas keeps its own.
ReadUpdate ==
    /\ Take /\ ~Terminal(Unread[1])
    /\ LET e == Unread[1]
       IN  /\ added' = (added \/ e.type = "begin")
           /\ messages' = IF e.type = "begin" THEN Append(messages, None) ELSE messages
           /\ told' = CASE e.type = "start" ->
                              Append(told, [kind |-> e.piece, pieces |-> <<>>])
                        [] e.type = "delta" -> [told EXCEPT ![e.at].pieces = Append(@, e.piece)]
                        [] OTHER -> told
    /\ UNCHANGED reading
ReadEnd ==
    /\ Take /\ Terminal(Unread[1]) /\ answer # None
    /\ messages' = Append(IF added THEN Front(messages) ELSE messages, answer)
    /\ reading' = FALSE
    /\ UNCHANGED <<added, told>>

ProviderNext == Response \/ Chunk \/ BodyEnds \/ Breaks \/ Signal \/ Wait \/ ReadUpdate \/ ReadEnd

-----------------------------------------------------------------------------
(* The blocks the server sent of the kinds the program knows.                *)
Known == {i \in DOMAIN reply :
             reply[i].type = "content_block_start"
             /\ reply[i].kind \in {"text", "thinking", "redacted", "tool"}}
PiecesOf(i) ==
    LET deltas == SelectSeq(reply, LAMBDA e : e.type = "content_block_delta"
                                              /\ e.index = reply[i].index /\ "piece" \in DOMAIN e)
    IN  [d \in DOMAIN deltas |-> deltas[d].piece]
Sent == LET starts == SetToSortSeq(Known, <)
        IN  [n \in DOMAIN starts |-> [kind |-> reply[starts[n]].kind, pieces |-> PiecesOf(starts[n])]]
\* Equal but for wide characters that a chunk has cut.
Same(blocks, others) ==
    /\ Len(blocks) = Len(others)
    /\ \A i \in DOMAIN blocks :
          /\ blocks[i].kind = others[i].kind /\ Len(blocks[i].pieces) = Len(others[i].pieces)
          /\ \A d \in DOMAIN blocks[i].pieces :
                \/ blocks[i].pieces[d] = others[i].pieces[d]
                \/ blocks[i].pieces[d] = "lost" /\ others[i].pieces[d] = "wide"

\* A response that was begun and is reported as done is the one the server sent, block
\* by block, however it was cut; and of every response the transcript gets one message,
\* whose content is what the deltas have told (the content_block_* branches of
\* stream_anthropic, _find_block_index and the reader's added_partial).  Meanwhile a reader
\* that waits has taken every event, and more are to come: nobody waits for a response that
\* is over (EventStream.push, end and _iterate).
ReplyIsWhatWasSent ==
    /\ ~reading =>
          /\ messages = <<answer>>
          /\ Same(told, answer.content)
          /\ answer.stop \in {"stop", "toolUse"} /\ answer.started => Same(answer.content, Sent)
    /\ waiting => Unread = <<>> /\ ~done /\ link # "over"
\* A thinking block carries the signature that the server has sent for it, as the next
\* request must return it (the signature_delta branch of stream_anthropic).
ThinkingStaysSigned ==
    ~reading /\ answer.stop = "stop" =>
        \A i \in DOMAIN answer.content :
            answer.content[i].kind = "thinking" => answer.content[i].signed
=============================================================================
