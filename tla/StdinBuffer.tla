----------------------------- MODULE StdinBuffer -----------------------------
(***************************************************************************)
(* Terminal input (packages/tui/terminal, stdin_buffer.py): the bytes of   *)
(* one key, or of a bracketed paste, may arrive over several reads, and a  *)
(* lone Escape is the beginning of every escape sequence.  The buffer      *)
(* keeps an incomplete sequence until more arrives or 10 ms have gone by;  *)
(* the time out is a threading.Timer, so it flushes the same buffer on a   *)
(* thread of its own.                                                      *)
(*                                                                         *)
(* Input is a sequence of atoms: a plain character, ESC, "[", or the rest  *)
(* of a CSI sequence, which may be the mark that opens or closes a paste   *)
(* or a Kitty report of a printable key.  The control sequences other than *)
(* CSI (OSC, DCS, APC, SS3, old mouse reports) are left out.  An action is *)
(* what runs without a call in between, where threads may switch.          *)
(***************************************************************************)
EXTENDS Naturals, Sequences, SequencesExt

CONSTANTS
    Inputs,       \* what the terminal may send: sequences of atoms
    ESC, Bracket, PasteOn, PasteOff, KittyA, CharA, Pasted,  \* the atoms
                  \* told apart; Pasted is a character that occurs in pastes only
    Timers,       \* threads of the timers that go off; each does so once
    None

PasteStart == <<ESC, Bracket, PasteOn>>
PasteEnd   == <<ESC, Bracket, PasteOff>>
KittyKey   == <<ESC, Bracket, KittyA>>

\* The atom that occurs in pastes only is in a paste that is still open.
InPaste(s, i) ==
    \E n \in 0..(i - 4) :
       /\ SubSeq(s, n + 1, n + 3) = PasteStart
       /\ \A m \in (n + 3)..(i - 4) : SubSeq(s, m + 1, m + 3) # PasteEnd
ASSUME AtomsAssumption ==
    /\ ESC # Bracket /\ PasteOn \notin {ESC, Bracket} /\ PasteOff \notin {ESC, Bracket, PasteOn}
    /\ Pasted \notin {ESC, Bracket, PasteOn, PasteOff}
ASSUME InputsAssumption ==
    /\ \A s \in Inputs : s \in Seq(Range(s))
    /\ \A s \in Inputs : \A i \in DOMAIN s : s[i] = Pasted => InPaste(s, i)
ASSUME NoneAssumption == None \notin Nat

VARIABLES
    sent,       \* what the terminal sends, all of it
    unread,     \* what has not been read
    buffer,     \* _buffer
    pasteMode, pasteBuffer,
    kittyPending,   \* _pending_kitty_printable_codepoint
    readTimer,  \* _timeout_timer is set and runs
    reader,     \* process(): where it is, the keys it has split off, and what is left
    flusher,    \* each thread: where it is in _flush_timeout, and what it took
    out,        \* history: what the handlers were called with, and the echoes swallowed
    tornMark,   \* history: the time out cut the mark of a paste in two
    raced       \* history: process() and a time out overlapped

pasteVars == <<pasteMode, pasteBuffer>>
stdinVars == <<sent, unread, buffer, pasteVars, kittyPending, readTimer, reader, flusher, out,
               tornMark, raced>>

Reading == [at |-> "idle", keys |-> <<>>, rest |-> <<>>]
Waiting == [at |-> "none", keys |-> <<>>]
Over    == [at |-> "over", keys |-> <<>>]
ReaderBusy  == reader.at # "idle"
FlusherBusy == \E t \in Timers : flusher[t] \notin {Waiting, Over}

StdinInit ==
    /\ sent \in Inputs /\ unread = sent
    /\ buffer = <<>> /\ pasteMode = FALSE /\ pasteBuffer = <<>> /\ kittyPending = None
    /\ readTimer = FALSE /\ reader = Reading /\ flusher = [t \in Timers |-> Waiting]
    /\ out = <<>> /\ tornMark = FALSE /\ raced = FALSE

-----------------------------------------------------------------------------
(* Splitting                                                                *)
Complete(s) ==          \* is_complete_sequence, of a sequence that begins with ESC
    /\ Len(s) > 1
    /\ s[2] = Bracket => Len(s) > 2 /\ Last(s) # ESC

\* extract_complete_sequences: the complete keys, and the rest.
Extract(atoms) ==
    LET split[n \in 0..Len(atoms)] ==
            IF n = 0 THEN [keys |-> <<>>, rest |-> <<>>]
            ELSE LET st == split[n - 1]
                     s  == Append(st.rest, atoms[n])
                 IN  IF s[1] # ESC \/ Complete(s)
                     THEN [keys |-> Append(st.keys, s), rest |-> <<>>]
                     ELSE [keys |-> st.keys, rest |-> s]
    IN  split[Len(atoms)]

\* str.find: how many atoms come before the mark, or None.
Occurs(atoms, mark, n) ==
    n \in 0..(Len(atoms) - Len(mark)) /\ SubSeq(atoms, n + 1, n + Len(mark)) = mark
Find(atoms, mark) ==
    LET places == {n \in 0..Len(atoms) : Occurs(atoms, mark, n)}
    IN  IF places = {} THEN None ELSE CHOOSE n \in places : \A m \in places : n <= m
After(atoms, n) == SubSeq(atoms, n + 1, Len(atoms))

-----------------------------------------------------------------------------
(* Reading: process()                                                       *)
\* A chunk of n atoms is appended, or goes to the paste that is open.
Take(chunk) ==
    /\ readTimer' = FALSE
    /\ IF pasteMode THEN pasteBuffer' = pasteBuffer \o buffer \o chunk /\ buffer' = <<>>
       ELSE buffer' = buffer \o chunk /\ UNCHANGED pasteBuffer
    /\ reader' = [Reading EXCEPT !.at = IF pasteMode THEN "paste" ELSE "split"]
    /\ raced' = (raced \/ FlusherBusy)
    /\ UNCHANGED <<sent, pasteMode, kittyPending, flusher, out, tornMark>>
Read(n) ==
    /\ ~ReaderBusy /\ n \in 1..Len(unread)
    /\ unread' = After(unread, n)
    /\ Take(SubSeq(unread, 1, n))
ReadOn ==               \* process(remaining), after a paste
    /\ reader.at = "again"
    /\ UNCHANGED unread
    /\ Take(reader.rest)

\* The end of a paste is looked for; what comes after it is processed again.
LookForPasteEnd ==
    /\ reader.at = "paste"
    /\ LET end == Find(pasteBuffer, PasteEnd)
           left == After(pasteBuffer, end + Len(PasteEnd))
       IN  IF end = None
           THEN reader' = Reading /\ UNCHANGED <<pasteVars, kittyPending, out>>
           ELSE /\ pasteMode' = FALSE /\ pasteBuffer' = <<>> /\ kittyPending' = None
                /\ out' = Append(out, [kind |-> "paste", data |-> SubSeq(pasteBuffer, 1, end)])
                /\ reader' = IF left = <<>> THEN Reading
                             ELSE [Reading EXCEPT !.at = "again", !.rest = left]
    /\ UNCHANGED <<sent, unread, buffer, readTimer, flusher, tornMark, raced>>

\* The buffer is split, up to a paste if one begins in it.
Split ==
    /\ reader.at = "split"
    /\ LET start == Find(buffer, PasteStart)
           some  == Extract(IF start = None THEN buffer ELSE SubSeq(buffer, 1, start))
       IN  reader' = [at |-> IF start = None THEN "assign" ELSE "before",
                      keys |-> some.keys, rest |-> some.rest]
    /\ UNCHANGED <<sent, unread, buffer, pasteVars, kittyPending, readTimer, flusher, out,
                   tornMark, raced>>

\* The rest goes back into the buffer, whatever a time out has done to it since.
AssignAway ==           \* mutant: an incomplete rest is thrown away
    /\ reader.at = "assign"
    /\ buffer' = <<>>
    /\ reader' = [reader EXCEPT !.at = "emit", !.rest = <<>>]
    /\ UNCHANGED <<sent, unread, pasteVars, kittyPending, readTimer, flusher, out, tornMark,
                   raced>>
Assign ==
    /\ reader.at = "assign"
    /\ buffer' = reader.rest
    /\ reader' = [reader EXCEPT !.at = "emit", !.rest = <<>>]
    /\ UNCHANGED <<sent, unread, pasteVars, kittyPending, readTimer, flusher, out, tornMark,
                   raced>>

\* _emit_data: a character just reported in Kitty's form is an echo.
Deliver(key) ==
    LET echo == key = <<CharA>> /\ kittyPending = CharA
    IN  /\ out' = Append(out, [kind |-> IF echo THEN "echo" ELSE "key", data |-> key])
        /\ kittyPending' = IF ~echo /\ key = KittyKey THEN CharA ELSE None
EmitKey ==
    /\ reader.at \in {"emit", "before"} /\ reader.keys # <<>>
    /\ Deliver(Head(reader.keys))
    /\ reader' = [reader EXCEPT !.keys = Tail(@)]
    /\ UNCHANGED <<sent, unread, buffer, pasteVars, readTimer, flusher, tornMark, raced>>
EndReadingNoTimer ==    \* mutant: a timer only for the first atom of a sequence
    /\ reader.at = "emit" /\ reader.keys = <<>>
    /\ readTimer' = (Len(buffer) = 1)
    /\ reader' = Reading
    /\ UNCHANGED <<sent, unread, buffer, pasteVars, kittyPending, flusher, out, tornMark,
                   raced>>
\* An incomplete rest gets a timer.
EndReading ==
    /\ reader.at = "emit" /\ reader.keys = <<>>
    /\ readTimer' = (buffer # <<>>)
    /\ reader' = Reading
    /\ UNCHANGED <<sent, unread, buffer, pasteVars, kittyPending, flusher, out, tornMark,
                   raced>>
\* The paste begins; a time out may have taken the buffer since the mark was found.
BeginPaste ==
    /\ reader.at = "before" /\ reader.keys = <<>>
    /\ LET start == Find(buffer, PasteStart)
       IN  pasteBuffer' = IF start = None THEN <<>> ELSE After(buffer, start + Len(PasteStart))
    /\ pasteMode' = TRUE /\ buffer' = <<>> /\ kittyPending' = None
    /\ reader' = [Reading EXCEPT !.at = "paste"]
    /\ UNCHANGED <<sent, unread, readTimer, flusher, out, tornMark, raced>>

-----------------------------------------------------------------------------
(* The time out, on a thread of its own: _flush_timeout and flush()         *)
FlushTimerFires(t) ==
    /\ readTimer /\ flusher[t] = Waiting
    /\ readTimer' = FALSE
    /\ flusher' = [flusher EXCEPT ![t].at = "fired"]
    /\ raced' = (raced \/ ReaderBusy)
    /\ UNCHANGED <<sent, unread, buffer, pasteVars, kittyPending, reader, out, tornMark>>
CancelTimer(t) ==
    /\ flusher[t].at = "fired"
    /\ readTimer' = FALSE
    /\ flusher' = [flusher EXCEPT ![t].at = "cancelled"]
    /\ UNCHANGED <<sent, unread, buffer, pasteVars, kittyPending, reader, out, tornMark,
                   raced>>
Torn(mark) == \E n \in 1..(Len(mark) - 1) :
                 IsSuffix(SubSeq(mark, 1, n), buffer) /\ IsPrefix(After(mark, n), unread)
TakeBuffer(t) ==
    /\ flusher[t].at = "cancelled"
    /\ buffer' = <<>>
    /\ kittyPending' = IF buffer = <<>> THEN kittyPending ELSE None
    /\ flusher' = [flusher EXCEPT ![t] = IF buffer = <<>> THEN Over
                                         ELSE [at |-> "took", keys |-> buffer]]
    /\ tornMark' = (tornMark \/ Torn(PasteStart))
    /\ UNCHANGED <<sent, unread, pasteVars, readTimer, reader, out, raced>>
EmitFlushed(t) ==
    /\ flusher[t].at = "took"
    /\ Deliver(flusher[t].keys)
    /\ flusher' = [flusher EXCEPT ![t] = Over]
    /\ UNCHANGED <<sent, unread, buffer, pasteVars, readTimer, reader, tornMark, raced>>

-----------------------------------------------------------------------------
Reader == \/ ReadOn \/ LookForPasteEnd \/ Split \/ Assign \/ EmitKey \/ EndReading
          \/ BeginPaste \/ \E n \in 1..Len(unread) : Read(n)
Flush(t) == FlushTimerFires(t) \/ CancelTimer(t) \/ TakeBuffer(t) \/ EmitFlushed(t)
StdinNext == Reader \/ \E t \in Timers : Flush(t)
StdinSpec == StdinInit /\ [][StdinNext]_stdinVars
\* Input is read by a loop that goes on, and a timer that runs goes off.
StdinFairSpec == StdinSpec /\ WF_stdinVars(Reader) /\ \A t \in Timers : WF_stdinVars(Flush(t))

-----------------------------------------------------------------------------
(* Properties                                                               *)
Bytes(event) == IF event.kind = "paste" THEN PasteStart \o event.data \o PasteEnd
                ELSE event.data
Quiet == ~ReaderBusy /\ ~FlusherBusy
Accounted == FlattenSeq([i \in DOMAIN out |-> Bytes(out[i])])
             \o (IF pasteMode THEN PasteStart \o pasteBuffer ELSE <<>>) \o buffer \o unread

\* An Escape or Alt+[ right before a paste: the buffer takes it with the ESC of the
\* mark for one key, or throws it away.
EscapeBeforePaste ==
    \E key \in {<<ESC>>, <<ESC, Bracket>>}, n \in 0..Len(sent) : Occurs(sent, key \o PasteStart, n)

\* A chunk boundary alone never makes pasted text into keystrokes: it takes a
\* time out in the middle of the mark that opens the paste.
PastedTextIsNoKey ==
    \A i \in DOMAIN out :
       out[i].kind = "key" /\ Contains(out[i].data, Pasted)
         => tornMark \/ raced \/ EscapeBeforePaste

\* However the input was cut into reads, and whenever the time out came, what the
\* handlers got and what is still buffered is what the terminal sent, once and in
\* order, and pasted text comes as a paste; two threads in the buffer at once are an
\* exception, and so is an Escape right before a paste.
InputAccounted ==
    /\ Quiet => EscapeBeforePaste \/ raced \/ Accounted = sent
    /\ PastedTextIsNoKey

\* An incomplete sequence never stays behind with nothing to flush it: a timer
\* runs or a flush is on its way, whatever was cancelled by which thread.
RestHasTimer ==
    (~ReaderBusy /\ ~pasteMode /\ buffer # <<>>)
      => readTimer \/ \E t \in Timers : flusher[t].at \in {"fired", "cancelled"}
=============================================================================
