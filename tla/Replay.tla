------------------------------- MODULE Replay -------------------------------
(* The transcript of a recorded WebTTY session (webtty/src/replay.ts): the events are *)
(* decrypted into chunks, and the chunks of the included streams are written to a     *)
(* text buffer that understands the control sequences of a terminal.                  *)
(*                                                                                    *)
(* A piece of text is a character, a control character or a whole control sequence;   *)
(* or the head of one that a chunk ends within, or a byte of its tail.  Time stamps    *)
(* are left out.                                                                       *)
EXTENDS Naturals, Sequences, SequencesExt

CONSTANTS Recordings,   \* events, decrypt hooks and options
          TabStop

StreamTypes == {"stdin", "stdout", "stderr"}
Printables == {"x", "y", "wide"}   \* wide has several bytes
Sequenced == {"A", "B", "C", "D", "G", "H", "J", "K", "s", "u", "enter", "leave", "cursor shown"}
Pieces ==
  [op : Printables \union {"CR", "LF", "BS", "TAB"} \union Sequenced, n : Nat, m : Nat, cut : {"no"}]
    \union [op : {"wide"} \union Sequenced, n : Nat, m : Nat, cut : {"head", "tail"}]
Piece(op, n, m) == [op |-> op, n |-> n, m |-> m, cut |-> "no"]

RecordedEvents ==
  [type : {"data", "resize", "exit"}, stream : STRING, form : {"none", "plain", "sealed", "both"}, text : Seq(Pieces)]
RecordedSessions ==
  [events : Seq(RecordedEvents), hooks : SUBSET StreamTypes, included : SUBSET StreamTypes,
   modeMarkers : BOOLEAN, resizeMarkers : BOOLEAN, activeAlternate : BOOLEAN]

ASSUME ReplayAssumption == TabStop \in Nat \ {0} /\ Recordings \subseteq RecordedSessions

VARIABLE recording      \* the one to render

AtLeastOne(n) == IF n = 0 THEN 1 ELSE n
Back(position, n) == IF position > n THEN position - n ELSE 0

-----------------------------------------------------------------------------
(* TerminalTextBuffer.  Rows and columns count from 0. *)

NewBuffer == [lines |-> <<<<>>>>, row |-> 0, col |-> 0, savedRow |-> 0, savedCol |-> 0]

Spaces(n) == [i \in 1..n |-> " "]
LineStart(line, n) == SubSeq(line, 1, IF n < Len(line) THEN n ELSE Len(line))
LineRest(line, n) == SubSeq(line, n + 1, Len(line))
CursorLine(b) == b.lines[b.row + 1]

EnsureRow(b) == [b EXCEPT !.lines = @ \o [i \in 1..(b.row + 1 - Len(@)) |-> <<>>]]

\* The characters of a TAB are written one after the other.
WriteAll(b, chars) ==
  LET ensured == EnsureRow(b)
      line == CursorLine(ensured)
      padded == line \o Spaces(b.col - Len(line))
  IN [ensured EXCEPT !.lines[b.row + 1] = LineStart(padded, b.col) \o chars \o LineRest(padded, b.col + Len(chars)),
                     !.col = @ + Len(chars)]
WritePrintable(b, char) == WriteAll(b, <<char>>)

EraseDisplay(b, mode) ==
  CASE mode \in {2, 3} -> [b EXCEPT !.lines = <<<<>>>>, !.row = 0, !.col = 0]
    [] mode = 0 -> [b EXCEPT !.lines = Append(SubSeq(@, 1, b.row), LineStart(CursorLine(b), b.col))]
    [] mode = 1 -> [b EXCEPT !.lines = [i \in DOMAIN @ |->
                      IF i <= b.row THEN <<>>
                      ELSE IF i = b.row + 1 THEN Spaces(b.col) \o LineRest(@[i], b.col) ELSE @[i]]]
    [] OTHER -> b

EraseLine(b, mode) ==
  CASE mode = 2 -> [b EXCEPT !.lines[b.row + 1] = <<>>, !.col = 0]
    [] mode = 1 -> [b EXCEPT !.lines[b.row + 1] = Spaces(b.col) \o LineRest(@, b.col)]
    [] OTHER -> [b EXCEPT !.lines[b.row + 1] = LineStart(@, b.col)]

\* applyCSI.  A missing parameter is 0, and H has two.
ApplyCSI(b, p) ==
  CASE p.op = "A" -> [b EXCEPT !.row = Back(@, AtLeastOne(p.n))]
    [] p.op = "B" -> EnsureRow([b EXCEPT !.row = @ + AtLeastOne(p.n)])
    [] p.op = "C" -> [b EXCEPT !.col = @ + AtLeastOne(p.n)]
    [] p.op = "D" -> [b EXCEPT !.col = Back(@, AtLeastOne(p.n))]
    [] p.op = "G" -> [b EXCEPT !.col = AtLeastOne(p.n) - 1]
    [] p.op = "H" -> EnsureRow([b EXCEPT !.row = AtLeastOne(p.n) - 1, !.col = AtLeastOne(p.m) - 1])
    [] p.op = "J" -> EraseDisplay(b, p.n)
    [] p.op = "K" -> EraseLine(b, p.n)
    [] p.op = "s" -> [b EXCEPT !.savedRow = b.row, !.savedCol = b.col]
    [] p.op = "u" -> EnsureRow([b EXCEPT !.row = b.savedRow, !.col = b.savedCol])
    [] OTHER -> b

\* write(): of a sequence that the chunk ends within nothing is left, and the bytes that follow
\* are text for the next call; of a character that is cut, the decoder has made a replacement
\* character, and so of every byte that follows.
Write(b, p) ==
  CASE p.cut = "head" /\ p.op \notin Printables -> b
    [] p.cut = "tail" /\ p.op \notin Printables -> WritePrintable(b, "stray byte")
    [] p.op \in Printables -> WritePrintable(b, IF p.cut = "no" THEN p.op ELSE "replacement")
    [] p.op = "CR" -> [b EXCEPT !.col = 0]
    [] p.op = "LF" -> EnsureRow([b EXCEPT !.row = @ + 1, !.col = 0])
    [] p.op = "BS" -> [b EXCEPT !.col = Back(@, 1)]
    [] p.op = "TAB" -> WriteAll(b, Spaces(TabStop - (b.col % TabStop)))
    [] OTHER -> ApplyCSI(b, p)

WriteMarker(b) == WritePrintable(b, "marker")
MarkerLine(b) == Write(WriteMarker(b), Piece("LF", 0, 0))   \* formatMarker

-----------------------------------------------------------------------------
(* decryptWebTTYRecordedTextLog: one chunk for each event that has a payload *)

\* recordedEventPlaintextChunk
HasPlaintext(event) == event.type = "data" /\ event.form \in {"plain", "both"} /\ event.text # <<>>
\* webTTYRecordedEventEncryptedPayload
HasCiphertext(event) == event.type = "data" /\ event.form \in {"sealed", "both"}
\* recordedEventHasPayload
HasPayload(event) == HasPlaintext(event) \/ HasCiphertext(event)

\* The throws of recordedStreamType and decryptHook.
Undecryptable(event, hooks) ==
  \/ HasPayload(event) /\ event.stream \notin StreamTypes
  \/ HasCiphertext(event) /\ ~HasPlaintext(event) /\ event.stream \notin hooks

ChunkOf(event) == IF HasPayload(event) THEN <<[data |-> event.text, stream |-> event.stream]>> ELSE <<>>
Chunks(r) == FlattenSeq([i \in DOMAIN r.events |-> ChunkOf(r.events[i])])

-----------------------------------------------------------------------------
(* renderWebTTYRecordedTextLog *)

NewLog == [main |-> NewBuffer, alternate |-> NewBuffer, on |-> FALSE, detected |-> FALSE, chunkIndex |-> 0]

\* terminalTextSegments: only a whole sequence switches to or from the alternate screen.
SwitchesScreen(p) == p.op \in {"enter", "leave"} /\ p.cut = "no"
Segment(log, p, r) ==
  LET marked == IF r.modeMarkers THEN MarkerLine(log.main) ELSE log.main
  IN IF SwitchesScreen(p)
     THEN [log EXCEPT !.detected = TRUE, !.on = p.op = "enter", !.alternate = NewBuffer, !.main = marked]
     ELSE IF log.on THEN [log EXCEPT !.alternate = Write(@, p)]
     ELSE [log EXCEPT !.main = Write(@, p)]

NextChunkIfIncluded(log, chunk, r) == [log EXCEPT !.chunkIndex = @ + (IF chunk.stream \in r.included THEN 1 ELSE 0)]
\* chunkIndex += 1, also for a stream that is not included.
NextChunk(log, chunk, r) == [log EXCEPT !.chunkIndex = @ + 1]

\* The log after each segment of a text, and after each event.
Segments(log, text, r) ==
  LET after[i \in 0..Len(text)] == IF i = 0 THEN log ELSE Segment(after[i - 1], text[i], r) IN after

RenderEvent(log, event, r) ==
  LET chunk == Chunks(r)[log.chunkIndex + 1]
      counted == NextChunk(log, chunk, r)
  IN IF event.type = "resize" THEN [log EXCEPT !.main = IF r.resizeMarkers THEN MarkerLine(@) ELSE @]
     ELSE IF ~HasPayload(event) THEN log
     ELSE IF chunk.stream \in r.included THEN Segments(counted, chunk.data, r)[Len(chunk.data)]
     ELSE counted

Renders(r) ==
  LET after[i \in 0..Len(r.events)] == IF i = 0 THEN NewLog ELSE RenderEvent(after[i - 1], r.events[i], r) IN after
Render(r) == Renders(r)[Len(r.events)]

\* The text: the main screen, and an alternate screen that was not left.
Transcript(r) ==
  LET log == Render(r)
  IN [main |-> log.main.lines, alternate |-> IF log.on /\ r.activeAlternate THEN log.alternate.lines ELSE <<>>,
      detected |-> log.detected]

-----------------------------------------------------------------------------
(* The reference: a terminal as a set of characters at places, and what it is sent.    *)
(* Its page has no end, and a line feed starts a new line.                             *)

Blank == [cells |-> {}, rows |-> 1, row |-> 0, col |-> 0, savedRow |-> 0, savedCol |-> 0]

Place(s, row, col) == [s EXCEPT !.row = row, !.col = col, !.rows = IF row < @ THEN @ ELSE row + 1]
Erase(s, Gone(_, _)) == [s EXCEPT !.cells = {c \in @ : ~Gone(c.row, c.col)}]
Put(s, char) ==
  LET here(row, col) == row = s.row /\ col = s.col
      cell == [row |-> s.row, col |-> s.col, char |-> char]
  IN [Erase(s, here) EXCEPT !.cells = @ \union {cell}, !.col = @ + 1]

Sent(s, p) ==
  LET many == AtLeastOne(p.n)
      stop == (s.col \div TabStop + 1) * TabStop
      after(row, col) == row > s.row \/ (row = s.row /\ col > s.col)
      beforeOrAt(row, col) == ~after(row, col)
      atOrAfter(row, col) == row > s.row \/ (row = s.row /\ col >= s.col)
      lineStart(row, col) == row = s.row /\ col <= s.col
      lineEnd(row, col) == row = s.row /\ col >= s.col
      line(row, col) == row = s.row
  IN CASE p.op \in Printables \union {"marker", "replacement", "stray byte"} -> Put(s, p.op)
       [] p.op = "CR" -> Place(s, s.row, 0)
       [] p.op = "LF" -> Place(s, s.row + 1, 0)
       [] p.op = "BS" -> Place(s, s.row, Back(s.col, 1))
       [] p.op = "TAB" -> Place(s, s.row, stop)
       [] p.op = "A" -> Place(s, Back(s.row, many), s.col)
       [] p.op = "B" -> Place(s, s.row + many, s.col)
       [] p.op = "C" -> Place(s, s.row, s.col + many)
       [] p.op = "D" -> Place(s, s.row, Back(s.col, many))
       [] p.op = "G" -> Place(s, s.row, many - 1)
       [] p.op = "H" -> Place(s, many - 1, AtLeastOne(p.m) - 1)
       [] p.op = "J" /\ p.n = 0 -> [Erase(s, atOrAfter) EXCEPT !.rows = s.row + 1]
       [] p.op = "J" /\ p.n = 1 -> Erase(s, beforeOrAt)
       [] p.op = "J" /\ p.n = 2 -> [s EXCEPT !.cells = {}, !.rows = s.row + 1]
       [] p.op = "K" /\ p.n = 0 -> Erase(s, lineEnd)
       [] p.op = "K" /\ p.n = 1 -> Erase(s, lineStart)
       [] p.op = "K" /\ p.n = 2 -> Erase(s, line)
       [] p.op = "s" -> [s EXCEPT !.savedRow = s.row, !.savedCol = s.col]
       [] p.op = "u" -> Place(s, s.savedRow, s.savedCol)
       [] OTHER -> s

Screens(text) ==
  LET after[i \in 0..Len(text)] == IF i = 0 THEN Blank ELSE Sent(after[i - 1], text[i]) IN after
Screen(text) == Screens(text)[Len(text)]

\* Where the buffer of the transcript departs from a terminal: clearing the screen or the line
\* moves its cursor, clearing up to the cursor spares the character there, a TAB writes spaces,
\* clearing what has scrolled away clears all, and an unknown way to clear a line is the first.
Departs(s, p) ==
  LET home == s.row = 0 /\ s.col = 0
      written(cols) == \E c \in s.cells : c.row = s.row /\ c.col \in cols
  IN \/ p.op = "TAB" /\ written(s.col..(s.col \div TabStop + 1) * TabStop - 1)
     \/ p.op \in {"J", "K"} /\ p.n = 1 /\ written({s.col})
     \/ p.op = "J" /\ p.n = 2 /\ ~home
     \/ p.op = "J" /\ p.n = 3 /\ ~(home /\ s.cells = {} /\ s.rows = 1)
     \/ p.op = "K" /\ p.n = 2 /\ s.col # 0
     \/ p.op = "K" /\ p.n > 2
Conforms(text) ==
  LET screens == Screens(text) IN \A i \in DOMAIN text : ~Departs(screens[i - 1], text[i])

\* What a terminal is sent for a piece: of a sequence that a chunk ends within, the bytes of its
\* tail, as text; of a character, replacements.
Received(p) ==
  IF p.cut = "no" THEN <<p>>
  ELSE IF p.op \in Printables THEN <<Piece("replacement", 0, 0)>>
  ELSE IF p.cut = "tail" THEN <<Piece("stray byte", 0, 0)>> ELSE <<>>

\* All that the included streams were sent, and the resizes that are marked.
SentText(r) ==
  LET of(event) == IF event.type = "resize" THEN IF r.resizeMarkers THEN <<Piece("resize", 0, 0)>> ELSE <<>>
                   ELSE IF HasPayload(event) /\ event.stream \in r.included
                   THEN FlattenSeq([i \in DOMAIN event.text |-> Received(event.text[i])]) ELSE <<>>
  IN FlattenSeq([i \in DOMAIN r.events |-> of(r.events[i])])

\* The main screen gets the text outside the alternate one, and the markers; an alternate
\* screen that is still on got what came after it was entered.
InAlternate(text, i) ==
  \E j \in 1..i - 1 : text[j].op = "enter" /\ \A k \in j + 1..i - 1 : text[k].op # "leave"
MainText(text, r) ==
  LET marker == <<Piece("marker", 0, 0), Piece("LF", 0, 0)>>
      part(i) == IF text[i].op = "resize" THEN marker
                 ELSE IF text[i].op \in {"enter", "leave"} THEN IF r.modeMarkers THEN marker ELSE <<>>
                 ELSE IF InAlternate(text, i) THEN <<>> ELSE <<text[i]>>
  IN FlattenSeq([i \in DOMAIN text |-> part(i)])
AlternateText(text) ==
  LET last == CHOOSE i \in DOMAIN text : text[i].op = "enter" /\ \A j \in DOMAIN text : j > i => text[j].op # "enter"
      part(i) == IF i > last /\ text[i].op # "resize" THEN <<text[i]>> ELSE <<>>
  IN FlattenSeq([i \in DOMAIN text |-> part(i)])

-----------------------------------------------------------------------------
(* Properties *)

ReplayInit == recording \in Recordings
ReplayNext == UNCHANGED recording
ReplaySpec == ReplayInit /\ [][ReplayNext]_recording

CellsOf(lines) ==
  UNION {{[row |-> row - 1, col |-> col - 1, char |-> lines[row][col]] :
            col \in {c \in DOMAIN lines[row] : lines[row][c] # " "}} : row \in DOMAIN lines}
Shows(lines, s) == CellsOf(lines) = s.cells /\ Len(lines) = s.rows

\* A chunk of an included stream that ends within a switch of the screen: the switch is lost.
SwitchCut(r) ==
  \E i \in DOMAIN r.events :
    LET event == r.events[i]
    IN /\ HasPayload(event) /\ event.stream \in r.included
       /\ \E j \in DOMAIN event.text : event.text[j].op \in {"enter", "leave"} /\ event.text[j].cut # "no"

\* A transcript shows what a terminal would that was sent the included streams, on a screen where
\* the buffer departs from no terminal: every event renders its own chunk whatever comes between
\* (events without payload, excluded streams, resizes), no cut between two characters matters,
\* the alternate screen takes nothing from the main one, and a closed one is left out.  A cut
\* within a character or a sequence costs that one alone, and leaves the rest of it as text; but
\* a cut within a switch of the screen costs the switch, and all that follows is shown on the
\* wrong one.  (renderWebTTYRecordedTextLog, TerminalTextBuffer)
TranscriptFaithful ==
  LET r == recording
      shown == Transcript(r)
      text == SentText(r)
      shows(lines, sent) == Conforms(sent) => Shows(lines, Screen(sent))
  IN (\A i \in DOMAIN r.events : ~Undecryptable(r.events[i], r.hooks)) /\ ~SwitchCut(r) =>
       /\ shows(shown.main, MainText(text, r))
       /\ IF InAlternate(text, Len(text) + 1) /\ r.activeAlternate
          THEN shows(shown.alternate, AlternateText(text)) ELSE shown.alternate = <<>>
       /\ shown.detected = (\E i \in DOMAIN text : text[i].op \in {"enter", "leave"})
=============================================================================
