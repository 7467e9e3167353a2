---------------------------- MODULE ReplayProofs ----------------------------
(* The transcript of a recorded session is what a terminal would show, for every recording that *)
(* cuts no switch of the screen and every distance of the tab stops.  Each piece of text draws  *)
(* what the buffer's dialect says (PieceAgrees), the log shows the text so far after every      *)
(* segment and event (LogShows), and the dialect is a terminal's where it does not depart from  *)
(* one (ConformingScreens).  Induction along a sequence is UpTo, from a smallest counterexample. *)
EXTENDS Replay, StreamProofs, WellFoundedInduction

-----------------------------------------------------------------------------
(* What the buffer makes of a piece, on a terminal's terms: its dialect *)

Drawn(s, p) ==
  LET many == AtLeastOne(p.n)
      stop == (s.col \div TabStop + 1) * TabStop
      before(row, col) == row < s.row \/ (row = s.row /\ col < s.col)
      atOrAfter(row, col) == ~before(row, col)
      lineStart(row, col) == row = s.row /\ col < s.col
      lineEnd(row, col) == row = s.row /\ col >= s.col
      line(row, col) == row = s.row
      toStop(row, col) == row = s.row /\ col \in s.col..stop - 1
  IN CASE p.op \in Printables \union {"marker", "replacement", "stray byte"} -> Put(s, p.op)
       [] p.op = "CR" -> Place(s, s.row, 0)
       [] p.op = "LF" -> Place(s, s.row + 1, 0)
       [] p.op = "BS" -> Place(s, s.row, Back(s.col, 1))
       [] p.op = "TAB" -> Place(Erase(s, toStop), s.row, stop)
       [] p.op = "A" -> Place(s, Back(s.row, many), s.col)
       [] p.op = "B" -> Place(s, s.row + many, s.col)
       [] p.op = "C" -> Place(s, s.row, s.col + many)
       [] p.op = "D" -> Place(s, s.row, Back(s.col, many))
       [] p.op = "G" -> Place(s, s.row, many - 1)
       [] p.op = "H" -> Place(s, many - 1, AtLeastOne(p.m) - 1)
       [] p.op = "J" /\ p.n = 0 -> [Erase(s, atOrAfter) EXCEPT !.rows = s.row + 1]
       [] p.op = "J" /\ p.n = 1 -> Erase(s, before)
       [] p.op = "J" /\ p.n \in {2, 3} -> [Blank EXCEPT !.savedRow = s.savedRow, !.savedCol = s.savedCol]
       [] p.op = "K" /\ p.n = 1 -> Erase(s, lineStart)
       [] p.op = "K" /\ p.n = 2 -> Place(Erase(s, line), s.row, 0)
       [] p.op = "K" /\ p.n \notin {1, 2} -> Erase(s, lineEnd)
       [] p.op = "s" -> [s EXCEPT !.savedRow = s.row, !.savedCol = s.col]
       [] p.op = "u" -> Place(s, s.savedRow, s.savedCol)
       [] OTHER -> s

Drawings(text) ==
  LET after[i \in 0..Len(text)] == IF i = 0 THEN Blank ELSE Drawn(after[i - 1], text[i]) IN after
Drawing(text) == Drawings(text)[Len(text)]

-----------------------------------------------------------------------------
(* The buffer as characters at places *)

Chars == Printables \union {"marker", "replacement", "stray byte"}
Lines == Seq(Chars \union {" "})
CellSet == [row : Nat, col : Nat, char : Chars]

\* The character at a place; past the end of a line, or of the lines, there is none.
CharAt(line, col) == IF col < Len(line) THEN line[col + 1] ELSE " "
At(lines, row, col) == IF row < Len(lines) THEN CharAt(lines[row + 1], col) ELSE " "

Buffers == [lines : Seq(Lines), row : Nat, col : Nat, savedRow : Nat, savedCol : Nat]
BufferSound(b) == b \in Buffers /\ b.row < Len(b.lines)

Terminals == [cells : SUBSET CellSet, rows : Nat, row : Nat, col : Nat, savedRow : Nat, savedCol : Nat]

\* The buffer and the drawing have the same characters at the same places, and the same cursor.
Agree(b, s) ==
  /\ BufferSound(b) /\ s \in Terminals
  /\ s.rows = Len(b.lines) /\ s.row = b.row /\ s.col = b.col
  /\ s.savedRow = b.savedRow /\ s.savedCol = b.savedCol
  /\ \A c \in CellSet : c \in s.cells <=> At(b.lines, c.row, c.col) = c.char

\* What a sequence is.
LEMMA SequenceIs ==
  ASSUME NEW S, NEW l \in Seq(S)
  PROVE  DOMAIN l = 1..Len(l) /\ Len(l) \in Nat /\ \A i \in 1..Len(l) : l[i] \in S
OBVIOUS

\* What a buffer shows: the characters but the spaces, at their places.
LEMMA CellsAre ==
  ASSUME NEW lines \in Seq(Lines)
  PROVE  CellsOf(lines) = {c \in CellSet : At(lines, c.row, c.col) = c.char}
<1>1. /\ DOMAIN lines = 1..Len(lines) /\ Len(lines) \in Nat
      /\ \A row \in 1..Len(lines) : lines[row] \in Lines
  BY SequenceIs
<1>2. \A row \in 1..Len(lines) :
        /\ DOMAIN lines[row] = 1..Len(lines[row]) /\ Len(lines[row]) \in Nat
        /\ \A col \in 1..Len(lines[row]) : lines[row][col] \in Chars \union {" "}
  BY <1>1, SequenceIs DEF Lines
<1>3. ASSUME NEW c \in CellsOf(lines) PROVE c \in CellSet /\ At(lines, c.row, c.col) = c.char
  <2>1. PICK row \in 1..Len(lines) : \E col \in {x \in DOMAIN lines[row] : lines[row][x] # " "} :
          c = [row |-> row - 1, col |-> col - 1, char |-> lines[row][col]]
    BY <1>1 DEF CellsOf
  <2>2. PICK col \in 1..Len(lines[row]) :
          lines[row][col] # " " /\ c = [row |-> row - 1, col |-> col - 1, char |-> lines[row][col]]
    BY <1>2, <2>1
  <2>3. lines[row][col] \in Chars
    BY <1>2, <2>2
  <2>4. Len(lines) \in Nat /\ Len(lines[row]) \in Nat
    BY <1>1, <1>2
  <2>5. row - 1 \in Nat /\ row - 1 < Len(lines) /\ (row - 1) + 1 = row
    BY <2>4
  <2>6. col - 1 \in Nat /\ col - 1 < Len(lines[row]) /\ (col - 1) + 1 = col
    BY <2>4
  <2> QED
    BY <2>2, <2>3, <2>5, <2>6 DEF CellSet, At, CharAt
<1>4. ASSUME NEW row \in Nat, NEW col \in Nat, NEW char \in Chars, At(lines, row, col) = char
      PROVE  [row |-> row, col |-> col, char |-> char] \in CellsOf(lines)
  <2>1. char # " "
    BY DEF Chars, Printables
  <2>2. row < Len(lines) /\ col < Len(lines[row + 1]) /\ lines[row + 1][col + 1] = char
    BY <1>4, <2>1 DEF At, CharAt
  <2>3. row + 1 \in 1..Len(lines) /\ (row + 1) - 1 = row
    BY <1>1, <2>2
  <2>4. Len(lines[row + 1]) \in Nat
    BY <1>2, <2>3
  <2>5. col + 1 \in 1..Len(lines[row + 1]) /\ (col + 1) - 1 = col
    BY <2>2, <2>4
  <2>6. [row |-> row, col |-> col, char |-> char] \in
          {[row |-> (row + 1) - 1, col |-> x - 1, char |-> lines[row + 1][x]] :
             x \in {x \in DOMAIN lines[row + 1] : lines[row + 1][x] # " "}}
    BY <1>2, <2>1, <2>2, <2>3, <2>5
  <2> QED
    BY <1>1, <2>3, <2>6 DEF CellsOf
<1>5. ASSUME NEW c \in CellSet, At(lines, c.row, c.col) = c.char PROVE c \in CellsOf(lines)
  <2>1. c = [row |-> c.row, col |-> c.col, char |-> c.char] /\ c.row \in Nat /\ c.col \in Nat /\ c.char \in Chars
    BY DEF CellSet
  <2> QED
    BY <1>4, <1>5, <2>1
<1> QED
  BY <1>3, <1>5

-----------------------------------------------------------------------------
(* Lines *)

\* What a piece of a line is, and a line of spaces, and two lines in one.
LEMMA LineStartIs ==
  ASSUME NEW line \in Lines, NEW n \in Nat
  PROVE  /\ LineStart(line, n) \in Lines
         /\ Len(LineStart(line, n)) = IF n < Len(line) THEN n ELSE Len(line)
         /\ \A col \in Nat : CharAt(LineStart(line, n), col) = IF col < n THEN CharAt(line, col) ELSE " "
<1> DEFINE m == IF n < Len(line) THEN n ELSE Len(line)
<1>0. line \in Seq(Chars \union {" "})
  BY DEF Lines
<1>a. Len(line) \in Nat
  BY <1>0, SequenceIs
<1>1. m \in 0..Len(line) /\ m \in Nat /\ 0 \in 0..Len(line)
  BY <1>a
<1>b. /\ SubSeq(line, 0 + 1, m) \in Seq(Chars \union {" "}) /\ Len(SubSeq(line, 0 + 1, m)) = m - 0
      /\ \A i \in 1..m - 0 : SubSeq(line, 0 + 1, m)[i] = line[0 + i]
  <2> HIDE DEF m
  <2> QED
    BY <1>0, <1>1, Slice
<1>c. 0 + 1 = 1 /\ m - 0 = m /\ \A i \in 1..m : 0 + i = i
  BY <1>1
<1>2. SubSeq(line, 1, m) \in Seq(Chars \union {" "})
  BY <1>b, <1>c
<1>3. Len(SubSeq(line, 1, m)) = m
  BY <1>b, <1>c
<1>4. \A i \in 1..m : SubSeq(line, 1, m)[i] = line[i]
  BY <1>b, <1>c
<1>5. LineStart(line, n) = SubSeq(line, 1, m)
  BY DEF LineStart
<1>6. ASSUME NEW col \in Nat PROVE CharAt(LineStart(line, n), col) = IF col < n THEN CharAt(line, col) ELSE " "
  <2>1. CASE col < m
    <3>1. col + 1 \in 1..m /\ col < Len(line) /\ col < n
      BY <1>a, <1>1, <2>1
    <3> HIDE DEF m
    <3> QED
      BY <1>3, <1>4, <1>5, <2>1, <3>1 DEF CharAt
  <2>2. CASE ~(col < m)
    <3>1. ~(col < Len(line)) \/ ~(col < n)
      BY <1>a, <1>1, <2>2
    <3> HIDE DEF m
    <3> QED
      BY <1>3, <1>5, <2>2, <3>1 DEF CharAt
  <2> QED
    BY <2>1, <2>2
<1> QED
  BY <1>2, <1>3, <1>5, <1>6 DEF Lines

LEMMA LineRestIs ==
  ASSUME NEW line \in Lines, NEW n \in Nat
  PROVE  /\ LineRest(line, n) \in Lines
         /\ \A col \in Nat : CharAt(LineRest(line, n), col) = CharAt(line, col + n)
<1> DEFINE rest == LineRest(line, n)
           m == IF n < Len(line) THEN Len(line) - n ELSE 0
<1>0. line \in Seq(Chars \union {" "})
  BY DEF Lines
<1>a. Len(line) \in Nat
  BY <1>0, SequenceIs
<1>1. m \in Nat
  BY <1>a
<1>b. rest \in Seq(Chars \union {" "}) /\ Len(rest) = m /\ \A i \in 1..m : rest[i] = line[i + n]
  <2>1. CASE n <= Len(line)
    <3>1. n \in 0..Len(line) /\ Len(line) \in n..Len(line) /\ m = Len(line) - n /\ \A i \in 1..m : n + i = i + n
      BY <1>a, <2>1
    <3>2. /\ SubSeq(line, n + 1, Len(line)) \in Seq(Chars \union {" "}) /\ Len(SubSeq(line, n + 1, Len(line))) = Len(line) - n
          /\ \A i \in 1..Len(line) - n : SubSeq(line, n + 1, Len(line))[i] = line[n + i]
      BY <1>0, <3>1, Slice
    <3> QED
      BY <3>1, <3>2 DEF LineRest
  <2>2. CASE n > Len(line)
    <3>1. SubSeq(line, n + 1, Len(line)) = <<>>
      <4> DEFINE from == n + 1
      <4>1. from \in Int /\ Len(line) \in Int /\ Len(line) < from
        BY <1>a, <2>2
      <4> HIDE DEF from
      <4>2. SubSeq(line, from, Len(line)) = <<>>
        BY <4>1, SubSeqEmpty
      <4> QED
        BY <4>2 DEF from
    <3>2. m = 0 /\ <<>> \in Seq(Chars \union {" "}) /\ Len(<<>>) = 0 /\ 1..0 = {}
      BY <1>a, <2>2
    <3>3. rest = <<>>
      BY <3>1 DEF LineRest
    <3> HIDE DEF rest, m
    <3> QED
      BY <3>2, <3>3
  <2>3. n <= Len(line) \/ n > Len(line)
    BY <1>a
  <2> QED
    BY <2>1, <2>2, <2>3
<1>2. rest \in Seq(Chars \union {" "})
  BY <1>b
<1>3. Len(rest) = m
  BY <1>b
<1>4. \A i \in 1..m : rest[i] = line[i + n]
  BY <1>b
<1> HIDE DEF rest
<1>5. ASSUME NEW col \in Nat PROVE CharAt(rest, col) = CharAt(line, col + n)
  <2>1. CASE col < m
    <3>1. col + 1 \in 1..m /\ col + n < Len(line) /\ (col + 1) + n = (col + n) + 1
      BY <1>a, <1>1, <2>1
    <3> HIDE DEF m
    <3> QED
      BY <1>3, <1>4, <2>1, <3>1 DEF CharAt
  <2>2. CASE ~(col < m)
    <3>1. ~(col + n < Len(line))
      BY <1>a, <1>1, <2>2
    <3> HIDE DEF m
    <3> QED
      BY <1>3, <2>2, <3>1 DEF CharAt
  <2> QED
    BY <2>1, <2>2
<1> QED
  BY <1>2, <1>5 DEF Lines, rest

LEMMA SpacesAre ==
  ASSUME NEW n \in Int
  PROVE  /\ Spaces(n) \in Lines
         /\ Len(Spaces(n)) = IF n < 0 THEN 0 ELSE n
         /\ \A i \in 1..Len(Spaces(n)) : Spaces(n)[i] = " "
         /\ \A col \in Nat : CharAt(Spaces(n), col) = " "
<1> DEFINE m == IF n < 0 THEN 0 ELSE n
<1>1. m \in Nat /\ 1..n = 1..m
  OBVIOUS
<1>2. Spaces(n) = [i \in 1..m |-> " "]
  BY <1>1 DEF Spaces
<1>3. [i \in 1..m |-> " "] \in Seq(Chars \union {" "}) /\ Len([i \in 1..m |-> " "]) = m
  BY <1>1
<1>4. \A i \in 1..m : [j \in 1..m |-> " "][i] = " "
  OBVIOUS
<1>5. ASSUME NEW col \in Nat PROVE CharAt(Spaces(n), col) = " "
  <2>1. CASE col < m
    <3>1. col + 1 \in 1..m
      BY <1>1, <2>1
    <3> QED
      BY <1>2, <1>3, <1>4, <3>1 DEF CharAt
  <2>2. CASE ~(col < m)
    BY <1>2, <1>3, <2>2 DEF CharAt
  <2> QED
    BY <2>1, <2>2
<1> QED
  BY <1>2, <1>3, <1>4, <1>5 DEF Lines

\* What two sequences in one are.
LEMMA Joined ==
  ASSUME NEW S, NEW s \in Seq(S), NEW t \in Seq(S)
  PROVE  /\ s \o t \in Seq(S) /\ Len(s \o t) = Len(s) + Len(t)
         /\ \A i \in 1..Len(s) : (s \o t)[i] = s[i]
         /\ \A i \in 1..Len(t) : (s \o t)[Len(s) + i] = t[i]
OBVIOUS

LEMMA JoinIs ==
  ASSUME NEW left \in Lines, NEW right \in Lines
  PROVE  /\ left \o right \in Lines
         /\ Len(left \o right) = Len(left) + Len(right)
         /\ \A col \in Nat : CharAt(left \o right, col) =
              IF col < Len(left) THEN CharAt(left, col) ELSE CharAt(right, col - Len(left))
<1>0. left \in Seq(Chars \union {" "}) /\ right \in Seq(Chars \union {" "})
  BY DEF Lines
<1>1. Len(left) \in Nat /\ Len(right) \in Nat
  BY <1>0, SequenceIs
<1>a. /\ left \o right \in Seq(Chars \union {" "}) /\ Len(left \o right) = Len(left) + Len(right)
      /\ \A i \in 1..Len(left) : (left \o right)[i] = left[i]
      /\ \A i \in 1..Len(right) : (left \o right)[Len(left) + i] = right[i]
  <2> DEFINE S == Chars \union {" "}
  <2>1. left \in Seq(S) /\ right \in Seq(S)
    BY <1>0
  <2> HIDE DEF S
  <2>2. /\ left \o right \in Seq(S) /\ Len(left \o right) = Len(left) + Len(right)
        /\ \A i \in 1..Len(left) : (left \o right)[i] = left[i]
        /\ \A i \in 1..Len(right) : (left \o right)[Len(left) + i] = right[i]
    BY <2>1, Joined
  <2> QED
    BY <2>2 DEF S
<1>2. left \o right \in Seq(Chars \union {" "}) /\ Len(left \o right) = Len(left) + Len(right)
  BY <1>a
<1>3. \A i \in 1..Len(left) : (left \o right)[i] = left[i]
  BY <1>a
<1>4. \A i \in 1..Len(right) : (left \o right)[Len(left) + i] = right[i]
  BY <1>a
<1>5. ASSUME NEW col \in Nat
      PROVE  CharAt(left \o right, col) = IF col < Len(left) THEN CharAt(left, col) ELSE CharAt(right, col - Len(left))
  <2>1. CASE col < Len(left)
    <3>1. col + 1 \in 1..Len(left) /\ col < Len(left) + Len(right)
      BY <1>1, <2>1
    <3> QED
      BY <1>2, <1>3, <2>1, <3>1 DEF CharAt
  <2>2. CASE ~(col < Len(left)) /\ col < Len(left) + Len(right)
    <3>1. (col - Len(left)) + 1 \in 1..Len(right) /\ Len(left) + ((col - Len(left)) + 1) = col + 1 /\ col - Len(left) < Len(right)
      BY <1>1, <2>2
    <3>2. (left \o right)[col + 1] = right[(col - Len(left)) + 1]
      BY <1>4, <3>1
    <3> QED
      BY <1>2, <2>2, <3>1, <3>2 DEF CharAt
  <2>3. CASE ~(col < Len(left) + Len(right))
    <3>1. ~(col - Len(left) < Len(right)) /\ ~(col < Len(left))
      BY <1>1, <2>3
    <3> QED
      BY <1>2, <2>3, <3>1 DEF CharAt
  <2> QED
    BY <2>1, <2>2, <2>3
<1> QED
  BY <1>2, <1>5 DEF Lines

-----------------------------------------------------------------------------
(* Lines of a buffer *)

LEMMA LineReplaced ==
  ASSUME NEW lines \in Seq(Lines), NEW row \in Nat, row < Len(lines), NEW line \in Lines
  PROVE  LET after == [lines EXCEPT ![row + 1] = line]
         IN /\ after \in Seq(Lines) /\ Len(after) = Len(lines)
            /\ \A i, j \in Nat : At(after, i, j) = IF i = row THEN CharAt(line, j) ELSE At(lines, i, j)
<1> DEFINE after == [lines EXCEPT ![row + 1] = line]
<1>1. Len(lines) \in Nat /\ DOMAIN lines = 1..Len(lines)
  BY SequenceIs
<1>2. row + 1 \in 1..Len(lines)
  BY <1>1
<1>3. after \in Seq(Lines) /\ Len(after) = Len(lines)
  BY <1>1, <1>2
<1>4. after[row + 1] = line /\ \A i \in 1..Len(lines) : i # row + 1 => after[i] = lines[i]
  BY <1>1, <1>2
<1>5. ASSUME NEW i \in Nat, NEW j \in Nat PROVE At(after, i, j) = IF i = row THEN CharAt(line, j) ELSE At(lines, i, j)
  <2>1. CASE i = row
    BY <1>3, <1>4, <2>1 DEF At
  <2>2. CASE i # row /\ i < Len(lines)
    <3>1. i + 1 \in 1..Len(lines) /\ i + 1 # row + 1
      BY <1>1, <2>2
    <3> QED
      BY <1>3, <1>4, <2>2, <3>1 DEF At
  <2>3. CASE i # row /\ ~(i < Len(lines))
    BY <1>3, <2>3 DEF At
  <2> QED
    BY <2>1, <2>2, <2>3
<1> QED
  BY <1>3, <1>5

\* ensureRow() adds empty lines.
LEMMA EnsureRowIs ==
  ASSUME NEW b \in Buffers
  PROVE  /\ BufferSound(EnsureRow(b))
         /\ EnsureRow(b) = [b EXCEPT !.lines = EnsureRow(b).lines]
         /\ Len(EnsureRow(b).lines) = IF b.row < Len(b.lines) THEN Len(b.lines) ELSE b.row + 1
         /\ \A i, j \in Nat : At(EnsureRow(b).lines, i, j) = At(b.lines, i, j)
<1> DEFINE added == [i \in 1..(b.row + 1 - Len(b.lines)) |-> <<>>]
           more == IF b.row < Len(b.lines) THEN 0 ELSE b.row + 1 - Len(b.lines)
<1>1. b.lines \in Seq(Lines) /\ b.row \in Nat
  BY DEF Buffers
<1>2. Len(b.lines) \in Nat
  BY <1>1, SequenceIs
<1>3. <<>> \in Lines /\ Len(<<>>) = 0
  BY DEF Lines
<1>4. more \in Nat /\ 1..(b.row + 1 - Len(b.lines)) = 1..more
  BY <1>1, <1>2
<1>5. added \in Seq(Lines) /\ Len(added) = more /\ \A i \in 1..more : added[i] = <<>>
  <2>1. added = [i \in 1..more |-> <<>>]
    BY <1>4
  <2> HIDE DEF added, more
  <2> QED
    BY <1>3, <1>4, <2>1
<1>6. EnsureRow(b) = [b EXCEPT !.lines = b.lines \o added]
  BY DEF EnsureRow
<1> HIDE DEF added
<1>7. /\ b.lines \o added \in Seq(Lines) /\ Len(b.lines \o added) = Len(b.lines) + more
      /\ \A i \in 1..Len(b.lines) : (b.lines \o added)[i] = b.lines[i]
      /\ \A i \in 1..more : (b.lines \o added)[Len(b.lines) + i] = <<>>
  BY <1>1, <1>5, Joined
<1>8. EnsureRow(b).lines = b.lines \o added
  BY <1>6 DEF Buffers
<1>9. ASSUME NEW i \in Nat, NEW j \in Nat PROVE At(b.lines \o added, i, j) = At(b.lines, i, j)
  <2>1. CASE i < Len(b.lines)
    <3>1. i + 1 \in 1..Len(b.lines) /\ i < Len(b.lines) + more
      BY <1>2, <1>4, <2>1
    <3> HIDE DEF more
    <3> QED
      BY <1>7, <2>1, <3>1 DEF At
  <2>2. CASE ~(i < Len(b.lines)) /\ i < Len(b.lines) + more
    <3>0. more \in Nat
      BY <1>4
    <3> HIDE DEF more
    <3>1. i + 1 - Len(b.lines) \in 1..more /\ Len(b.lines) + (i + 1 - Len(b.lines)) = i + 1
      BY <1>2, <2>2, <3>0
    <3>2. (b.lines \o added)[i + 1] = <<>>
      BY <1>7, <3>1
    <3>3. CharAt(<<>>, j) = " "
      <4> DEFINE empty == <<>>
      <4>0. j \in Nat /\ ~(j < 0)
        OBVIOUS
      <4>1. Len(empty) = 0
        BY <1>3
      <4> HIDE DEF empty
      <4>2. ~(j < Len(empty))
        BY <4>0, <4>1
      <4>3. CharAt(empty, j) = " "
        BY <4>2 DEF CharAt
      <4> QED
        BY <4>3 DEF empty
    <3>4. At(b.lines, i, j) = " "
      BY <2>2 DEF At
    <3>5. At(b.lines \o added, i, j) = CharAt((b.lines \o added)[i + 1], j)
      BY <1>7, <2>2 DEF At
    <3> QED
      BY <3>2, <3>3, <3>4, <3>5
  <2>3. CASE ~(i < Len(b.lines)) /\ ~(i < Len(b.lines) + more)
    <3> HIDE DEF more
    <3> QED
      BY <1>7, <2>3 DEF At
  <2> QED
    BY <2>1, <2>2, <2>3
<1>10. b.row < Len(b.lines) + more /\ (Len(b.lines) + more = IF b.row < Len(b.lines) THEN Len(b.lines) ELSE b.row + 1)
  BY <1>1, <1>2
<1>11. BufferSound(EnsureRow(b))
  <2> HIDE DEF more
  <2> QED
    BY <1>6, <1>7, <1>8, <1>10 DEF BufferSound, Buffers
<1> QED
  BY <1>6, <1>7, <1>8, <1>9, <1>10, <1>11

\* writePrintable(), of several characters one after the other.
LEMMA WriteAllIs ==
  ASSUME NEW b, BufferSound(b), NEW chars \in Lines
  PROVE  /\ BufferSound(WriteAll(b, chars))
         /\ WriteAll(b, chars) = [b EXCEPT !.lines = WriteAll(b, chars).lines, !.col = b.col + Len(chars)]
         /\ Len(WriteAll(b, chars).lines) = Len(b.lines)
         /\ \A i, j \in Nat : At(WriteAll(b, chars).lines, i, j) =
              IF i = b.row /\ j >= b.col /\ j < b.col + Len(chars) THEN CharAt(chars, j - b.col) ELSE At(b.lines, i, j)
<1> DEFINE line == b.lines[b.row + 1]
           padded == line \o Spaces(b.col - Len(line))
           start == LineStart(padded, b.col)
           rest == LineRest(padded, b.col + Len(chars))
           written == (start \o chars) \o rest
<1>1. /\ b \in Buffers /\ b.lines \in Seq(Lines) /\ b.row \in Nat /\ b.col \in Nat /\ b.row < Len(b.lines)
  BY DEF BufferSound, Buffers
<1>2. Len(b.lines) \in Nat /\ \A i \in 1..Len(b.lines) : b.lines[i] \in Lines
  BY <1>1, SequenceIs
<1>3. b.row + 1 \in 1..Len(b.lines)
  BY <1>1, <1>2
<1>4. line \in Lines
  BY <1>2, <1>3
<1>5. Len(line) \in Nat /\ Len(chars) \in Nat
  BY <1>4, SequenceIs DEF Lines
<1>6. b.col - Len(line) \in Int /\ b.col + Len(chars) \in Nat
  BY <1>1, <1>5
<1>7. EnsureRow(b) = b
  <2>1. b.row + 1 - Len(b.lines) < 1
    BY <1>1, <1>2
  <2>2. 1..(b.row + 1 - Len(b.lines)) = {}
    BY <1>1, <1>2, <2>1
  <2>3. [i \in 1..(b.row + 1 - Len(b.lines)) |-> <<>>] = <<>>
    BY <2>2
  <2>4. b.lines \o <<>> = b.lines
    BY <1>1
  <2> QED
    BY <1>1, <2>3, <2>4 DEF EnsureRow, Buffers
<1>8. WriteAll(b, chars) = [b EXCEPT !.lines = [b.lines EXCEPT ![b.row + 1] = written], !.col = b.col + Len(chars)]
  BY <1>1, <1>7 DEF WriteAll, CursorLine, Buffers
<1>9. /\ padded \in Lines /\ Len(padded) >= b.col /\ Len(padded) \in Nat
      /\ \A j \in Nat : CharAt(padded, j) = CharAt(line, j)
  <2> DEFINE spaces == Spaces(b.col - Len(line))
             n == b.col - Len(line)
  <2>1. n \in Int
    BY <1>6
  <2>2. /\ spaces \in Lines /\ Len(spaces) = (IF n < 0 THEN 0 ELSE n) /\ \A j \in Nat : CharAt(spaces, j) = " "
    <3> HIDE DEF n, line
    <3> QED
      BY <2>1, SpacesAre DEF n
  <2> HIDE DEF line, spaces
  <2>3. /\ line \o spaces \in Lines
        /\ Len(line \o spaces) = Len(line) + Len(spaces)
        /\ \A col \in Nat : CharAt(line \o spaces, col) =
             IF col < Len(line) THEN CharAt(line, col) ELSE CharAt(spaces, col - Len(line))
    BY <1>4, <2>2, JoinIs
  <2>4. Len(line) + Len(spaces) >= b.col /\ Len(line) + Len(spaces) \in Nat
    <3>1. Len(spaces) = (IF n < 0 THEN 0 ELSE n)
      BY <2>2
    <3>2. b.col \in Nat /\ Len(line) \in Nat
      BY <1>1, <1>5
    <3> QED
      BY <3>1, <3>2
  <2>5. ASSUME NEW j \in Nat PROVE CharAt(line \o spaces, j) = CharAt(line, j)
    <3>1. CASE j < Len(line)
      BY <2>3, <3>1
    <3>2. CASE ~(j < Len(line))
      <4>1. j - Len(line) \in Nat
        BY <1>5, <3>2
      <4>2. CharAt(spaces, j - Len(line)) = " "
        BY <2>2, <4>1
      <4> QED
        BY <2>3, <3>2, <4>2 DEF CharAt
    <3> QED
      BY <3>1, <3>2
  <2> QED
    BY <2>3, <2>4, <2>5 DEF spaces
<1> HIDE DEF padded, line
<1>10. /\ start \in Lines /\ Len(start) = b.col
       /\ \A j \in Nat : CharAt(start, j) = IF j < b.col THEN CharAt(line, j) ELSE " "
  <2>1. padded \in Lines
    BY <1>9
  <2>2. b.col \in Nat
    BY <1>1
  <2>3. /\ start \in Lines /\ Len(start) = (IF b.col < Len(padded) THEN b.col ELSE Len(padded))
        /\ \A j \in Nat : CharAt(start, j) = IF j < b.col THEN CharAt(padded, j) ELSE " "
    BY <2>1, <2>2, LineStartIs
  <2>4. Len(start) = b.col
    <3>1. Len(padded) >= b.col /\ Len(padded) \in Nat
      BY <1>9
    <3>2. Len(start) = (IF b.col < Len(padded) THEN b.col ELSE Len(padded))
      BY <2>3
    <3> HIDE DEF start
    <3> QED
      BY <2>2, <3>1, <3>2
  <2> HIDE DEF start
  <2> QED
    BY <1>9, <2>3, <2>4
<1>11. rest \in Lines /\ \A j \in Nat : CharAt(rest, j) = CharAt(line, j + (b.col + Len(chars)))
  <2> DEFINE m == b.col + Len(chars)
  <2>1. padded \in Lines
    BY <1>9
  <2>2. m \in Nat
    BY <1>6
  <2> HIDE DEF m
  <2>3. LineRest(padded, m) \in Lines /\ \A j \in Nat : CharAt(LineRest(padded, m), j) = CharAt(padded, j + m)
    BY <2>1, <2>2, LineRestIs
  <2>4. \A j \in Nat : j + m \in Nat
    BY <2>2
  <2>5. \A j \in Nat : CharAt(padded, j + m) = CharAt(line, j + m)
    BY <1>9, <2>4
  <2>6. LineRest(padded, m) \in Lines /\ \A j \in Nat : CharAt(LineRest(padded, m), j) = CharAt(line, j + m)
    BY <2>3, <2>5
  <2> QED
    BY <2>6 DEF m
<1> HIDE DEF start, rest
<1>12. /\ start \o chars \in Lines /\ Len(start \o chars) = b.col + Len(chars)
       /\ \A j \in Nat : CharAt(start \o chars, j) = IF j < b.col THEN CharAt(start, j) ELSE CharAt(chars, j - b.col)
  <2>1. start \in Lines
    BY <1>10
  <2>2. /\ start \o chars \in Lines /\ Len(start \o chars) = Len(start) + Len(chars)
        /\ \A j \in Nat : CharAt(start \o chars, j) =
             IF j < Len(start) THEN CharAt(start, j) ELSE CharAt(chars, j - Len(start))
    BY <2>1, JoinIs
  <2>3. Len(start) = b.col
    BY <1>10
  <2> QED
    BY <2>2, <2>3
<1>13. /\ written \in Lines
       /\ \A j \in Nat : CharAt(written, j) =
            IF j < b.col + Len(chars) THEN CharAt(start \o chars, j) ELSE CharAt(rest, j - (b.col + Len(chars)))
  <2> DEFINE left == start \o chars
  <2>1. left \in Lines /\ Len(left) = b.col + Len(chars)
    BY <1>12
  <2> HIDE DEF left
  <2>2. /\ left \o rest \in Lines
        /\ \A j \in Nat : CharAt(left \o rest, j) = IF j < Len(left) THEN CharAt(left, j) ELSE CharAt(rest, j - Len(left))
    BY <1>11, <2>1, JoinIs
  <2> QED
    BY <2>1, <2>2 DEF left
<1>14. ASSUME NEW j \in Nat
       PROVE  CharAt(written, j) = IF j >= b.col /\ j < b.col + Len(chars) THEN CharAt(chars, j - b.col) ELSE CharAt(line, j)
  <2>1. CASE j < b.col
    <3>1. j < b.col + Len(chars) /\ ~(j >= b.col)
      BY <1>1, <1>5, <2>1
    <3> QED
      BY <1>10, <1>12, <1>13, <2>1, <3>1
  <2>2. CASE ~(j < b.col) /\ j < b.col + Len(chars)
    <3>1. j >= b.col
      BY <1>1, <2>2
    <3> QED
      BY <1>12, <1>13, <2>2, <3>1
  <2>3. CASE ~(j < b.col + Len(chars))
    <3>1. j - (b.col + Len(chars)) \in Nat /\ (j - (b.col + Len(chars))) + (b.col + Len(chars)) = j
      BY <1>6, <2>3
    <3> QED
      BY <1>11, <1>13, <2>3, <3>1
  <2> QED
    BY <2>1, <2>2, <2>3
<1> HIDE DEF written
<1>15. /\ [b.lines EXCEPT ![b.row + 1] = written] \in Seq(Lines)
       /\ Len([b.lines EXCEPT ![b.row + 1] = written]) = Len(b.lines)
       /\ \A i, j \in Nat : At([b.lines EXCEPT ![b.row + 1] = written], i, j) =
            IF i = b.row THEN CharAt(written, j) ELSE At(b.lines, i, j)
  BY <1>1, <1>13, LineReplaced DEF written
<1>16. \A j \in Nat : At(b.lines, b.row, j) = CharAt(line, j)
  BY <1>1 DEF At, line
<1>17. WriteAll(b, chars).lines = [b.lines EXCEPT ![b.row + 1] = written]
  BY <1>1, <1>8 DEF Buffers
<1>18. BufferSound(WriteAll(b, chars))
  BY <1>1, <1>6, <1>8, <1>15 DEF BufferSound, Buffers
<1>19. ASSUME NEW i \in Nat, NEW j \in Nat
       PROVE  At(WriteAll(b, chars).lines, i, j) =
                IF i = b.row /\ j >= b.col /\ j < b.col + Len(chars) THEN CharAt(chars, j - b.col) ELSE At(b.lines, i, j)
  BY <1>14, <1>15, <1>16, <1>17
<1> QED
  BY <1>8, <1>15, <1>17, <1>18, <1>19

-----------------------------------------------------------------------------
(* What a piece of text does to the buffer is what it does to the drawing *)

\* An agreement: its types, and what is at a place.
LEMMA AgreementIs ==
  ASSUME NEW b, NEW s, Agree(b, s)
  PROVE  /\ b \in Buffers /\ b.lines \in Seq(Lines) /\ Len(b.lines) \in Nat
         /\ b.row \in Nat /\ b.col \in Nat /\ b.savedRow \in Nat /\ b.savedCol \in Nat /\ b.row < Len(b.lines)
         /\ s \in Terminals /\ s.cells \subseteq CellSet
         /\ s.rows = Len(b.lines) /\ s.row = b.row /\ s.col = b.col /\ s.savedRow = b.savedRow /\ s.savedCol = b.savedCol
<1>1. b \in Buffers /\ b.lines \in Seq(Lines) /\ b.row < Len(b.lines)
      /\ b.row \in Nat /\ b.col \in Nat /\ b.savedRow \in Nat /\ b.savedCol \in Nat
  BY DEF Agree, BufferSound, Buffers
<1>2. Len(b.lines) \in Nat
  BY <1>1, SequenceIs
<1> QED
  BY <1>1, <1>2 DEF Agree, Terminals

\* The lines change where characters are erased.
LEMMA ErasedAgree ==
  ASSUME NEW b, NEW s, Agree(b, s), NEW lines \in Seq(Lines), b.row < Len(lines),
         NEW places \in SUBSET (Nat \X Nat), NEW left \in SUBSET s.cells,
         \A i, j \in Nat : At(lines, i, j) = IF <<i, j>> \in places THEN " " ELSE At(b.lines, i, j),
         \A c \in s.cells : c \in left <=> <<c.row, c.col>> \notin places
  PROVE  Agree([b EXCEPT !.lines = lines], [s EXCEPT !.cells = left, !.rows = Len(lines)])
<1> DEFINE after == [b EXCEPT !.lines = lines]
<1>1. Len(lines) \in Nat
  BY SequenceIs
<1>2. BufferSound(after) /\ after.lines = lines /\ after.row = b.row /\ after.col = b.col
      /\ after.savedRow = b.savedRow /\ after.savedCol = b.savedCol
  <2>1. b \in Buffers
    BY AgreementIs
  <2>2. after \in Buffers /\ after.lines = lines /\ after.row = b.row /\ after.col = b.col
        /\ after.savedRow = b.savedRow /\ after.savedCol = b.savedCol
    BY <2>1 DEF Buffers
  <2> QED
    BY <2>2 DEF BufferSound
<1>3. left \subseteq CellSet
  BY AgreementIs
<1>4. \A c \in CellSet : c \in left <=> At(lines, c.row, c.col) = c.char
  <2> TAKE c \in CellSet
  <2>1. c.row \in Nat /\ c.col \in Nat /\ c.char # " "
    BY DEF CellSet, Chars, Printables
  <2>2. c \in s.cells <=> At(b.lines, c.row, c.col) = c.char
    BY DEF Agree
  <2> QED
    BY <2>1, <2>2
<1>5. [s EXCEPT !.cells = left, !.rows = Len(lines)] \in Terminals
  <2>1. s \in Terminals
    BY AgreementIs
  <2>2. left \in SUBSET CellSet
    BY <1>3
  <2> QED
    BY <1>1, <2>1, <2>2 DEF Terminals
<1> HIDE DEF after
<1>6. Agree(after, [s EXCEPT !.cells = left, !.rows = Len(lines)])
  BY <1>1, <1>2, <1>4, <1>5, AgreementIs DEF Agree, Terminals
<1> QED
  BY <1>6 DEF after

\* The cursor moves, and the rows up to it exist.
LEMMA MovedAgree ==
  ASSUME NEW b, NEW s, Agree(b, s), NEW row \in Nat, NEW col \in Nat
  PROVE  /\ Agree(EnsureRow([b EXCEPT !.row = row, !.col = col]), Place(s, row, col))
         /\ row < Len(b.lines) => Agree([b EXCEPT !.row = row, !.col = col], Place(s, row, col))
<1> DEFINE moved == [b EXCEPT !.row = row, !.col = col]
           after == EnsureRow(moved)
<1>1. /\ moved \in Buffers /\ moved.lines = b.lines /\ moved.row = row /\ moved.col = col
      /\ moved.savedRow = b.savedRow /\ moved.savedCol = b.savedCol
  <2>1. b \in Buffers
    BY AgreementIs
  <2> QED
    BY <2>1 DEF Buffers
<1> HIDE DEF moved
<1>2. /\ BufferSound(after) /\ after = [moved EXCEPT !.lines = after.lines]
      /\ Len(after.lines) = IF moved.row < Len(moved.lines) THEN Len(moved.lines) ELSE moved.row + 1
      /\ \A i, j \in Nat : At(after.lines, i, j) = At(moved.lines, i, j)
  BY <1>1, EnsureRowIs
<1> HIDE DEF after
<1>3. after.row = row /\ after.col = col /\ after.savedRow = b.savedRow /\ after.savedCol = b.savedCol
  BY <1>1, <1>2 DEF Buffers
<1>4. \A c \in CellSet : c.row \in Nat /\ c.col \in Nat
  BY DEF CellSet
<1>5. \A c \in CellSet : c \in s.cells <=> At(b.lines, c.row, c.col) = c.char
  BY DEF Agree
<1>6. Place(s, row, col) \in Terminals
  <2>1. s \in Terminals
    BY AgreementIs
  <2> DEFINE rows == IF row < s.rows THEN s.rows ELSE row + 1
  <2>2. rows \in Nat
    BY <2>1 DEF Terminals
  <2>3. Place(s, row, col) = [s EXCEPT !.row = row, !.col = col, !.rows = rows]
    BY <2>1 DEF Place, Terminals
  <2> HIDE DEF rows
  <2> QED
    BY <2>1, <2>2, <2>3 DEF Terminals
<1>7. Place(s, row, col).rows = Len(after.lines)
  BY <1>1, <1>2, AgreementIs DEF Place, Terminals
<1>8. /\ Place(s, row, col).row = row /\ Place(s, row, col).col = col /\ Place(s, row, col).cells = s.cells
      /\ Place(s, row, col).savedRow = b.savedRow /\ Place(s, row, col).savedCol = b.savedCol
  BY AgreementIs DEF Place, Terminals
<1>9. Agree(after, Place(s, row, col))
  BY <1>1, <1>2, <1>3, <1>4, <1>5, <1>6, <1>7, <1>8 DEF Agree
<1>10. ASSUME row < Len(b.lines) PROVE Agree(moved, Place(s, row, col))
  <2>1. BufferSound(moved)
    BY <1>1, <1>10 DEF BufferSound
  <2>2. Place(s, row, col).rows = Len(b.lines)
    BY <1>10, AgreementIs DEF Place, Terminals
  <2> QED
    BY <1>1, <1>5, <1>6, <1>8, <2>1, <2>2 DEF Agree
<1> QED
  BY <1>9, <1>10 DEF moved, after

\* Characters are written.
LEMMA PutAgrees ==
  ASSUME NEW b, NEW s, Agree(b, s), NEW char \in Chars
  PROVE  Agree(WritePrintable(b, char), Put(s, char))
<1> DEFINE chars == <<char>>
           after == WriteAll(b, chars)
           cell == [row |-> s.row, col |-> s.col, char |-> char]
           cells == {c \in s.cells : ~(c.row = s.row /\ c.col = s.col)} \union {cell}
<1>1. chars \in Lines /\ Len(chars) = 1 /\ CharAt(chars, 0) = char
  <2>0. char \in Chars \union {" "}
    OBVIOUS
  <2>1. <<char>> \in Seq(Chars \union {" "})
    <3> DEFINE S == Chars \union {" "}
    <3>1. char \in S
      OBVIOUS
    <3> HIDE DEF S
    <3>2. <<char>> \in Seq(S)
      BY <3>1
    <3> QED
      BY <3>2 DEF S
  <2>2. Len(<<char>>) = 1 /\ <<char>>[0 + 1] = char
    OBVIOUS
  <2>3. Len(chars) = 1 /\ chars[0 + 1] = char
    BY <2>2
  <2>4. chars \in Lines
    BY <2>1 DEF Lines
  <2> HIDE DEF chars
  <2> QED
    BY <2>3, <2>4 DEF CharAt
<1> HIDE DEF chars
<1>2. BufferSound(b)
  BY DEF Agree
<1>3. /\ BufferSound(after)
      /\ after = [b EXCEPT !.lines = after.lines, !.col = b.col + Len(chars)]
      /\ Len(after.lines) = Len(b.lines)
      /\ \A i, j \in Nat : At(after.lines, i, j) =
           IF i = b.row /\ j >= b.col /\ j < b.col + Len(chars) THEN CharAt(chars, j - b.col) ELSE At(b.lines, i, j)
  BY <1>1, <1>2, WriteAllIs
<1> HIDE DEF after
<1>4. /\ after.row = b.row /\ after.col = b.col + 1 /\ after.savedRow = b.savedRow /\ after.savedCol = b.savedCol
  BY <1>1, <1>3, AgreementIs DEF Buffers
<1>5. \A i, j \in Nat : At(after.lines, i, j) = IF i = b.row /\ j = b.col THEN char ELSE At(b.lines, i, j)
  <2> TAKE i, j \in Nat
  <2>1. b.col \in Nat
    BY AgreementIs
  <2>2. (j >= b.col /\ j < b.col + 1 <=> j = b.col) /\ b.col - b.col = 0
    BY <2>1
  <2> QED
    BY <1>1, <1>3, <2>2
<1>6. Put(s, char) = [s EXCEPT !.cells = cells, !.col = s.col + 1]
  BY AgreementIs DEF Put, Erase, Terminals
<1>7. cell \in CellSet
  BY AgreementIs DEF CellSet
<1>8. cells \subseteq CellSet
  BY <1>7, AgreementIs
<1>9. \A c \in CellSet : c \in cells <=> At(after.lines, c.row, c.col) = c.char
  <2> TAKE c \in CellSet
  <2>1. c.row \in Nat /\ c.col \in Nat
    BY DEF CellSet
  <2>2. c \in s.cells <=> At(b.lines, c.row, c.col) = c.char
    BY DEF Agree
  <2>3. s.row = b.row /\ s.col = b.col
    BY DEF Agree
  <2>4. CASE c.row = b.row /\ c.col = b.col
    <3>1. c = cell <=> c.char = char
      BY <2>3, <2>4 DEF CellSet
    <3>2. At(after.lines, c.row, c.col) = char
      BY <1>5, <2>1, <2>4
    <3> QED
      BY <2>3, <2>4, <3>1, <3>2
  <2>5. CASE ~(c.row = b.row /\ c.col = b.col)
    <3>1. c # cell
      BY <2>3, <2>5
    <3>2. At(after.lines, c.row, c.col) = At(b.lines, c.row, c.col)
      BY <1>5, <2>1, <2>5
    <3> QED
      BY <2>2, <2>3, <2>5, <3>1, <3>2
  <2> QED
    BY <2>4, <2>5
<1> HIDE DEF cells
<1>10. Put(s, char) \in Terminals
  <2>1. s \in Terminals
    BY AgreementIs
  <2>2. s.col + 1 \in Nat
    BY <2>1 DEF Terminals
  <2>3. cells \in SUBSET CellSet
    BY <1>8
  <2> QED
    BY <1>6, <2>1, <2>2, <2>3 DEF Terminals
<1>11. Agree(after, Put(s, char))
  BY <1>3, <1>4, <1>6, <1>9, <1>10, AgreementIs DEF Agree, Terminals
<1> QED
  BY <1>11 DEF WritePrintable, after, chars

\* A TAB writes spaces up to the next stop.
LEMMA TabStops ==
  ASSUME NEW col \in Nat
  PROVE  LET n == TabStop - (col % TabStop) IN n \in Nat /\ n > 0 /\ col + n = (col \div TabStop + 1) * TabStop
<1> DEFINE q == col \div TabStop
           m == col % TabStop
<1>1. TabStop \in Nat /\ TabStop > 0
  BY ReplayAssumption
<1>2. q \in Nat /\ m \in 0..TabStop - 1 /\ col = q * TabStop + m
  BY <1>1
<1> HIDE DEF q, m
<1>3. (q + 1) * TabStop = q * TabStop + TabStop
  BY <1>1, <1>2
<1>4. TabStop - m \in Nat /\ TabStop - m > 0
  BY <1>1, <1>2
<1>5. q * TabStop \in Nat
  BY <1>1, <1>2
<1>6. col + (TabStop - m) = (q + 1) * TabStop
  <2> DEFINE a == q * TabStop
  <2>1. a \in Nat /\ col = a + m /\ (q + 1) * TabStop = a + TabStop
    BY <1>2, <1>3, <1>5
  <2> HIDE DEF a
  <2> QED
    BY <1>1, <1>2, <2>1
<1> QED
  BY <1>4, <1>6 DEF q, m

LEMMA TabAgrees ==
  ASSUME NEW b, NEW s, Agree(b, s)
  PROVE  LET stop == (s.col \div TabStop + 1) * TabStop
             toStop(row, col) == row = s.row /\ col \in s.col..stop - 1
         IN Agree(WriteAll(b, Spaces(TabStop - (b.col % TabStop))), Place(Erase(s, toStop), s.row, stop))
<1> DEFINE n == TabStop - (b.col % TabStop)
           stop == (s.col \div TabStop + 1) * TabStop
           after == WriteAll(b, Spaces(n))
           places == {x \in Nat \X Nat : x[1] = b.row /\ x[2] >= b.col /\ x[2] < b.col + n}
           left == {c \in s.cells : ~(c.row = s.row /\ c.col \in s.col..stop - 1)}
           erased == [b EXCEPT !.lines = after.lines]
<1>1. b \in Buffers /\ b.row \in Nat /\ b.col \in Nat /\ s.row = b.row /\ s.col = b.col /\ s.rows = Len(b.lines)
      /\ b.row < Len(b.lines) /\ Len(b.lines) \in Nat
  BY AgreementIs
<1>2. n \in Nat /\ n > 0 /\ b.col + n = stop
  BY <1>1, TabStops
<1> HIDE DEF n, stop
<1>3. Spaces(n) \in Lines /\ Len(Spaces(n)) = n /\ \A j \in Nat : CharAt(Spaces(n), j) = " "
  <2>1. n \in Int /\ ~(n < 0)
    BY <1>2
  <2> QED
    BY <2>1, SpacesAre
<1>4. BufferSound(b)
  BY DEF Agree
<1>5. /\ BufferSound(after)
      /\ after = [b EXCEPT !.lines = after.lines, !.col = b.col + Len(Spaces(n))]
      /\ Len(after.lines) = Len(b.lines)
      /\ \A i, j \in Nat : At(after.lines, i, j) =
           IF i = b.row /\ j >= b.col /\ j < b.col + Len(Spaces(n)) THEN CharAt(Spaces(n), j - b.col) ELSE At(b.lines, i, j)
  BY <1>3, <1>4, WriteAllIs
<1> HIDE DEF after
<1>6. after.lines \in Seq(Lines)
  BY <1>5 DEF BufferSound, Buffers
<1>7. \A i, j \in Nat : At(after.lines, i, j) = IF <<i, j>> \in places THEN " " ELSE At(b.lines, i, j)
  <2> TAKE i, j \in Nat
  <2>1. <<i, j>> \in places <=> i = b.row /\ j >= b.col /\ j < b.col + n
    OBVIOUS
  <2>2. j >= b.col => j - b.col \in Nat
    BY <1>1
  <2> QED
    BY <1>3, <1>5, <2>1, <2>2
<1>8. places \in SUBSET (Nat \X Nat)
  OBVIOUS
<1>9. \A c \in CellSet : <<c.row, c.col>> \in places <=> c.row = s.row /\ c.col \in s.col..stop - 1
  <2> TAKE c \in CellSet
  <2>1. c.row \in Nat /\ c.col \in Nat
    BY DEF CellSet
  <2>2. c.col >= b.col /\ c.col < b.col + n <=> c.col \in b.col..stop - 1
    BY <1>1, <1>2, <2>1
  <2> QED
    BY <1>1, <2>1, <2>2
<1> HIDE DEF places
<1>10. b.row < Len(after.lines)
  BY <1>1, <1>5
<1>a. left \in SUBSET s.cells /\ \A c \in s.cells : c \in left <=> <<c.row, c.col>> \notin places
  BY <1>9, AgreementIs
<1> HIDE DEF left
<1>11. Agree(erased, [s EXCEPT !.cells = left, !.rows = Len(after.lines)])
  <2> DEFINE lines == after.lines
  <2>1. lines \in Seq(Lines)
    BY <1>6
  <2>2. \A i, j \in Nat : At(lines, i, j) = IF <<i, j>> \in places THEN " " ELSE At(b.lines, i, j)
    BY <1>7
  <2>a. b.row < Len(lines)
    BY <1>10
  <2> HIDE DEF lines
  <2>b. left \in SUBSET s.cells
    BY <1>a
  <2>3. Agree([b EXCEPT !.lines = lines], [s EXCEPT !.cells = left, !.rows = Len(lines)])
    BY <1>8, <1>a, <2>1, <2>2, <2>a, <2>b, ErasedAgree
  <2> QED
    BY <2>3 DEF lines
<1>13. [s EXCEPT !.cells = left, !.rows = Len(after.lines)] = [s EXCEPT !.cells = left]
  <2>1. s \in Terminals /\ s.rows = Len(after.lines)
    BY <1>5, AgreementIs
  <2> QED
    BY <2>1 DEF Terminals
<1>14. Agree(erased, [s EXCEPT !.cells = left])
  BY <1>11, <1>13
<1>15. erased.lines = after.lines /\ erased.row = b.row
  BY <1>1 DEF Buffers
<1>16. [erased EXCEPT !.row = b.row, !.col = stop] = after
  BY <1>1, <1>2, <1>3, <1>5 DEF Buffers
<1> HIDE DEF erased
<1>17. Agree([erased EXCEPT !.row = b.row, !.col = stop], Place([s EXCEPT !.cells = left], b.row, stop))
  <2>1. stop \in Nat
    BY <1>1, <1>2
  <2>2. b.row < Len(erased.lines)
    BY <1>10, <1>15
  <2>3. b.row \in Nat
    BY <1>1
  <2> QED
    BY <1>14, <2>1, <2>2, <2>3, MovedAgree
<1>18. Agree(after, Place([s EXCEPT !.cells = left], s.row, stop))
  BY <1>1, <1>16, <1>17
<1> QED
  BY <1>18 DEF Erase, left, after, stop, n

\* A line is erased in part.
LEMMA LineErased ==
  ASSUME NEW b, NEW s, Agree(b, s), NEW line \in Lines, NEW cols \in SUBSET Nat, NEW left \in SUBSET s.cells,
         \A j \in Nat : CharAt(line, j) = IF j \in cols THEN " " ELSE CharAt(CursorLine(b), j),
         \A c \in s.cells : c \in left <=> ~(c.row = s.row /\ c.col \in cols)
  PROVE  Agree([b EXCEPT !.lines[b.row + 1] = line], [s EXCEPT !.cells = left])
<1> DEFINE lines == [b.lines EXCEPT ![b.row + 1] = line]
           places == {x \in Nat \X Nat : x[1] = b.row /\ x[2] \in cols}
<1>1. b \in Buffers /\ b.lines \in Seq(Lines) /\ b.row \in Nat /\ s.row = b.row /\ s.rows = Len(b.lines)
      /\ b.row < Len(b.lines) /\ Len(b.lines) \in Nat
  BY AgreementIs
<1>2. /\ lines \in Seq(Lines) /\ Len(lines) = Len(b.lines)
      /\ \A i, j \in Nat : At(lines, i, j) = IF i = b.row THEN CharAt(line, j) ELSE At(b.lines, i, j)
  <2> DEFINE old == b.lines
             row == b.row
  <2>1. old \in Seq(Lines)
    BY <1>1
  <2>2. row \in Nat
    BY <1>1
  <2>3. row < Len(old)
    BY <1>1
  <2> HIDE DEF old, row
  <2>4. LET after == [old EXCEPT ![row + 1] = line]
        IN /\ after \in Seq(Lines) /\ Len(after) = Len(old)
           /\ \A i, j \in Nat : At(after, i, j) = IF i = row THEN CharAt(line, j) ELSE At(old, i, j)
    BY <2>1, <2>2, <2>3, LineReplaced
  <2> QED
    BY <2>4 DEF old, row
<1>3. [b EXCEPT !.lines[b.row + 1] = line] = [b EXCEPT !.lines = lines]
  BY <1>1 DEF Buffers
<1> HIDE DEF lines
<1>4. \A j \in Nat : At(b.lines, b.row, j) = CharAt(CursorLine(b), j)
  BY <1>1 DEF At, CursorLine
<1>5. \A i, j \in Nat : At(lines, i, j) = IF <<i, j>> \in places THEN " " ELSE At(b.lines, i, j)
  <2> TAKE i, j \in Nat
  <2>1. <<i, j>> \in places <=> i = b.row /\ j \in cols
    OBVIOUS
  <2> QED
    BY <1>2, <1>4, <2>1
<1>6. places \in SUBSET (Nat \X Nat)
  OBVIOUS
<1>7. \A c \in CellSet : <<c.row, c.col>> \in places <=> c.row = s.row /\ c.col \in cols
  <2> TAKE c \in CellSet
  <2>1. c.row \in Nat /\ c.col \in Nat
    BY DEF CellSet
  <2> QED
    BY <1>1, <2>1
<1> HIDE DEF places
<1>8. b.row < Len(lines)
  BY <1>1, <1>2
<1>a. \A c \in s.cells : c \in left <=> <<c.row, c.col>> \notin places
  BY <1>7, AgreementIs
<1>b. lines \in Seq(Lines)
  BY <1>2
<1>9. Agree([b EXCEPT !.lines = lines], [s EXCEPT !.cells = left, !.rows = Len(lines)])
  BY <1>5, <1>6, <1>8, <1>a, <1>b, ErasedAgree
<1>11. [s EXCEPT !.cells = left, !.rows = Len(lines)] = [s EXCEPT !.cells = left]
  <2>1. s \in Terminals /\ s.rows = Len(lines)
    BY <1>1, <1>2, AgreementIs
  <2> QED
    BY <2>1 DEF Terminals
<1> QED
  BY <1>3, <1>9, <1>11

\* The line of the cursor, and what erasing it in part makes of it.
LEMMA CursorLines ==
  ASSUME NEW b, NEW s, Agree(b, s)
  PROVE  /\ CursorLine(b) \in Lines
         /\ LineStart(CursorLine(b), b.col) \in Lines
         /\ \A j \in Nat : CharAt(LineStart(CursorLine(b), b.col), j) = IF j >= b.col THEN " " ELSE CharAt(CursorLine(b), j)
         /\ Spaces(b.col) \o LineRest(CursorLine(b), b.col) \in Lines
         /\ \A j \in Nat : CharAt(Spaces(b.col) \o LineRest(CursorLine(b), b.col), j) =
              IF j < b.col THEN " " ELSE CharAt(CursorLine(b), j)
<1> DEFINE line == CursorLine(b)
           n == b.col
           spaces == Spaces(n)
           rest == LineRest(line, n)
<1>1. b.lines \in Seq(Lines) /\ Len(b.lines) \in Nat /\ b.row \in Nat /\ b.row < Len(b.lines)
  BY AgreementIs
<1>2. n \in Nat
  BY AgreementIs
<1>3. b.row + 1 \in 1..Len(b.lines)
  BY <1>1
<1>4. line \in Lines
  BY <1>1, <1>3, SequenceIs DEF CursorLine
<1> HIDE DEF line, n
<1>5. LineStart(line, n) \in Lines /\ \A j \in Nat : CharAt(LineStart(line, n), j) = IF j < n THEN CharAt(line, j) ELSE " "
  BY <1>2, <1>4, LineStartIs
<1>6. \A j \in Nat : j >= n <=> ~(j < n)
  BY <1>2
<1>7. rest \in Lines /\ \A j \in Nat : CharAt(rest, j) = CharAt(line, j + n)
  BY <1>2, <1>4, LineRestIs
<1>8. spaces \in Lines /\ Len(spaces) = n /\ \A j \in Nat : CharAt(spaces, j) = " "
  <2>1. n \in Int /\ ~(n < 0)
    BY <1>2
  <2> QED
    BY <2>1, SpacesAre
<1> HIDE DEF spaces, rest
<1>9. /\ spaces \o rest \in Lines
      /\ \A j \in Nat : CharAt(spaces \o rest, j) = IF j < Len(spaces) THEN CharAt(spaces, j) ELSE CharAt(rest, j - Len(spaces))
  BY <1>7, <1>8, JoinIs
<1>10. ASSUME NEW j \in Nat PROVE CharAt(spaces \o rest, j) = IF j < n THEN " " ELSE CharAt(line, j)
  <2>1. CASE j < n
    BY <1>8, <1>9, <2>1
  <2>2. CASE ~(j < n)
    <3>1. j - n \in Nat /\ (j - n) + n = j
      BY <1>2, <2>2
    <3>2. CharAt(rest, j - n) = CharAt(line, j)
      BY <1>7, <3>1
    <3> QED
      BY <1>8, <1>9, <2>2, <3>2
  <2> QED
    BY <2>1, <2>2
<1>11. \A j \in Nat : CharAt(LineStart(line, n), j) = IF j >= n THEN " " ELSE CharAt(line, j)
  BY <1>5, <1>6
<1> QED
  BY <1>4, <1>5, <1>9, <1>10, <1>11 DEF line, n, spaces, rest

\* eraseLine()
LEMMA EraseLineAgrees ==
  ASSUME NEW b, NEW s, Agree(b, s), NEW mode \in Nat
  PROVE  LET lineStart(row, col) == row = s.row /\ col < s.col
             lineEnd(row, col) == row = s.row /\ col >= s.col
             line(row, col) == row = s.row
         IN /\ mode = 1 => Agree(EraseLine(b, mode), Erase(s, lineStart))
            /\ mode = 2 => Agree(EraseLine(b, mode), Place(Erase(s, line), s.row, 0))
            /\ mode \notin {1, 2} => Agree(EraseLine(b, mode), Erase(s, lineEnd))
<1>1. b \in Buffers /\ b.row \in Nat /\ b.col \in Nat /\ s.row = b.row /\ s.col = b.col /\ s.cells \subseteq CellSet
      /\ b.row < Len(b.lines) /\ b.lines \in Seq(Lines)
  BY AgreementIs
<1>2. \A c \in s.cells : c.row \in Nat /\ c.col \in Nat
  BY <1>1 DEF CellSet
<1>3. ASSUME mode = 1
      PROVE  Agree(EraseLine(b, mode), [s EXCEPT !.cells = {c \in s.cells : ~(c.row = s.row /\ c.col < s.col)}])
  <2> DEFINE cols == {j \in Nat : j < b.col}
             erased == Spaces(b.col) \o LineRest(CursorLine(b), b.col)
  <2>1. erased \in Lines /\ \A j \in Nat : CharAt(erased, j) = IF j \in cols THEN " " ELSE CharAt(CursorLine(b), j)
    BY CursorLines
  <2>2. EraseLine(b, mode) = [b EXCEPT !.lines[b.row + 1] = erased]
    BY <1>1, <1>3 DEF EraseLine, CursorLine, Buffers
  <2> HIDE DEF erased
  <2>3. cols \in SUBSET Nat
    OBVIOUS
  <2> DEFINE left == {c \in s.cells : ~(c.row = s.row /\ c.col < s.col)}
  <2>4. left \in SUBSET s.cells
    OBVIOUS
  <2>a. \A c \in s.cells : c \in left <=> ~(c.row = s.row /\ c.col \in cols)
    BY <1>1, <1>2
  <2> HIDE DEF left
  <2> HIDE DEF cols
  <2>b. erased \in Lines
    BY <2>1
  <2>c. \A j \in Nat : CharAt(erased, j) = IF j \in cols THEN " " ELSE CharAt(CursorLine(b), j)
    BY <2>1
  <2>5. Agree([b EXCEPT !.lines[b.row + 1] = erased], [s EXCEPT !.cells = left])
    BY <2>3, <2>4, <2>a, <2>b, <2>c, LineErased
  <2> QED
    BY <2>2, <2>5 DEF left
<1>4. ASSUME mode \notin {1, 2}
      PROVE  Agree(EraseLine(b, mode), [s EXCEPT !.cells = {c \in s.cells : ~(c.row = s.row /\ c.col >= s.col)}])
  <2> DEFINE cols == {j \in Nat : j >= b.col}
             erased == LineStart(CursorLine(b), b.col)
  <2>1. erased \in Lines /\ \A j \in Nat : CharAt(erased, j) = IF j \in cols THEN " " ELSE CharAt(CursorLine(b), j)
    BY CursorLines
  <2>2. EraseLine(b, mode) = [b EXCEPT !.lines[b.row + 1] = erased]
    BY <1>1, <1>4 DEF EraseLine, CursorLine, Buffers
  <2> HIDE DEF erased
  <2>3. cols \in SUBSET Nat
    OBVIOUS
  <2> DEFINE left == {c \in s.cells : ~(c.row = s.row /\ c.col >= s.col)}
  <2>4. left \in SUBSET s.cells
    OBVIOUS
  <2>a. \A c \in s.cells : c \in left <=> ~(c.row = s.row /\ c.col \in cols)
    BY <1>1, <1>2
  <2> HIDE DEF left
  <2> HIDE DEF cols
  <2>b. erased \in Lines
    BY <2>1
  <2>c. \A j \in Nat : CharAt(erased, j) = IF j \in cols THEN " " ELSE CharAt(CursorLine(b), j)
    BY <2>1
  <2>5. Agree([b EXCEPT !.lines[b.row + 1] = erased], [s EXCEPT !.cells = left])
    BY <2>3, <2>4, <2>a, <2>b, <2>c, LineErased
  <2> QED
    BY <2>2, <2>5 DEF left
<1>5. ASSUME mode = 2
      PROVE  Agree(EraseLine(b, mode), Place([s EXCEPT !.cells = {c \in s.cells : ~(c.row = s.row)}], s.row, 0))
  <2> DEFINE cols == Nat
             erased == <<>>
             after == [b EXCEPT !.lines[b.row + 1] = erased]
  <2>1. erased \in Lines /\ \A j \in Nat : CharAt(erased, j) = IF j \in cols THEN " " ELSE CharAt(CursorLine(b), j)
    <3>1. Len(erased) = 0 /\ \A j \in Nat : ~(j < 0)
      OBVIOUS
    <3>2. erased \in Lines
      BY DEF Lines
    <3> HIDE DEF erased
    <3> QED
      BY <3>1, <3>2 DEF CharAt
  <2>2. EraseLine(b, mode) = [after EXCEPT !.row = b.row, !.col = 0]
    <3> DEFINE lines == [b.lines EXCEPT ![b.row + 1] = erased]
    <3>1. b \in Buffers
      BY <1>1
    <3>2. EraseLine(b, mode) = [b EXCEPT !.lines = lines, !.col = 0]
      BY <1>5, <3>1 DEF EraseLine, Buffers
    <3>3. after = [b EXCEPT !.lines = lines]
      BY <3>1 DEF Buffers
    <3> HIDE DEF lines, after
    <3> QED
      BY <3>1, <3>2, <3>3 DEF Buffers
  <2>0. after.lines = [b.lines EXCEPT ![b.row + 1] = erased]
    BY <1>1 DEF Buffers
  <2>6. Len(after.lines) = Len(b.lines)
    BY <1>1, <2>0
  <2> HIDE DEF erased
  <2>3. cols \in SUBSET Nat
    OBVIOUS
  <2> DEFINE left == {c \in s.cells : ~(c.row = s.row)}
  <2>4. left \in SUBSET s.cells
    OBVIOUS
  <2>a. \A c \in s.cells : c \in left <=> ~(c.row = s.row /\ c.col \in cols)
    BY <1>1, <1>2
  <2> HIDE DEF left
  <2> HIDE DEF cols
  <2>b. erased \in Lines
    BY <2>1
  <2>c. \A j \in Nat : CharAt(erased, j) = IF j \in cols THEN " " ELSE CharAt(CursorLine(b), j)
    BY <2>1
  <2>7. Agree(after, [s EXCEPT !.cells = left])
    BY <2>3, <2>4, <2>a, <2>b, <2>c, LineErased
  <2> HIDE DEF after
  <2>8. b.row \in Nat /\ b.row < Len(after.lines)
    BY <1>1, <2>6
  <2>9. Agree([after EXCEPT !.row = b.row, !.col = 0], Place([s EXCEPT !.cells = left], b.row, 0))
    <3> DEFINE t == [s EXCEPT !.cells = left]
    <3>1. Agree(after, t)
      BY <2>7
    <3>2. 0 \in Nat
      OBVIOUS
    <3>3. b.row \in Nat
      BY <2>8
    <3> HIDE DEF t
    <3>4. Agree([after EXCEPT !.row = b.row, !.col = 0], Place(t, b.row, 0))
      BY <2>8, <3>1, <3>2, <3>3, MovedAgree
    <3> QED
      BY <3>4 DEF t
  <2> QED
    BY <1>1, <2>2, <2>9 DEF left
<1> QED
  BY <1>3, <1>4, <1>5 DEF Erase

\* eraseDisplay()
LEMMA EraseDisplayAgrees ==
  ASSUME NEW b, NEW s, Agree(b, s), NEW mode \in Nat
  PROVE  LET before(row, col) == row < s.row \/ (row = s.row /\ col < s.col)
             atOrAfter(row, col) == ~before(row, col)
         IN /\ mode = 0 => Agree(EraseDisplay(b, mode), [Erase(s, atOrAfter) EXCEPT !.rows = s.row + 1])
            /\ mode = 1 => Agree(EraseDisplay(b, mode), Erase(s, before))
            /\ mode \in {2, 3} => Agree(EraseDisplay(b, mode), [Blank EXCEPT !.savedRow = s.savedRow, !.savedCol = s.savedCol])
            /\ mode \notin 0..3 => Agree(EraseDisplay(b, mode), s)
<1>a. b \in Buffers
  BY AgreementIs
<1>b. s \in Terminals
  BY AgreementIs
<1>1. b.row \in Nat /\ b.col \in Nat /\ s.row = b.row /\ s.col = b.col /\ s.rows = Len(b.lines)
      /\ s.savedRow = b.savedRow /\ s.savedCol = b.savedCol /\ b.row < Len(b.lines) /\ Len(b.lines) \in Nat
  BY AgreementIs
<1>c. b.lines \in Seq(Lines)
  BY AgreementIs
<1>2. \A c \in s.cells : c.row \in Nat /\ c.col \in Nat
  BY AgreementIs DEF CellSet
<1>d. b.row + 1 \in 1..Len(b.lines) /\ \A i \in 1..Len(b.lines) : b.lines[i] \in Lines
  BY <1>1, <1>c, SequenceIs
<1>3. ASSUME mode = 0
      PROVE  Agree(EraseDisplay(b, mode),
                   [s EXCEPT !.cells = {c \in s.cells : ~~(c.row < s.row \/ (c.row = s.row /\ c.col < s.col))}, !.rows = s.row + 1])
  <2> DEFINE above == SubSeq(b.lines, 1, b.row)
             last == LineStart(CursorLine(b), b.col)
             lines == Append(above, last)
             left == {c \in s.cells : ~~(c.row < s.row \/ (c.row = s.row /\ c.col < s.col))}
             places == {x \in Nat \X Nat : ~(x[1] < b.row \/ (x[1] = b.row /\ x[2] < b.col))}
  <2>1. EraseDisplay(b, mode) = [b EXCEPT !.lines = lines]
    BY <1>a, <1>3 DEF EraseDisplay, Buffers
  <2>2. last \in Lines /\ \A j \in Nat : CharAt(last, j) = IF j >= b.col THEN " " ELSE CharAt(CursorLine(b), j)
    BY CursorLines
  <2> HIDE DEF last
  <2>3. above \in Seq(Lines) /\ Len(above) = b.row /\ \A i \in 1..b.row : above[i] = b.lines[i]
    <3> DEFINE m == b.row
    <3>1. 0 \in 0..Len(b.lines) /\ m \in 0..Len(b.lines) /\ m \in Nat
      BY <1>1
    <3> HIDE DEF m
    <3>2. /\ SubSeq(b.lines, 0 + 1, m) \in Seq(Lines) /\ Len(SubSeq(b.lines, 0 + 1, m)) = m - 0
          /\ \A i \in 1..m - 0 : SubSeq(b.lines, 0 + 1, m)[i] = b.lines[0 + i]
      BY <1>c, <3>1, Slice
    <3>3. 0 + 1 = 1 /\ m - 0 = m /\ \A i \in 1..m : 0 + i = i
      BY <3>1
    <3> QED
      BY <3>2, <3>3 DEF m
  <2> HIDE DEF above
  <2>4. /\ lines \in Seq(Lines) /\ Len(lines) = b.row + 1 /\ lines[b.row + 1] = last
        /\ \A i \in 1..b.row : lines[i] = b.lines[i]
    <3>1. above \in Seq(Lines)
      BY <2>3
    <3>2. last \in Lines
      BY <2>2
    <3>3. lines \in Seq(Lines) /\ Len(lines) = Len(above) + 1 /\ lines[Len(above) + 1] = last
      BY <3>1, <3>2
    <3>4. \A i \in 1..Len(above) : lines[i] = above[i]
      BY <3>1, <3>2
    <3> HIDE DEF lines
    <3> QED
      BY <2>3, <3>3, <3>4
  <2> HIDE DEF lines
  <2>5. \A i, j \in Nat : At(lines, i, j) = IF <<i, j>> \in places THEN " " ELSE At(b.lines, i, j)
    <3> TAKE i, j \in Nat
    <3>1. <<i, j>> \in places <=> ~(i < b.row \/ (i = b.row /\ j < b.col))
      OBVIOUS
    <3>2. CASE i < b.row
      <4>1. i + 1 \in 1..b.row /\ i < b.row + 1 /\ i < Len(b.lines)
        BY <1>1, <3>2
      <4> QED
        BY <2>4, <3>1, <3>2, <4>1 DEF At
    <3>3. CASE i = b.row
      <4>1. i < b.row + 1 /\ i < Len(b.lines) /\ ~(i < b.row) /\ (j >= b.col <=> ~(j < b.col))
        BY <1>1, <3>3
      <4>2. At(lines, i, j) = CharAt(last, j)
        BY <2>4, <3>3, <4>1 DEF At
      <4>3. At(b.lines, i, j) = CharAt(CursorLine(b), j)
        BY <3>3, <4>1 DEF At, CursorLine
      <4> QED
        BY <2>2, <3>1, <3>3, <4>1, <4>2, <4>3
    <3>4. CASE i > b.row
      <4>1. ~(i < b.row + 1) /\ ~(i < b.row) /\ i # b.row
        BY <1>1, <3>4
      <4> QED
        BY <2>4, <3>1, <4>1 DEF At
    <3>5. b.row \in Nat
      BY <1>1
    <3>6. i < b.row \/ i = b.row \/ i > b.row
      BY <3>5
    <3> QED
      BY <3>2, <3>3, <3>4, <3>6, Zenon
  <2>6. places \in SUBSET (Nat \X Nat)
    OBVIOUS
  <2>7. left \in SUBSET s.cells
    OBVIOUS
  <2>8. \A c \in s.cells : c \in left <=> <<c.row, c.col>> \notin places
    BY <1>1, <1>2
  <2> HIDE DEF places, left
  <2>9. lines \in Seq(Lines)
    BY <2>4
  <2>10. b.row < Len(lines)
    BY <1>1, <2>4
  <2>11. Agree([b EXCEPT !.lines = lines], [s EXCEPT !.cells = left, !.rows = Len(lines)])
    BY <2>5, <2>6, <2>7, <2>8, <2>9, <2>10, ErasedAgree
  <2>12. Len(lines) = s.row + 1
    BY <1>1, <2>4
  <2> QED
    BY <2>1, <2>11, <2>12 DEF left
<1>4. ASSUME mode = 1
      PROVE  Agree(EraseDisplay(b, mode),
                   [s EXCEPT !.cells = {c \in s.cells : ~(c.row < s.row \/ (c.row = s.row /\ c.col < s.col))}])
  <2> DEFINE line == Spaces(b.col) \o LineRest(CursorLine(b), b.col)
             lines == [i \in DOMAIN b.lines |->
                         IF i <= b.row THEN <<>> ELSE IF i = b.row + 1 THEN line ELSE b.lines[i]]
             left == {c \in s.cells : ~(c.row < s.row \/ (c.row = s.row /\ c.col < s.col))}
             places == {x \in Nat \X Nat : x[1] < b.row \/ (x[1] = b.row /\ x[2] < b.col)}
  <2>1. EraseDisplay(b, mode) = [b EXCEPT !.lines = lines]
    <3>1. \A i \in DOMAIN b.lines : i = b.row + 1 => LineRest(b.lines[i], b.col) = LineRest(CursorLine(b), b.col)
      BY DEF CursorLine
    <3>2. EraseDisplay(b, mode) = [b EXCEPT !.lines = [i \in DOMAIN b.lines |->
             IF i <= b.row THEN <<>> ELSE IF i = b.row + 1 THEN Spaces(b.col) \o LineRest(b.lines[i], b.col) ELSE b.lines[i]]]
      BY <1>a, <1>4 DEF EraseDisplay, Buffers
    <3>3. [i \in DOMAIN b.lines |->
             IF i <= b.row THEN <<>> ELSE IF i = b.row + 1 THEN Spaces(b.col) \o LineRest(b.lines[i], b.col) ELSE b.lines[i]]
          = lines
      BY <3>1
    <3> QED
      BY <3>2, <3>3
  <2>2. line \in Lines /\ \A j \in Nat : CharAt(line, j) = IF j < b.col THEN " " ELSE CharAt(CursorLine(b), j)
    BY CursorLines
  <2> HIDE DEF line
  <2>3. <<>> \in Lines /\ \A j \in Nat : CharAt(<<>>, j) = " "
    <3> DEFINE empty == <<>>
    <3>1. Len(empty) = 0 /\ \A j \in Nat : ~(j < 0)
      OBVIOUS
    <3>2. empty \in Lines
      BY DEF Lines
    <3> HIDE DEF empty
    <3>3. empty \in Lines /\ \A j \in Nat : CharAt(empty, j) = " "
      BY <3>1, <3>2 DEF CharAt
    <3> QED
      BY <3>3 DEF empty
  <2>a. DOMAIN b.lines = 1..Len(b.lines)
    BY <1>c, SequenceIs
  <2>4. /\ lines \in Seq(Lines) /\ Len(lines) = Len(b.lines)
        /\ \A i \in 1..Len(b.lines) : lines[i] = IF i <= b.row THEN <<>> ELSE IF i = b.row + 1 THEN line ELSE b.lines[i]
    <3>1. \A i \in 1..Len(b.lines) : (IF i <= b.row THEN <<>> ELSE IF i = b.row + 1 THEN line ELSE b.lines[i]) \in Lines
      BY <1>d, <2>2, <2>3
    <3>2. lines \in [1..Len(b.lines) -> Lines]
      BY <2>a, <3>1
    <3> QED
      BY <1>1, <2>a, <3>2
  <2> HIDE DEF lines
  <2>5. \A i, j \in Nat : At(lines, i, j) = IF <<i, j>> \in places THEN " " ELSE At(b.lines, i, j)
    <3> TAKE i, j \in Nat
    <3>1. <<i, j>> \in places <=> i < b.row \/ (i = b.row /\ j < b.col)
      OBVIOUS
    <3>2. CASE i < b.row
      <4>1. i + 1 \in 1..Len(b.lines) /\ i + 1 <= b.row /\ i < Len(b.lines)
        BY <1>1, <3>2
      <4>2. lines[i + 1] = <<>>
        BY <2>4, <4>1
      <4>3. At(lines, i, j) = CharAt(<<>>, j)
        BY <2>4, <4>1, <4>2 DEF At
      <4> QED
        BY <2>3, <3>1, <3>2, <4>3
    <3>3. CASE i = b.row
      <4>1. i + 1 \in 1..Len(b.lines) /\ ~(i + 1 <= b.row) /\ i < Len(b.lines) /\ ~(i < b.row)
        BY <1>1, <3>3
      <4>2. At(lines, i, j) = CharAt(line, j)
        BY <2>4, <3>3, <4>1 DEF At
      <4>3. At(b.lines, i, j) = CharAt(CursorLine(b), j)
        BY <3>3, <4>1 DEF At, CursorLine
      <4> QED
        BY <2>2, <3>1, <3>3, <4>1, <4>2, <4>3
    <3>4. CASE i > b.row /\ i < Len(b.lines)
      <4>1. i + 1 \in 1..Len(b.lines) /\ ~(i + 1 <= b.row) /\ i + 1 # b.row + 1 /\ ~(i < b.row) /\ i # b.row
        BY <1>1, <3>4
      <4> QED
        BY <2>4, <3>1, <3>4, <4>1 DEF At
    <3>5. CASE ~(i < Len(b.lines))
      <4>1. ~(i < b.row) /\ i # b.row
        BY <1>1, <3>5
      <4> QED
        BY <2>4, <3>1, <3>5, <4>1 DEF At
    <3>6. b.row \in Nat
      BY <1>1
    <3>7. i < b.row \/ i = b.row \/ i > b.row
      BY <3>6
    <3> QED
      BY <3>2, <3>3, <3>4, <3>5, <3>7, Zenon
  <2>6. places \in SUBSET (Nat \X Nat)
    OBVIOUS
  <2>7. left \in SUBSET s.cells
    OBVIOUS
  <2>8. \A c \in s.cells : c \in left <=> <<c.row, c.col>> \notin places
    BY <1>1, <1>2
  <2> HIDE DEF places, left
  <2>9. lines \in Seq(Lines)
    BY <2>4
  <2>10. b.row < Len(lines)
    BY <1>1, <2>4
  <2>11. Agree([b EXCEPT !.lines = lines], [s EXCEPT !.cells = left, !.rows = Len(lines)])
    BY <2>5, <2>6, <2>7, <2>8, <2>9, <2>10, ErasedAgree
  <2>12. [s EXCEPT !.cells = left, !.rows = Len(lines)] = [s EXCEPT !.cells = left]
    BY <1>1, <1>b, <2>4 DEF Terminals
  <2> QED
    BY <2>1, <2>11, <2>12 DEF left
<1>5. ASSUME mode \in {2, 3}
      PROVE  Agree(EraseDisplay(b, mode), [Blank EXCEPT !.savedRow = s.savedRow, !.savedCol = s.savedCol])
  <2> DEFINE cleared == [b EXCEPT !.lines = <<<<>>>>, !.row = 0, !.col = 0]
  <2>1. EraseDisplay(b, mode) = cleared
    BY <1>a, <1>5 DEF EraseDisplay, Buffers
  <2>2. <<<<>>>> \in Seq(Lines) /\ Len(<<<<>>>>) = 1 /\ <<<<>>>>[1] = <<>>
    <3>1. <<>> \in Lines
      BY DEF Lines
    <3> QED
      BY <3>1
  <2>3. \A i, j \in Nat : At(<<<<>>>>, i, j) = " "
    <3> TAKE i, j \in Nat
    <3> DEFINE empty == <<>>
               only == <<empty>>
    <3>1. Len(empty) = 0 /\ ~(j < 0) /\ Len(only) = 1 /\ (i < 1 => i + 1 = 1) /\ only[1] = empty
      BY <2>2
    <3> HIDE DEF empty, only
    <3>2. CharAt(empty, j) = " "
      BY <3>1 DEF CharAt
    <3>3. At(only, i, j) = " "
      BY <3>1, <3>2 DEF At
    <3> QED
      BY <3>3 DEF only, empty
  <2>4. BufferSound(cleared) /\ cleared.lines = <<<<>>>> /\ cleared.row = 0 /\ cleared.col = 0
        /\ cleared.savedRow = b.savedRow /\ cleared.savedCol = b.savedCol
    <3> DEFINE only == <<<<>>>>
    <3>1. only \in Seq(Lines) /\ Len(only) = 1
      BY <2>2
    <3> HIDE DEF only
    <3>2. [b EXCEPT !.lines = only, !.row = 0, !.col = 0] \in Buffers
      BY <1>a, <3>1 DEF Buffers
    <3> QED
      BY <1>a, <3>1, <3>2 DEF only, BufferSound, Buffers
  <2> DEFINE t == [Blank EXCEPT !.savedRow = s.savedRow, !.savedCol = s.savedCol]
  <2>5. t.cells = {} /\ t.rows = 1 /\ t.row = 0 /\ t.col = 0 /\ t.savedRow = s.savedRow /\ t.savedCol = s.savedCol
    BY DEF Blank
  <2>6. t \in Terminals
    BY <1>b DEF Blank, Terminals
  <2>7. \A c \in CellSet : c.row \in Nat /\ c.col \in Nat /\ c.char # " "
    BY DEF CellSet, Chars, Printables
  <2> HIDE DEF t, cleared
  <2>8. Len(cleared.lines) = 1
    BY <2>2, <2>4
  <2>9. \A c \in CellSet : c \in t.cells <=> At(cleared.lines, c.row, c.col) = c.char
    BY <2>3, <2>4, <2>5, <2>7
  <2>10. Agree(cleared, t)
    BY <1>1, <2>4, <2>5, <2>6, <2>8, <2>9 DEF Agree
  <2> QED
    BY <2>1, <2>10 DEF t
<1>6. ASSUME mode \notin 0..3 PROVE Agree(EraseDisplay(b, mode), s)
  <2>1. mode \notin {2, 3} /\ mode # 0 /\ mode # 1
    BY <1>6
  <2>2. EraseDisplay(b, mode) = b
    BY <2>1 DEF EraseDisplay
  <2> QED
    BY <2>2
<1>7. ASSUME mode = 0
      PROVE  [s EXCEPT !.cells = {c \in s.cells : ~~(c.row < s.row \/ (c.row = s.row /\ c.col < s.col))}, !.rows = s.row + 1]
             = [[s EXCEPT !.cells = {c \in @ : ~~(c.row < s.row \/ (c.row = s.row /\ c.col < s.col))}] EXCEPT !.rows = s.row + 1]
  BY <1>b DEF Terminals
<1> QED
  BY <1>3, <1>4, <1>5, <1>6, <1>7 DEF Erase

\* What a piece is for the drawing: what is left of it, or nothing.
Seen(s, p) == IF Received(p) = <<>> THEN s ELSE Drawn(s, Received(p)[1])

\* A whole piece other than a character.
MoveOps == {"CR", "LF", "BS", "A", "B", "C", "D", "G", "H", "u"}

LEMMA MoveAgrees ==
  ASSUME NEW b, NEW s, Agree(b, s), NEW p \in Pieces, p.cut = "no", p.op \in MoveOps
  PROVE  Agree(Write(b, p), Drawn(s, p))
<1> DEFINE many == AtLeastOne(p.n)
<1>a. b \in Buffers
  BY AgreementIs
<1>1. b.row \in Nat /\ b.col \in Nat /\ b.savedRow \in Nat /\ b.savedCol \in Nat /\ b.row < Len(b.lines)
      /\ s.row = b.row /\ s.col = b.col /\ s.savedRow = b.savedRow /\ s.savedCol = b.savedCol
      /\ Len(b.lines) \in Nat
  BY AgreementIs
<1>2. many \in Nat /\ many > 0 /\ many - 1 \in Nat /\ AtLeastOne(p.m) - 1 \in Nat
  BY DEF AtLeastOne, Pieces
<1>3. \A x, n \in Nat : Back(x, n) \in Nat /\ Back(x, n) <= x
  BY DEF Back
<1>4. \A row, col \in Nat :
        /\ [b EXCEPT !.row = row] = [b EXCEPT !.row = row, !.col = b.col]
        /\ [b EXCEPT !.col = col] = [b EXCEPT !.row = b.row, !.col = col]
  BY <1>a DEF Buffers
<1>5. \A row, col \in Nat : Agree(EnsureRow([b EXCEPT !.row = row, !.col = col]), Place(s, row, col))
  BY MovedAgree
<1>6. \A row, col \in Nat : row < Len(b.lines) => Agree([b EXCEPT !.row = row, !.col = col], Place(s, row, col))
  BY MovedAgree
<1>c. \A col \in Nat : Agree([b EXCEPT !.col = col], Place(s, b.row, col))
  <2> TAKE col \in Nat
  <2>1. Agree([b EXCEPT !.row = b.row, !.col = col], Place(s, b.row, col))
    BY <1>1, <1>6
  <2>2. [b EXCEPT !.col = col] = [b EXCEPT !.row = b.row, !.col = col]
    BY <1>1, <1>4
  <2> QED
    BY <2>1, <2>2
<1>d. \A row \in Nat : row < Len(b.lines) => Agree([b EXCEPT !.row = row], Place(s, row, b.col))
  <2> TAKE row \in Nat
  <2> HAVE row < Len(b.lines)
  <2>1. Agree([b EXCEPT !.row = row, !.col = b.col], Place(s, row, b.col))
    BY <1>1, <1>6
  <2>2. [b EXCEPT !.row = row] = [b EXCEPT !.row = row, !.col = b.col]
    BY <1>1, <1>4
  <2> QED
    BY <2>1, <2>2
<1>e. \A row \in Nat : Agree(EnsureRow([b EXCEPT !.row = row]), Place(s, row, b.col))
  <2> TAKE row \in Nat
  <2>1. Agree(EnsureRow([b EXCEPT !.row = row, !.col = b.col]), Place(s, row, b.col))
    BY <1>1, <1>5
  <2>2. [b EXCEPT !.row = row] = [b EXCEPT !.row = row, !.col = b.col]
    BY <1>1, <1>4
  <2> QED
    BY <2>1, <2>2
<1>7. p.op \notin Printables \union {"marker", "replacement", "stray byte"}
  BY DEF MoveOps, Printables
<1>8. CASE p.op = "CR"
  <2>1. Write(b, p) = [b EXCEPT !.col = 0]
    BY <1>7, <1>8 DEF Write
  <2>2. Drawn(s, p) = Place(s, b.row, 0)
    BY <1>1, <1>7, <1>8 DEF Drawn
  <2>3. Agree([b EXCEPT !.col = 0], Place(s, b.row, 0))
    BY <1>c
  <2> QED
    BY <2>1, <2>2, <2>3
<1>9. CASE p.op = "LF"
  <2>1. Write(b, p) = EnsureRow([b EXCEPT !.row = b.row + 1, !.col = 0])
    BY <1>7, <1>9 DEF Write
  <2>2. Drawn(s, p) = Place(s, b.row + 1, 0)
    BY <1>1, <1>7, <1>9 DEF Drawn
  <2>3. b.row + 1 \in Nat
    BY <1>1
  <2> QED
    BY <1>5, <2>1, <2>2, <2>3
<1>10. CASE p.op = "BS"
  <2> DEFINE col == Back(b.col, 1)
  <2>0. col \in Nat
    BY <1>1, <1>3
  <2>1. Write(b, p) = [b EXCEPT !.col = col]
    BY <1>7, <1>10 DEF Write
  <2>2. Drawn(s, p) = Place(s, b.row, col)
    BY <1>1, <1>7, <1>10 DEF Drawn
  <2> HIDE DEF col
  <2>3. Agree([b EXCEPT !.col = col], Place(s, b.row, col))
    BY <1>c, <2>0
  <2> QED
    BY <2>1, <2>2, <2>3
<1>11. CASE p.op = "A"
  <2> DEFINE row == Back(b.row, many)
  <2>0. row \in Nat /\ row <= b.row
    <3> HIDE DEF many
    <3> QED
      BY <1>1, <1>2, <1>3
  <2>1. Write(b, p) = [b EXCEPT !.row = row]
    BY <1>7, <1>11 DEF Write, ApplyCSI
  <2>2. Drawn(s, p) = Place(s, row, b.col)
    BY <1>1, <1>7, <1>11 DEF Drawn
  <2> HIDE DEF row
  <2>3. row < Len(b.lines)
    BY <1>1, <2>0
  <2>4. Agree([b EXCEPT !.row = row], Place(s, row, b.col))
    BY <1>d, <2>0, <2>3
  <2> QED
    BY <2>1, <2>2, <2>4
<1>12. CASE p.op = "B"
  <2>1. Write(b, p) = EnsureRow([b EXCEPT !.row = b.row + many])
    BY <1>7, <1>12 DEF Write, ApplyCSI
  <2>2. Drawn(s, p) = Place(s, b.row + many, b.col)
    BY <1>1, <1>7, <1>12 DEF Drawn
  <2> HIDE DEF many
  <2>3. b.row + many \in Nat
    BY <1>1, <1>2
  <2>4. Agree(EnsureRow([b EXCEPT !.row = b.row + many]), Place(s, b.row + many, b.col))
    BY <1>e, <2>3
  <2> QED
    BY <2>1, <2>2, <2>4
<1>13. CASE p.op = "C"
  <2>1. Write(b, p) = [b EXCEPT !.col = b.col + many]
    BY <1>7, <1>13 DEF Write, ApplyCSI
  <2>2. Drawn(s, p) = Place(s, b.row, b.col + many)
    BY <1>1, <1>7, <1>13 DEF Drawn
  <2> HIDE DEF many
  <2>3. b.col + many \in Nat
    BY <1>1, <1>2
  <2>4. Agree([b EXCEPT !.col = b.col + many], Place(s, b.row, b.col + many))
    BY <1>c, <2>3
  <2> QED
    BY <2>1, <2>2, <2>4
<1>14. CASE p.op = "D"
  <2> DEFINE col == Back(b.col, many)
  <2>0. col \in Nat
    <3> HIDE DEF many
    <3> QED
      BY <1>1, <1>2, <1>3
  <2>1. Write(b, p) = [b EXCEPT !.col = col]
    BY <1>7, <1>14 DEF Write, ApplyCSI
  <2>2. Drawn(s, p) = Place(s, b.row, col)
    BY <1>1, <1>7, <1>14 DEF Drawn
  <2> HIDE DEF col
  <2>3. Agree([b EXCEPT !.col = col], Place(s, b.row, col))
    BY <1>c, <2>0
  <2> QED
    BY <2>1, <2>2, <2>3
<1>15. CASE p.op = "G"
  <2>1. Write(b, p) = [b EXCEPT !.col = many - 1]
    BY <1>7, <1>15 DEF Write, ApplyCSI
  <2>2. Drawn(s, p) = Place(s, b.row, many - 1)
    BY <1>1, <1>7, <1>15 DEF Drawn
  <2> HIDE DEF many
  <2>3. Agree([b EXCEPT !.col = many - 1], Place(s, b.row, many - 1))
    BY <1>2, <1>c
  <2> QED
    BY <2>1, <2>2, <2>3
<1>16. CASE p.op = "H"
  <2> DEFINE col == AtLeastOne(p.m) - 1
  <2>1. Write(b, p) = EnsureRow([b EXCEPT !.row = many - 1, !.col = col])
    BY <1>7, <1>16 DEF Write, ApplyCSI
  <2>2. Drawn(s, p) = Place(s, many - 1, col)
    BY <1>1, <1>7, <1>16 DEF Drawn
  <2>3. col \in Nat
    BY <1>2
  <2> HIDE DEF many, col
  <2> QED
    BY <1>2, <1>5, <2>1, <2>2, <2>3
<1>17. CASE p.op = "u"
  <2>1. Write(b, p) = EnsureRow([b EXCEPT !.row = b.savedRow, !.col = b.savedCol])
    BY <1>7, <1>17 DEF Write, ApplyCSI
  <2>2. Drawn(s, p) = Place(s, b.savedRow, b.savedCol)
    BY <1>1, <1>7, <1>17 DEF Drawn
  <2> QED
    BY <1>1, <1>5, <2>1, <2>2
<1> QED
  BY <1>8, <1>9, <1>10, <1>11, <1>12, <1>13, <1>14, <1>15, <1>16, <1>17 DEF MoveOps

\* A whole piece.
LEMMA WholePieceAgrees ==
  ASSUME NEW b, NEW s, Agree(b, s), NEW p \in Pieces, p.cut = "no"
  PROVE  Agree(Write(b, p), Drawn(s, p))
<1>a. b \in Buffers
  BY AgreementIs
<1>b. s \in Terminals
  BY AgreementIs
<1>1. p.n \in Nat /\ p.op \in Printables \union {"CR", "LF", "BS", "TAB"} \union Sequenced
  BY DEF Pieces
<1>2. CASE p.op \in Printables
  <2>1. Write(b, p) = WritePrintable(b, p.op)
    BY <1>2 DEF Write, Printables
  <2>2. Drawn(s, p) = Put(s, p.op)
    BY <1>2 DEF Drawn, Printables
  <2>3. p.op \in Chars
    BY <1>2 DEF Chars
  <2> QED
    BY <2>1, <2>2, <2>3, PutAgrees
<1>3. CASE p.op \in MoveOps
  BY <1>3, MoveAgrees
<1>4. CASE p.op = "TAB"
  <2> DEFINE stop == (s.col \div TabStop + 1) * TabStop
             toStop(row, col) == row = s.row /\ col \in s.col..stop - 1
  <2>1. Write(b, p) = WriteAll(b, Spaces(TabStop - (b.col % TabStop)))
    BY <1>4 DEF Write, Printables
  <2>2. Drawn(s, p) = Place(Erase(s, toStop), s.row, stop)
    BY <1>4 DEF Drawn, Printables
  <2> QED
    BY <2>1, <2>2, TabAgrees
<1>5. CASE p.op = "J"
  <2> DEFINE before(row, col) == row < s.row \/ (row = s.row /\ col < s.col)
             atOrAfter(row, col) == ~before(row, col)
  <2>1. Write(b, p) = EraseDisplay(b, p.n)
    BY <1>5 DEF Write, ApplyCSI, Printables
  <2>2. /\ p.n = 0 => Agree(EraseDisplay(b, p.n), [Erase(s, atOrAfter) EXCEPT !.rows = s.row + 1])
        /\ p.n = 1 => Agree(EraseDisplay(b, p.n), Erase(s, before))
        /\ p.n \in {2, 3} => Agree(EraseDisplay(b, p.n), [Blank EXCEPT !.savedRow = s.savedRow, !.savedCol = s.savedCol])
        /\ p.n \notin 0..3 => Agree(EraseDisplay(b, p.n), s)
    BY <1>1, EraseDisplayAgrees
  <2>3. p.n = 0 => Drawn(s, p) = [Erase(s, atOrAfter) EXCEPT !.rows = s.row + 1]
    BY <1>5 DEF Drawn, Printables
  <2>4. p.n = 1 => Drawn(s, p) = Erase(s, before)
    BY <1>5 DEF Drawn, Printables
  <2>5. p.n \in {2, 3} => Drawn(s, p) = [Blank EXCEPT !.savedRow = s.savedRow, !.savedCol = s.savedCol]
    BY <1>5 DEF Drawn, Printables
  <2>6. p.n \notin 0..3 => Drawn(s, p) = s
    <3>1. p.n \notin 0..3 => p.n # 0 /\ p.n # 1 /\ p.n \notin {2, 3}
      OBVIOUS
    <3>2. p.n # 0 /\ p.n # 1 /\ p.n \notin {2, 3} => Drawn(s, p) = s
      BY <1>5 DEF Drawn, Printables
    <3> QED
      BY <3>1, <3>2
  <2>7. p.n = 0 \/ p.n = 1 \/ p.n \in {2, 3} \/ p.n \notin 0..3
    BY <1>1
  <2> HIDE DEF before, atOrAfter
  <2> QED
    BY <2>1, <2>2, <2>3, <2>4, <2>5, <2>6, <2>7, Zenon
<1>6. CASE p.op = "K"
  <2> DEFINE lineStart(row, col) == row = s.row /\ col < s.col
             lineEnd(row, col) == row = s.row /\ col >= s.col
             line(row, col) == row = s.row
  <2>1. Write(b, p) = EraseLine(b, p.n)
    BY <1>6 DEF Write, ApplyCSI, Printables
  <2>2. /\ p.n = 1 => Agree(EraseLine(b, p.n), Erase(s, lineStart))
        /\ p.n = 2 => Agree(EraseLine(b, p.n), Place(Erase(s, line), s.row, 0))
        /\ p.n \notin {1, 2} => Agree(EraseLine(b, p.n), Erase(s, lineEnd))
    <3>1. p.n \in Nat
      BY <1>1
    <3> QED
      BY <3>1, EraseLineAgrees DEF Erase
  <2>3. p.n = 1 => Drawn(s, p) = Erase(s, lineStart)
    BY <1>6 DEF Drawn, Printables
  <2>4. p.n = 2 => Drawn(s, p) = Place(Erase(s, line), s.row, 0)
    BY <1>6 DEF Drawn, Printables
  <2>5. p.n \notin {1, 2} => Drawn(s, p) = Erase(s, lineEnd)
    BY <1>6 DEF Drawn, Printables
  <2> HIDE DEF lineStart, lineEnd, line
  <2> QED
    BY <2>1, <2>2, <2>3, <2>4, <2>5
<1>7. CASE p.op = "s"
  <2> DEFINE after == [b EXCEPT !.savedRow = b.row, !.savedCol = b.col]
             t == [s EXCEPT !.savedRow = s.row, !.savedCol = s.col]
  <2>1. Write(b, p) = after
    BY <1>7 DEF Write, ApplyCSI, Printables
  <2>2. Drawn(s, p) = t
    BY <1>7 DEF Drawn, Printables
  <2>3. after \in Buffers /\ after.lines = b.lines /\ after.row = b.row /\ after.col = b.col
        /\ after.savedRow = b.row /\ after.savedCol = b.col
    BY <1>a DEF Buffers
  <2>4. t \in Terminals /\ t.cells = s.cells /\ t.rows = s.rows /\ t.row = s.row /\ t.col = s.col
        /\ t.savedRow = s.row /\ t.savedCol = s.col
    BY <1>b DEF Terminals
  <2> HIDE DEF after, t
  <2> QED
    BY <2>1, <2>2, <2>3, <2>4 DEF Agree, BufferSound
<1>8. CASE p.op \in {"enter", "leave", "cursor shown"}
  <2>1. Write(b, p) = b
    BY <1>8 DEF Write, ApplyCSI, Printables
  <2>2. Drawn(s, p) = s
    BY <1>8 DEF Drawn, Printables
  <2> QED
    BY <2>1, <2>2
<1> QED
  BY <1>1, <1>2, <1>3, <1>4, <1>5, <1>6, <1>7, <1>8 DEF MoveOps, Sequenced

\* A buffer shows what its dialect draws after every piece of text, whatever was written before:
\* it places each character where the dialect's cursor is, and a sequence or a character that a
\* chunk ends within costs that one alone. (TerminalTextBuffer.write)
THEOREM PieceAgrees ==
  ASSUME NEW b, NEW s, Agree(b, s), NEW p \in Pieces
  PROVE  Agree(Write(b, p), Seen(s, p))
<1> DEFINE rest == IF p.op \in Printables THEN "replacement" ELSE "stray byte"
<1>0. p.cut # "no" => p.op \in {"wide"} \union Sequenced
  BY DEF Pieces
<1>1. CASE p.cut = "no"
  <2>1. Received(p) = <<p>>
    BY <1>1 DEF Received
  <2>2. Seen(s, p) = Drawn(s, p)
    BY <2>1 DEF Seen
  <2> QED
    BY <1>1, <2>2, WholePieceAgrees
<1>2. CASE p.cut \in {"head", "tail"} /\ (p.op \in Printables \/ p.cut = "tail")
  <2>1. Write(b, p) = WritePrintable(b, rest)
    BY <1>0, <1>2 DEF Write, Printables, Sequenced
  <2>2. Received(p) = <<Piece(rest, 0, 0)>>
    BY <1>2 DEF Received
  <2>3. Seen(s, p) = Drawn(s, Piece(rest, 0, 0))
    <3> DEFINE left == Piece(rest, 0, 0)
    <3> HIDE DEF left
    <3>1. <<left>> # <<>> /\ <<left>>[1] = left
      OBVIOUS
    <3>2. Received(p) = <<left>>
      BY <2>2 DEF left
    <3>3. Seen(s, p) = Drawn(s, left)
      BY <3>1, <3>2 DEF Seen
    <3> QED
      BY <3>3 DEF left
  <2>4. Drawn(s, Piece(rest, 0, 0)) = Put(s, rest)
    BY DEF Drawn, Piece
  <2>5. rest \in Chars
    BY DEF Chars
  <2> HIDE DEF rest
  <2> QED
    BY <2>1, <2>3, <2>4, <2>5, PutAgrees
<1>3. CASE p.cut = "head" /\ p.op \notin Printables
  <2>1. Write(b, p) = b
    BY <1>0, <1>3 DEF Write, Printables, Sequenced
  <2>2. Received(p) = <<>>
    BY <1>3 DEF Received
  <2> QED
    BY <2>1, <2>2 DEF Seen
<1> QED
  BY <1>1, <1>2, <1>3 DEF Pieces

-----------------------------------------------------------------------------
(* Induction along a sequence *)

\* What holds of 0, and of every number with its predecessor, holds of all.
LEMMA UpTo ==
  ASSUME NEW n \in Nat, NEW A, 0 \in A, \A i \in 1..n : i - 1 \in A => i \in A
  PROVE  \A i \in 0..n : i \in A
<1> DEFINE Less == {p \in Nat \X Nat : p[1] < p[2]}
           others == (0..n) \ A
<1>1. IsWellFoundedOn(Less, Nat)
  BY NatLessThanWellFounded, Zenon DEF OpToRel
<1>2. SUFFICES ASSUME others # {} PROVE FALSE
  OBVIOUS
<1>3. others \subseteq Nat
  OBVIOUS
<1>4. \A i, j \in others : ~(<<j, i>> \in Less) => i <= j
  BY <1>3
<1> HIDE DEF Less
<1>5. PICK i \in others : \A j \in others : ~(<<j, i>> \in Less)
  <2> HIDE DEF others
  <2> QED
    BY <1>1, <1>2, <1>3, WFMin
<1>6. i \in 1..n
  OBVIOUS
<1>7. i - 1 \in A
  <2> SUFFICES ASSUME i - 1 \notin A PROVE FALSE
    OBVIOUS
  <2>1. i - 1 \in others
    BY <1>6
  <2>2. i <= i - 1
    BY <1>4, <1>5, <2>1
  <2> QED
    BY <1>6, <2>2
<1> QED
  BY <1>6, <1>7

\* The values that a step gives one after the other exist.
StepsOf(S, first, n, step) ==
  {f \in [0..n -> S] : f[0] = first /\ \A i \in 1..n : f[i] = step[<<f[i - 1], i>>]}

LEMMA StepByStep ==
  ASSUME NEW S, NEW first \in S, NEW n \in Nat, NEW step \in [S \X (1..n) -> S]
  PROVE  \E f : f \in StepsOf(S, first, n, step)
<1> DEFINE A == {m \in 0..n : \E f \in [0..m -> S] : f[0] = first /\ \A i \in 1..m : f[i] = step[<<f[i - 1], i>>]}
<1>1. 0 \in A
  <2> DEFINE f == [i \in 0..0 |-> first]
  <2>1. f \in [0..0 -> S] /\ f[0] = first /\ \A i \in 1..0 : f[i] = step[<<f[i - 1], i>>]
    OBVIOUS
  <2> HIDE DEF f
  <2> QED
    BY <2>1
<1>2. ASSUME NEW m \in 1..n, m - 1 \in A PROVE m \in A
  <2>1. PICK f \in [0..m - 1 -> S] : f[0] = first /\ \A i \in 1..m - 1 : f[i] = step[<<f[i - 1], i>>]
    BY <1>2
  <2> DEFINE g == [i \in 0..m |-> IF i = m THEN step[<<f[m - 1], m>>] ELSE f[i]]
  <2>2. m - 1 \in 0..m - 1 /\ \A i \in 0..m : i # m => i \in 0..m - 1
    OBVIOUS
  <2>3. f[m - 1] \in S /\ step[<<f[m - 1], m>>] \in S
    BY <2>1, <2>2
  <2>4. g \in [0..m -> S]
    BY <2>2, <2>3
  <2>5. g[m] = step[<<f[m - 1], m>>] /\ \A i \in 0..m - 1 : g[i] = f[i]
    OBVIOUS
  <2> HIDE DEF g
  <2>6. g[0] = first
    BY <2>1, <2>5
  <2>7. \A i \in 1..m : g[i] = step[<<g[i - 1], i>>]
    <3> TAKE i \in 1..m
    <3>1. CASE i = m
      <4>1. g[m - 1] = f[m - 1]
        BY <2>2, <2>5
      <4> QED
        BY <2>5, <3>1, <4>1
    <3>2. CASE i # m
      <4>1. i \in 1..m - 1 /\ i \in 0..m - 1 /\ i - 1 \in 0..m - 1
        BY <3>2
      <4>2. f[i] = step[<<f[i - 1], i>>]
        BY <2>1, <4>1
      <4>3. g[i] = f[i] /\ g[i - 1] = f[i - 1]
        BY <2>5, <4>1
      <4> QED
        BY <4>2, <4>3
    <3> QED
      BY <3>1, <3>2
  <2> QED
    BY <2>4, <2>6, <2>7
<1> HIDE DEF A
<1>3. \A i \in 0..n : i \in A
  BY <1>1, <1>2, UpTo
<1>4. n \in A
  BY <1>3
<1> QED
  BY <1>4 DEF A, StepsOf

-----------------------------------------------------------------------------
(* Sequences of sequences, one after the other *)

\* FlattenSeq appends the sequences in their order.
LEMMA FlattenedIs ==
  ASSUME NEW T, NEW q \in Seq(Seq(T))
  PROVE  \E f \in [0..Len(q) -> Seq(T)] :
           f[0] = <<>> /\ (\A i \in 1..Len(q) : f[i] = f[i - 1] \o q[i]) /\ FlattenSeq(q) = f[Len(q)]
<1> DEFINE n == Len(q)
           first == <<>>
           S == Seq(T)
           step == [x \in S \X (1..n) |-> x[1] \o q[x[2]]]
<1>1. n \in Nat /\ first \in S
  OBVIOUS
<1>2. \A i \in 1..n : q[i] \in S
  OBVIOUS
<1>3. \A s \in S, i \in 1..n : step[<<s, i>>] = s \o q[i] /\ step[<<s, i>>] \in S
  <2> TAKE s \in S, i \in 1..n
  <2>1. step[<<s, i>>] = s \o q[i]
    OBVIOUS
  <2>2. s \o q[i] \in S
    BY <1>2
  <2> QED
    BY <2>1, <2>2
<1>4. PICK f \in [0..n -> S] : f[0] = first /\ \A i \in 1..n : f[i] = step[<<f[i - 1], i>>]
  <2>1. step \in [S \X (1..n) -> S]
    <3>1. \A x \in S \X (1..n) : x[1] \o q[x[2]] \in S
      BY <1>2
    <3> QED
      BY <3>1
  <2>2. n \in Nat
    BY <1>1
  <2>3. first \in S
    BY <1>1
  <2> HIDE DEF n, S, first, step
  <2>4. PICK f : f \in StepsOf(S, first, n, step)
    BY <2>1, <2>2, <2>3, StepByStep
  <2> QED
    BY <2>4 DEF StepsOf
<1>5. \A i \in 1..n : f[i - 1] \in S /\ f[i] = f[i - 1] \o q[i]
  <2> TAKE i \in 1..n
  <2>1. i - 1 \in 0..n
    BY <1>1
  <2>2. f[i - 1] \in S
    BY <1>4, <2>1
  <2>3. f[i] = step[<<f[i - 1], i>>]
    BY <1>4
  <2> HIDE DEF S, step
  <2> QED
    BY <1>3, <2>2, <2>3
<1>6. CASE n = 0
  <2>1. q = <<>> /\ FlattenSeq(q) = q
    BY <1>6 DEF FlattenSeq
  <2> QED
    BY <1>4, <1>5, <1>6, <2>1
<1>7. CASE n # 0
  <2> DEFINE g0 == [i \in 1..n |-> f[i]]
  <2>1. \A i \in 1..n : i # 1 => i - 1 \in 1..n
    BY <1>1
  <2>2. g0 = [i \in 1..n |-> IF i = 1 THEN q[i] ELSE g0[i - 1] \o q[i]]
    <3>1. 1 \in 1..n /\ 1 - 1 = 0
      BY <1>1, <1>7
    <3>2. f[1] = first \o q[1]
      <4>1. f[1] = f[1 - 1] \o q[1]
        BY <1>5, <3>1
      <4>2. f[1 - 1] = first
        BY <1>4, <3>1
      <4> QED
        BY <4>1, <4>2
    <3>3. first \o q[1] = q[1]
      BY <1>2, <3>1
    <3>4. \A i \in 1..n : g0[i] = IF i = 1 THEN q[i] ELSE g0[i - 1] \o q[i]
      <4> TAKE i \in 1..n
      <4>1. CASE i = 1
        BY <3>2, <3>3, <4>1
      <4>2. CASE i # 1
        BY <1>5, <2>1, <4>2
      <4> QED
        BY <4>1, <4>2
    <3> QED
      BY <3>4
  <2> HIDE DEF g0
  <2>3. PICK g : g = [i \in 1..n |-> IF i = 1 THEN q[i] ELSE g[i - 1] \o q[i]] /\ FlattenSeq(q) = g[n]
    BY <1>7, <2>2 DEF FlattenSeq
  <2> DEFINE h == [i \in 0..n |-> IF i = 0 THEN first ELSE g[i]]
  <2>4. h[0] = first /\ \A i \in 1..n : h[i] = g[i]
    BY <1>1
  <2>5. \A i \in 1..n : g[i] = IF i = 1 THEN q[i] ELSE g[i - 1] \o q[i]
    <3> TAKE i \in 1..n
    <3> DEFINE rhs == [j \in 1..n |-> IF j = 1 THEN q[j] ELSE g[j - 1] \o q[j]]
    <3>1. rhs[i] = IF i = 1 THEN q[i] ELSE g[i - 1] \o q[i]
      OBVIOUS
    <3> HIDE DEF rhs
    <3>2. g = rhs
      BY <2>3 DEF rhs
    <3> QED
      BY <3>1, <3>2
  <2> HIDE DEF h
  <2>6. ASSUME NEW i \in 1..n, f[i - 1] = h[i - 1] PROVE f[i] = h[i]
    <3>1. CASE i = 1
      <4>1. f[0] = first /\ i - 1 = 0 /\ f[i] = f[i - 1] \o q[i]
        <5>1. i - 1 = 0
          BY <3>1
        <5>2. f[0] = first
          BY <1>4
        <5> QED
          BY <1>5, <5>1, <5>2
      <4>2. first \o q[1] = q[1]
        BY <1>2, <3>1
      <4> QED
        BY <2>4, <2>5, <3>1, <4>1, <4>2
    <3>2. CASE i # 1
      <4>1. h[i - 1] = g[i - 1] /\ h[i] = g[i] /\ g[i] = g[i - 1] \o q[i]
        BY <2>1, <2>4, <2>5, <3>2
      <4> QED
        BY <1>5, <2>6, <4>1
    <3> QED
      BY <3>1, <3>2
  <2>7. \A i \in 0..n : f[i] = h[i]
    <3>1. f[0] = h[0]
      BY <1>4, <2>4
    <3> DEFINE A == {i \in 0..n : f[i] = h[i]}
    <3>2. n \in Nat
      BY <1>1
    <3>3. 0 \in A /\ \A i \in 1..n : i - 1 \in A => i \in A
      BY <2>6, <3>1, <3>2
    <3> HIDE DEF n, A
    <3>4. \A i \in 0..n : i \in A
      BY <3>2, <3>3, UpTo
    <3> QED
      BY <3>4 DEF A
  <2>8. FlattenSeq(q) = f[n]
    <3>1. n \in 1..n /\ n \in 0..n
      BY <1>1, <1>7
    <3> QED
      BY <2>3, <2>4, <2>7, <3>1
  <2> QED
    BY <1>4, <1>5, <2>8
<1> QED
  BY <1>6, <1>7

\* One sequence more.
LEMMA FlattenAppend ==
  ASSUME NEW T, NEW q \in Seq(Seq(T)), NEW x \in Seq(T)
  PROVE  FlattenSeq(q) \in Seq(T) /\ FlattenSeq(Append(q, x)) = FlattenSeq(q) \o x
<1> DEFINE n == Len(q)
           p == Append(q, x)
<1>1. n \in Nat /\ p \in Seq(Seq(T)) /\ Len(p) = n + 1 /\ p[n + 1] = x /\ \A i \in 1..n : p[i] = q[i]
  OBVIOUS
<1>2. PICK f \in [0..n -> Seq(T)] :
        f[0] = <<>> /\ (\A i \in 1..n : f[i] = f[i - 1] \o q[i]) /\ FlattenSeq(q) = f[n]
  BY FlattenedIs
<1>3. PICK g \in [0..Len(p) -> Seq(T)] :
        g[0] = <<>> /\ (\A i \in 1..Len(p) : g[i] = g[i - 1] \o p[i]) /\ FlattenSeq(p) = g[Len(p)]
  <2> HIDE DEF p
  <2> QED
    BY <1>1, FlattenedIs
<1> HIDE DEF p, n
<1>4. \A i \in 1..n : i \in 1..Len(p)
  BY <1>1
<1>5. \A i \in 1..n : f[i - 1] = g[i - 1] => f[i] = g[i]
  BY <1>1, <1>2, <1>3, <1>4
<1>6. \A i \in 0..n : f[i] = g[i]
  <2> DEFINE A == {i \in 0..n : f[i] = g[i]}
  <2>1. f[0] = g[0]
    BY <1>2, <1>3
  <2>2. n \in Nat
    BY <1>1
  <2>3. 0 \in A /\ \A i \in 1..n : i - 1 \in A => i \in A
    BY <1>5, <2>1, <2>2
  <2> HIDE DEF A
  <2>4. \A i \in 0..n : i \in A
    BY <2>2, <2>3, UpTo
  <2> QED
    BY <2>4 DEF A
<1>7. n \in 0..n /\ n + 1 \in 1..Len(p) /\ (n + 1) - 1 = n
  BY <1>1
<1>8. g[n + 1] = g[n] \o x
  BY <1>1, <1>3, <1>7
<1> QED
  BY <1>1, <1>2, <1>3, <1>6, <1>7, <1>8 DEF p

LEMMA FlattenNothing == FlattenSeq(<<>>) = <<>>
BY DEF FlattenSeq

-----------------------------------------------------------------------------
(* The drawing after a text *)

\* What a text has: whole pieces, what is left of the others, and the resizes that are marked.
Kept == {p \in Pieces : p.cut = "no"} \union {Piece("replacement", 0, 0), Piece("stray byte", 0, 0)}
Resize == Piece("resize", 0, 0)
TextPieces == Kept \union {Resize}
Marker == Piece("marker", 0, 0)
NewLine == Piece("LF", 0, 0)
ScreenPieces == Kept \union {Marker}

WriteKept(b, p) == IF p.op \in {"marker", "replacement", "stray byte"} THEN WritePrintable(b, p.op) ELSE Write(b, p)

GoodBuffers == {b \in Buffers : \E s : Agree(b, s)}
GoodTerminals == {s \in Terminals : \E b : Agree(b, s)}

LEMMA PiecesAre ==
  ASSUME NEW p \in Pieces
  PROVE  p.op \in Printables \union {"CR", "LF", "BS", "TAB"} \union Sequenced /\ p.cut \in {"no", "head", "tail"}
BY DEF Pieces, Printables

LEMMA KeptAgrees ==
  ASSUME NEW b, NEW s, Agree(b, s), NEW p \in ScreenPieces
  PROVE  Agree(WriteKept(b, p), Drawn(s, p))
<1>1. CASE p \in {Marker, Piece("replacement", 0, 0), Piece("stray byte", 0, 0)}
  <2>1. p.op \in {"marker", "replacement", "stray byte"}
    <3>1. \A op : Piece(op, 0, 0).op = op
      BY DEF Piece
    <3> QED
      BY <1>1, <3>1 DEF Marker
  <2>2. Drawn(s, p) = Put(s, p.op)
    BY <2>1 DEF Drawn, Printables
  <2>3. WriteKept(b, p) = WritePrintable(b, p.op)
    BY <2>1 DEF WriteKept
  <2>4. p.op \in Chars
    BY <2>1 DEF Chars
  <2> QED
    BY <2>2, <2>3, <2>4, PutAgrees
<1>2. CASE p \in Pieces /\ p.cut = "no"
  <2>1. p.op \notin {"marker", "replacement", "stray byte"}
    BY <1>2, PiecesAre DEF Printables, Sequenced
  <2>2. WriteKept(b, p) = Write(b, p)
    BY <2>1 DEF WriteKept
  <2> QED
    BY <1>2, <2>2, WholePieceAgrees
<1> QED
  BY <1>1, <1>2 DEF ScreenPieces, Kept

LEMMA NewAgrees == Agree(NewBuffer, Blank) /\ NewBuffer \in GoodBuffers /\ Blank \in GoodTerminals
<1>1. NewBuffer \in Buffers /\ Len(NewBuffer.lines) = 1 /\ NewBuffer.lines[1] = <<>> /\ NewBuffer.row = 0 /\ NewBuffer.col = 0
      /\ NewBuffer.savedRow = 0 /\ NewBuffer.savedCol = 0
  <2> DEFINE only == <<<<>>>>
  <2>1. only \in Seq(Lines) /\ Len(only) = 1 /\ only[1] = <<>>
    <3>1. <<>> \in Lines
      BY DEF Lines
    <3> QED
      BY <3>1
  <2> HIDE DEF only
  <2> QED
    BY <2>1 DEF NewBuffer, Buffers, only
<1>2. Blank \in Terminals /\ Blank.cells = {} /\ Blank.rows = 1 /\ Blank.row = 0 /\ Blank.col = 0
      /\ Blank.savedRow = 0 /\ Blank.savedCol = 0
  BY DEF Blank, Terminals
<1>3. \A i, j \in Nat : At(NewBuffer.lines, i, j) = " "
  <2> TAKE i, j \in Nat
  <2> DEFINE empty == <<>>
             only == NewBuffer.lines
  <2>1. Len(empty) = 0 /\ ~(j < 0) /\ (i < 1 => i + 1 = 1)
    OBVIOUS
  <2>2. Len(only) = 1 /\ only[1] = empty
    BY <1>1
  <2> HIDE DEF empty, only
  <2>3. CharAt(empty, j) = " "
    BY <2>1 DEF CharAt
  <2>4. At(only, i, j) = " "
    BY <2>1, <2>2, <2>3 DEF At
  <2> QED
    BY <2>4 DEF only
<1>4. \A c \in CellSet : c.row \in Nat /\ c.col \in Nat /\ c.char # " "
  BY DEF CellSet, Chars, Printables
<1>5. Agree(NewBuffer, Blank)
  <2>1. BufferSound(NewBuffer)
    BY <1>1 DEF BufferSound
  <2>2. ASSUME NEW c \in CellSet PROVE c \in Blank.cells <=> At(NewBuffer.lines, c.row, c.col) = c.char
    <3>1. At(NewBuffer.lines, c.row, c.col) = " " /\ c.char # " "
      BY <1>3, <1>4
    <3> QED
      BY <1>2, <3>1
  <2> QED
    BY <1>1, <1>2, <2>1, <2>2 DEF Agree
<1> QED
  BY <1>1, <1>2, <1>5 DEF GoodBuffers, GoodTerminals

LEMMA AgreeGood ==
  ASSUME NEW b, NEW s, Agree(b, s)
  PROVE  b \in GoodBuffers /\ s \in GoodTerminals
BY AgreementIs DEF GoodBuffers, GoodTerminals

LEMMA SentGood ==
  ASSUME NEW s \in GoodTerminals, NEW p \in ScreenPieces
  PROVE  Drawn(s, p) \in GoodTerminals
<1>1. PICK b : Agree(b, s)
  BY DEF GoodTerminals
<1> QED
  BY <1>1, KeptAgrees, AgreeGood

LEMMA ScreensAre ==
  ASSUME NEW text \in Seq(ScreenPieces)
  PROVE  /\ \A i \in 0..Len(text) : Drawings(text)[i] \in GoodTerminals
         /\ Drawings(text)[0] = Blank
         /\ \A i \in 1..Len(text) : Drawings(text)[i] = Drawn(Drawings(text)[i - 1], text[i])
<1> DEFINE n == Len(text)
           S == GoodTerminals
           step == [x \in S \X (1..n) |-> Drawn(x[1], text[x[2]])]
           Next0(g) == [i \in 0..n |-> IF i = 0 THEN Blank ELSE Drawn(g[i - 1], text[i])]
<1>1. n \in Nat /\ \A i \in 1..n : text[i] \in ScreenPieces
  OBVIOUS
<1>2. step \in [S \X (1..n) -> S]
  <2>1. \A x \in S \X (1..n) : Drawn(x[1], text[x[2]]) \in S
    <3> TAKE x \in S \X (1..n)
    <3>1. x[1] \in GoodTerminals
      OBVIOUS
    <3>2. text[x[2]] \in ScreenPieces
      BY <1>1
    <3> QED
      BY <3>1, <3>2, SentGood
  <2> QED
    BY <2>1
<1>3. PICK f : f \in StepsOf(S, Blank, n, step)
  <2>1. Blank \in S
    BY NewAgrees
  <2>2. n \in Nat
    BY <1>1
  <2> HIDE DEF n, S, step
  <2> QED
    BY <1>2, <2>1, <2>2, StepByStep
<1>4. f \in [0..n -> S] /\ f[0] = Blank /\ \A i \in 1..n : f[i] = step[<<f[i - 1], i>>]
  BY <1>3 DEF StepsOf
<1>5. \A i \in 1..n : f[i] = Drawn(f[i - 1], text[i])
  <2> TAKE i \in 1..n
  <2>1. i - 1 \in 0..n
    BY <1>1
  <2>2. f[i - 1] \in S
    BY <1>4, <2>1
  <2>3. step[<<f[i - 1], i>>] = Drawn(f[i - 1], text[i])
    BY <2>2
  <2> QED
    BY <1>4, <2>3
<1>6. f = Next0(f)
  <2>1. f = [i \in 0..n |-> f[i]]
    BY <1>4
  <2>2. \A i \in 0..n : f[i] = IF i = 0 THEN Blank ELSE Drawn(f[i - 1], text[i])
    <3> TAKE i \in 0..n
    <3>1. i # 0 => i \in 1..n
      BY <1>1
    <3> QED
      BY <1>4, <1>5, <3>1
  <2> QED
    BY <2>1, <2>2
<1> DEFINE g == Drawings(text)
<1>7. g = Next0(g)
  BY <1>6 DEF Drawings
<1> HIDE DEF g
<1>8. \A i \in 0..n : g[i] = IF i = 0 THEN Blank ELSE Drawn(g[i - 1], text[i])
  <2> TAKE i \in 0..n
  <2>1. Next0(g)[i] = IF i = 0 THEN Blank ELSE Drawn(g[i - 1], text[i])
    OBVIOUS
  <2> HIDE DEF Next0
  <2> QED
    BY <1>7, <2>1
<1>9. g[0] = Blank /\ \A i \in 1..n : g[i] = Drawn(g[i - 1], text[i])
  BY <1>1, <1>8
<1> DEFINE A == {i \in 0..n : g[i] \in S}
<1>10. \A i \in 0..n : i \in A
  <2>1. 0 \in A
    BY <1>1, <1>9, NewAgrees
  <2>2. \A i \in 1..n : i - 1 \in A => i \in A
    <3> TAKE i \in 1..n
    <3> HAVE i - 1 \in A
    <3>1. g[i - 1] \in GoodTerminals /\ text[i] \in ScreenPieces
      BY <1>1
    <3>2. Drawn(g[i - 1], text[i]) \in GoodTerminals
      BY <3>1, SentGood
    <3> QED
      BY <1>9, <3>2
  <2>3. n \in Nat
    BY <1>1
  <2> HIDE DEF A, n
  <2> QED
    BY <2>1, <2>2, <2>3, UpTo
<1> QED
  BY <1>9, <1>10 DEF g

\* One piece more.
LEMMA ScreenAppend ==
  ASSUME NEW text \in Seq(ScreenPieces), NEW p \in ScreenPieces
  PROVE  Drawing(text) \in GoodTerminals /\ Drawing(Append(text, p)) = Drawn(Drawing(text), p)
<1> DEFINE n == Len(text)
           more == Append(text, p)
           f == Drawings(text)
           g == Drawings(more)
<1>1. n \in Nat /\ more \in Seq(ScreenPieces) /\ Len(more) = n + 1 /\ more[n + 1] = p /\ \A i \in 1..n : more[i] = text[i]
  OBVIOUS
<1> HIDE DEF more
<1>2. /\ \A i \in 0..n : f[i] \in GoodTerminals
      /\ f[0] = Blank /\ \A i \in 1..n : f[i] = Drawn(f[i - 1], text[i])
  BY ScreensAre
<1>3. g[0] = Blank /\ \A i \in 1..Len(more) : g[i] = Drawn(g[i - 1], more[i])
  BY <1>1, ScreensAre
<1> HIDE DEF n, f, g
<1> DEFINE A == {i \in 0..n : f[i] = g[i]}
<1>4. \A i \in 0..n : i \in A
  <2>1. 0 \in A
    BY <1>1, <1>2, <1>3
  <2>2. \A i \in 1..n : i - 1 \in A => i \in A
    <3> TAKE i \in 1..n
    <3> HAVE i - 1 \in A
    <3>1. i \in 1..Len(more)
      BY <1>1
    <3>2. f[i - 1] = g[i - 1]
      OBVIOUS
    <3>3. f[i] = Drawn(f[i - 1], text[i]) /\ g[i] = Drawn(g[i - 1], text[i])
      BY <1>1, <1>2, <1>3, <3>1
    <3>4. f[i] = g[i]
      BY <3>2, <3>3
    <3> QED
      BY <1>1, <3>4
  <2>3. n \in Nat
    BY <1>1
  <2> HIDE DEF A
  <2> QED
    BY <2>1, <2>2, <2>3, UpTo
<1>5. n \in 0..n /\ n + 1 \in 1..Len(more) /\ (n + 1) - 1 = n
  BY <1>1
<1>6. f[n] \in GoodTerminals
  BY <1>2, <1>5
<1>7. f[n] = g[n]
  BY <1>4, <1>5
<1>8. g[n + 1] = Drawn(g[n], p)
  <2>1. g[n + 1] = Drawn(g[(n + 1) - 1], more[n + 1])
    BY <1>3, <1>5
  <2> QED
    BY <1>1, <1>5, <2>1
<1> QED
  BY <1>1, <1>6, <1>7, <1>8 DEF Drawing, f, g, n, more

LEMMA ScreenOfNothing == Drawing(<<>>) = Blank
<1>1. <<>> \in Seq(ScreenPieces) /\ Len(<<>>) = 0
  OBVIOUS
<1>2. Drawings(<<>>)[0] = Blank
  BY <1>1, ScreensAre
<1> QED
  BY <1>1, <1>2 DEF Drawing

-----------------------------------------------------------------------------
(* The texts of the screens *)

LEMMA AlternateAppend ==
  ASSUME NEW text \in Seq(TextPieces), NEW p \in TextPieces
  PROVE  LET more == Append(text, p)
             n == Len(text)
         IN /\ \A i \in 1..n + 1 : InAlternate(more, i) <=> InAlternate(text, i)
            /\ InAlternate(more, n + 2) <=> p.op = "enter" \/ (p.op # "leave" /\ InAlternate(text, n + 1))
<1> DEFINE more == Append(text, p)
           n == Len(text)
<1>1. n \in Nat /\ Len(more) = n + 1 /\ more[n + 1] = p /\ \A i \in 1..n : more[i] = text[i]
  OBVIOUS
<1> HIDE DEF more, n
<1>2. ASSUME NEW i \in 1..n + 1 PROVE InAlternate(more, i) <=> InAlternate(text, i)
  <2>1. \A j \in 1..i - 1 : j \in 1..n /\ \A k \in j + 1..i - 1 : k \in 1..n
    BY <1>1
  <2>2. \A j \in 1..i - 1 : more[j] = text[j] /\ \A k \in j + 1..i - 1 : more[k] = text[k]
    BY <1>1, <2>1
  <2> QED
    BY <2>2 DEF InAlternate
<1>3. (n + 2) - 1 = n + 1 /\ (n + 1) - 1 = n
  BY <1>1
<1>4. InAlternate(more, n + 2) <=> \E j \in 1..n + 1 : more[j].op = "enter" /\ \A k \in j + 1..n + 1 : more[k].op # "leave"
  BY <1>3 DEF InAlternate
<1>5. InAlternate(text, n + 1) <=> \E j \in 1..n : text[j].op = "enter" /\ \A k \in j + 1..n : text[k].op # "leave"
  BY <1>3 DEF InAlternate
<1>6. ASSUME InAlternate(more, n + 2) PROVE p.op = "enter" \/ (p.op # "leave" /\ InAlternate(text, n + 1))
  <2>1. PICK j \in 1..n + 1 : more[j].op = "enter" /\ \A k \in j + 1..n + 1 : more[k].op # "leave"
    BY <1>4, <1>6
  <2>2. CASE j = n + 1
    BY <1>1, <2>1, <2>2
  <2>3. CASE j # n + 1
    <3>1. j \in 1..n /\ n + 1 \in j + 1..n + 1
      BY <1>1, <2>3
    <3>2. \A k \in j + 1..n : k \in 1..n /\ k \in j + 1..n + 1
      BY <1>1, <3>1
    <3>3. p.op # "leave"
      BY <1>1, <2>1, <3>1
    <3>4. text[j].op = "enter" /\ \A k \in j + 1..n : text[k].op # "leave"
      BY <1>1, <2>1, <3>1, <3>2
    <3> QED
      BY <1>5, <3>1, <3>3, <3>4
  <2> QED
    BY <2>2, <2>3
<1>7. ASSUME p.op = "enter" PROVE InAlternate(more, n + 2)
  <2>1. n + 1 \in 1..n + 1 /\ \A k \in n + 1 + 1..n + 1 : FALSE
    BY <1>1
  <2> QED
    BY <1>1, <1>4, <1>7, <2>1
<1>8. ASSUME p.op # "leave", InAlternate(text, n + 1) PROVE InAlternate(more, n + 2)
  <2>1. PICK j \in 1..n : text[j].op = "enter" /\ \A k \in j + 1..n : text[k].op # "leave"
    BY <1>5, <1>8
  <2>2. j \in 1..n + 1 /\ \A k \in j + 1..n + 1 : k = n + 1 \/ (k \in 1..n /\ k \in j + 1..n)
    BY <1>1
  <2>3. more[j].op = "enter" /\ \A k \in j + 1..n + 1 : more[k].op # "leave"
    BY <1>1, <1>8, <2>1, <2>2
  <2> QED
    BY <1>4, <2>2, <2>3
<1> QED
  BY <1>2, <1>6, <1>7, <1>8 DEF more, n

LEMMA AlternateOfNothing == ~InAlternate(<<>>, 1)
<1>1. 1..1 - 1 = {}
  OBVIOUS
<1> QED
  BY <1>1 DEF InAlternate

\* What a piece is for the main screen.
MarkerText == <<Marker, NewLine>>
MainPart(text, p, r) ==
  IF p.op = "resize" THEN MarkerText
  ELSE IF p.op \in {"enter", "leave"} THEN IF r.modeMarkers THEN MarkerText ELSE <<>>
  ELSE IF InAlternate(text, Len(text) + 1) THEN <<>> ELSE <<p>>

LEMMA PiecesKnown ==
  /\ Marker \in ScreenPieces /\ NewLine \in ScreenPieces /\ NewLine \in Pieces
  /\ MarkerText \in Seq(ScreenPieces)
  /\ Resize.op = "resize"
  /\ \A p \in TextPieces : p.op # "resize" => p \in ScreenPieces
  /\ \A p \in Kept : p.op # "resize" /\ p \in ScreenPieces /\ p \in TextPieces
<1>1. \A op : Piece(op, 0, 0).op = op
  BY DEF Piece
<1>2. NewLine \in Pieces /\ NewLine.cut = "no"
  BY DEF NewLine, Piece, Pieces
<1>3. Marker \in ScreenPieces /\ NewLine \in ScreenPieces
  BY <1>2 DEF ScreenPieces, Kept
<1>4. MarkerText \in Seq(ScreenPieces)
  BY <1>3 DEF MarkerText
<1>5. \A p \in Kept : p.op # "resize"
  <2> TAKE p \in Kept
  <2>1. CASE p \in Pieces
    BY <2>1, PiecesAre DEF Printables, Sequenced
  <2>2. CASE p \in {Piece("replacement", 0, 0), Piece("stray byte", 0, 0)}
    <3>1. p.op \in {"replacement", "stray byte"}
      BY <1>1, <2>2
    <3> QED
      BY <3>1
  <2> QED
    BY <2>1, <2>2 DEF Kept
<1>6. Resize.op = "resize"
  BY <1>1 DEF Resize
<1> QED
  BY <1>2, <1>3, <1>4, <1>5, <1>6 DEF ScreenPieces, TextPieces

LEMMA MainPartTyped ==
  ASSUME NEW text, NEW p \in TextPieces, NEW r
  PROVE  MainPart(text, p, r) \in Seq(ScreenPieces)
<1>1. MarkerText \in Seq(ScreenPieces) /\ <<>> \in Seq(ScreenPieces)
  BY PiecesKnown
<1>2. p.op # "resize" => <<p>> \in Seq(ScreenPieces)
  BY PiecesKnown
<1> QED
  BY <1>1, <1>2 DEF MainPart

MainParts(text, r) ==
  [i \in DOMAIN text |->
     IF text[i].op = "resize" THEN MarkerText
     ELSE IF text[i].op \in {"enter", "leave"} THEN IF r.modeMarkers THEN MarkerText ELSE <<>>
     ELSE IF InAlternate(text, i) THEN <<>> ELSE <<text[i]>>]

LEMMA MainTextAppend ==
  ASSUME NEW text \in Seq(TextPieces), NEW p \in TextPieces, NEW r
  PROVE  /\ MainText(text, r) \in Seq(ScreenPieces)
         /\ MainText(Append(text, p), r) = MainText(text, r) \o MainPart(text, p, r)
<1> DEFINE more == Append(text, p)
           n == Len(text)
           x == MainPart(text, p, r)
           q == MainParts(text, r)
           u == MainParts(more, r)
<1>1. /\ n \in Nat /\ DOMAIN text = 1..n /\ DOMAIN more = 1..n + 1 /\ Len(more) = n + 1
      /\ more[n + 1] = p /\ (\A i \in 1..n : more[i] = text[i] /\ text[i] \in TextPieces) /\ more \in Seq(TextPieces)
  OBVIOUS
<1>2. \A i \in 1..n + 1 : InAlternate(more, i) <=> InAlternate(text, i)
  BY AlternateAppend
<1>3. MainText(text, r) = FlattenSeq(q)
  BY DEF MainText, MainParts, MarkerText, Marker, NewLine
<1>4. MainText(more, r) = FlattenSeq(u)
  <2> HIDE DEF more
  <2> QED
    BY DEF MainText, MainParts, MarkerText, Marker, NewLine
<1> HIDE DEF more
<1>5. x \in Seq(ScreenPieces)
  BY MainPartTyped
<1>6. \A i \in 1..n : q[i] = IF text[i].op = "resize" THEN MarkerText
                            ELSE IF text[i].op \in {"enter", "leave"} THEN IF r.modeMarkers THEN MarkerText ELSE <<>>
                            ELSE IF InAlternate(text, i) THEN <<>> ELSE <<text[i]>>
  BY <1>1 DEF MainParts
<1>7. \A i \in 1..n + 1 : u[i] = IF more[i].op = "resize" THEN MarkerText
                            ELSE IF more[i].op \in {"enter", "leave"} THEN IF r.modeMarkers THEN MarkerText ELSE <<>>
                            ELSE IF InAlternate(more, i) THEN <<>> ELSE <<more[i]>>
  BY <1>1 DEF MainParts
<1>8. DOMAIN q = 1..n /\ q = [i \in 1..n |-> q[i]] /\ DOMAIN u = 1..n + 1 /\ u = [i \in 1..n + 1 |-> u[i]]
  BY <1>1 DEF MainParts
<1>9. \A i \in 1..n : u[i] = q[i] /\ q[i] \in Seq(ScreenPieces)
  <2> TAKE i \in 1..n
  <2>1. i \in 1..n + 1 /\ more[i] = text[i] /\ text[i] \in TextPieces
    BY <1>1
  <2>2. u[i] = q[i]
    BY <1>2, <1>6, <1>7, <2>1
  <2>3. MarkerText \in Seq(ScreenPieces) /\ <<>> \in Seq(ScreenPieces) /\ (text[i].op # "resize" => <<text[i]>> \in Seq(ScreenPieces))
    BY <2>1, PiecesKnown
  <2>4. q[i] \in Seq(ScreenPieces)
    BY <1>6, <2>3
  <2> QED
    BY <2>2, <2>4
<1>10. u[n + 1] = x
  <2>1. n + 1 \in 1..n + 1
    BY <1>1
  <2> QED
    BY <1>1, <1>2, <1>7, <2>1 DEF MainPart
<1> HIDE DEF q, u, x, n
<1>11. q \in Seq(Seq(ScreenPieces)) /\ Len(q) = n
  <2>1. n \in Nat
    BY <1>1
  <2>2. \A i \in 1..n : q[i] \in Seq(ScreenPieces)
    BY <1>9
  <2>3. q = [i \in 1..n |-> q[i]]
    BY <1>8
  <2> QED
    BY <2>1, <2>2, <2>3
<1>12. u \in Seq(Seq(ScreenPieces)) /\ Len(u) = n + 1
  <2>1. \A i \in 1..n + 1 : i = n + 1 \/ i \in 1..n
    BY <1>1
  <2>2. \A i \in 1..n + 1 : u[i] \in Seq(ScreenPieces)
    BY <1>5, <1>9, <1>10, <2>1
  <2>3. n + 1 \in Nat
    BY <1>1
  <2> QED
    BY <1>8, <2>2, <2>3
<1>13. u = Append(q, x)
  <2> DEFINE v == Append(q, x)
  <2>1. v \in Seq(Seq(ScreenPieces)) /\ Len(v) = n + 1 /\ v[n + 1] = x /\ \A i \in 1..n : v[i] = q[i]
    BY <1>5, <1>11
  <2> HIDE DEF v
  <2>2. \A i \in 1..n + 1 : i = n + 1 \/ i \in 1..n
    BY <1>1
  <2>3. \A i \in 1..Len(u) : u[i] = v[i]
    BY <1>9, <1>10, <1>12, <2>1, <2>2
  <2>4. u = v
    BY <1>12, <2>1, <2>3, SeqEqual
  <2> QED
    BY <2>4 DEF v
<1>14. FlattenSeq(q) \in Seq(ScreenPieces) /\ FlattenSeq(Append(q, x)) = FlattenSeq(q) \o x
  BY <1>5, <1>11, FlattenAppend
<1> QED
  BY <1>3, <1>4, <1>13, <1>14 DEF more, x

LEMMA MainTextOfNothing == ASSUME NEW r PROVE MainText(<<>>, r) = <<>>
<1> DEFINE q == MainParts(<<>>, r)
<1>1. DOMAIN <<>> = {}
  OBVIOUS
<1>2. q = <<>>
  BY <1>1 DEF MainParts
<1>3. MainText(<<>>, r) = FlattenSeq(q)
  BY DEF MainText, MainParts, MarkerText, Marker, NewLine
<1> QED
  BY <1>2, <1>3, FlattenNothing

LEMMA FlattenOfNothings ==
  ASSUME NEW T, NEW q \in Seq(Seq(T)), \A i \in 1..Len(q) : q[i] = <<>>
  PROVE  FlattenSeq(q) = <<>>
<1> DEFINE n == Len(q)
<1>1. PICK f \in [0..n -> Seq(T)] :
        f[0] = <<>> /\ (\A i \in 1..n : f[i] = f[i - 1] \o q[i]) /\ FlattenSeq(q) = f[n]
  BY FlattenedIs
<1>2. n \in Nat
  OBVIOUS
<1>3. \A i \in 1..n : q[i] = <<>>
  OBVIOUS
<1> HIDE DEF n
<1> DEFINE A == {i \in 0..n : f[i] = <<>>}
<1>4. 0 \in A
  BY <1>1, <1>2
<1>5. \A i \in 1..n : i - 1 \in A => i \in A
  <2> TAKE i \in 1..n
  <2> HAVE i - 1 \in A
  <2>1. f[i] = <<>> \o <<>>
    BY <1>1, <1>3
  <2> QED
    BY <1>2, <2>1
<1>6. \A i \in 0..n : i \in A
  <2> HIDE DEF A
  <2> QED
    BY <1>2, <1>4, <1>5, UpTo
<1> QED
  BY <1>1, <1>2, <1>6

IsLastEnter(text, i) ==
  i \in DOMAIN text /\ text[i].op = "enter" /\ \A j \in DOMAIN text : j > i => text[j].op # "enter"
Entered(text) == \E i \in DOMAIN text : text[i].op = "enter"

AlternateParts(text, last) ==
  [i \in DOMAIN text |-> IF i > last /\ text[i].op # "resize" THEN <<text[i]>> ELSE <<>>]

LEMMA LastEnterIs ==
  ASSUME NEW text \in Seq(TextPieces)
  PROVE  /\ Entered(text) => \E i : IsLastEnter(text, i)
         /\ \A i : IsLastEnter(text, i) => AlternateText(text) = FlattenSeq(AlternateParts(text, i))
<1> DEFINE n == Len(text)
           last == CHOOSE i \in DOMAIN text : text[i].op = "enter" /\ \A j \in DOMAIN text : j > i => text[j].op # "enter"
<1>1. n \in Nat /\ DOMAIN text = 1..n
  OBVIOUS
<1>2. Entered(text) => \E i : IsLastEnter(text, i)
  <2> DEFINE A == {m \in 0..n : (\E i \in 1..m : text[i].op = "enter") =>
                       \E i \in 1..m : text[i].op = "enter" /\ \A j \in 1..m : j > i => text[j].op # "enter"}
  <2>1. 0 \in A
    BY <1>1
  <2>2. ASSUME NEW m \in 1..n, m - 1 \in A PROVE m \in A
    <3>0. m \in 0..n
      BY <1>1
    <3>1. CASE text[m].op = "enter"
      <4>1. m \in 1..m /\ \A j \in 1..m : ~(j > m)
        OBVIOUS
      <4> QED
        BY <3>0, <3>1, <4>1
    <3>2. CASE text[m].op # "enter"
      <4>1. \A j \in 1..m : j = m \/ j \in 1..m - 1
        OBVIOUS
      <4>2. \A j \in 1..m - 1 : j \in 1..m
        OBVIOUS
      <4>3. (\E i \in 1..m : text[i].op = "enter") => \E i \in 1..m - 1 : text[i].op = "enter"
        BY <3>2, <4>1
      <4>4. (\E i \in 1..m : text[i].op = "enter") =>
               \E i \in 1..m - 1 : text[i].op = "enter" /\ \A j \in 1..m - 1 : j > i => text[j].op # "enter"
        BY <2>2, <4>3
      <4>5. (\E i \in 1..m : text[i].op = "enter") =>
               \E i \in 1..m : text[i].op = "enter" /\ \A j \in 1..m : j > i => text[j].op # "enter"
        BY <3>2, <4>1, <4>2, <4>4
      <4> QED
        BY <3>0, <4>5
    <3> QED
      BY <3>1, <3>2
  <2> HIDE DEF A
  <2>3. \A m \in 0..n : m \in A
    <3>1. \A m \in 1..n : m - 1 \in A => m \in A
      BY <2>2
    <3>2. n \in Nat
      BY <1>1
    <3> HIDE DEF n
    <3> QED
      BY <2>1, <3>1, <3>2, UpTo
  <2>4. n \in A
    BY <1>1, <2>3
  <2> QED
    BY <1>1, <2>4 DEF A, Entered, IsLastEnter
<1>3. ASSUME NEW i, IsLastEnter(text, i) PROVE AlternateText(text) = FlattenSeq(AlternateParts(text, i))
  <2>1. last \in DOMAIN text /\ text[last].op = "enter" /\ \A j \in DOMAIN text : j > last => text[j].op # "enter"
    <3>1. \E k \in DOMAIN text : text[k].op = "enter" /\ \A j \in DOMAIN text : j > k => text[j].op # "enter"
      BY <1>3 DEF IsLastEnter
    <3> QED
      BY <3>1
  <2> HIDE DEF last
  <2>2. i \in 1..n /\ last \in 1..n /\ ~(last > i) /\ ~(i > last)
    BY <1>1, <1>3, <2>1 DEF IsLastEnter
  <2>3. last = i
    <3>1. i \in Int /\ last \in Int
      BY <1>1, <2>2
    <3> QED
      BY <2>2, <3>1
  <2>4. AlternateText(text) = FlattenSeq(AlternateParts(text, last))
    BY DEF AlternateText, AlternateParts, last
  <2> QED
    BY <2>3, <2>4
<1> QED
  BY <1>2, <1>3

\* What a piece is for the alternate screen.
AlternatePart(p) == IF p.op = "resize" THEN <<>> ELSE <<p>>

LEMMA AlternateTextAppend ==
  ASSUME NEW text \in Seq(TextPieces), NEW p \in TextPieces
  PROVE  /\ p.op = "enter" => AlternateText(Append(text, p)) = <<>>
         /\ p.op # "enter" /\ Entered(text) =>
              /\ AlternateText(text) \in Seq(ScreenPieces) /\ AlternatePart(p) \in Seq(ScreenPieces)
              /\ AlternateText(Append(text, p)) = AlternateText(text) \o AlternatePart(p)
<1> DEFINE more == Append(text, p)
           n == Len(text)
           x == AlternatePart(p)
<1>1. /\ n \in Nat /\ DOMAIN text = 1..n /\ DOMAIN more = 1..n + 1 /\ Len(more) = n + 1
      /\ more[n + 1] = p /\ (\A i \in 1..n : more[i] = text[i] /\ text[i] \in TextPieces) /\ more \in Seq(TextPieces)
  OBVIOUS
<1> HIDE DEF more, n
<1>2. x \in Seq(ScreenPieces)
  <2>1. p.op # "resize" => p \in ScreenPieces
    BY PiecesKnown
  <2>2. <<>> \in Seq(ScreenPieces) /\ (p \in ScreenPieces => <<p>> \in Seq(ScreenPieces))
    OBVIOUS
  <2> QED
    BY <2>1, <2>2 DEF AlternatePart
<1>3. ASSUME NEW last, NEW m \in Nat, NEW t \in Seq(TextPieces), Len(t) = m
      PROVE  LET q == AlternateParts(t, last)
             IN /\ q \in Seq(Seq(ScreenPieces)) /\ Len(q) = m
                /\ \A i \in 1..m : q[i] = IF i > last /\ t[i].op # "resize" THEN <<t[i]>> ELSE <<>>
  <2> DEFINE q == AlternateParts(t, last)
  <2>1. DOMAIN t = 1..m /\ \A i \in 1..m : t[i] \in TextPieces
    BY <1>3
  <2>2. q = [i \in 1..m |-> IF i > last /\ t[i].op # "resize" THEN <<t[i]>> ELSE <<>>]
    BY <2>1 DEF AlternateParts
  <2>3. \A i \in 1..m : (IF i > last /\ t[i].op # "resize" THEN <<t[i]>> ELSE <<>>) \in Seq(ScreenPieces)
    <3> TAKE i \in 1..m
    <3>1. t[i].op # "resize" => t[i] \in ScreenPieces
      BY <2>1, PiecesKnown
    <3>2. <<>> \in Seq(ScreenPieces) /\ (t[i] \in ScreenPieces => <<t[i]>> \in Seq(ScreenPieces))
      OBVIOUS
    <3> QED
      BY <3>1, <3>2
  <2> HIDE DEF q
  <2> QED
    BY <2>2, <2>3 DEF q
<1>4. ASSUME p.op = "enter" PROVE AlternateText(more) = <<>>
  <2> DEFINE q == AlternateParts(more, n + 1)
  <2>1. IsLastEnter(more, n + 1)
    BY <1>1, <1>4 DEF IsLastEnter
  <2>2. AlternateText(more) = FlattenSeq(q)
    BY <1>1, <2>1, LastEnterIs
  <2>3. n + 1 \in Nat
    BY <1>1
  <2>4. q \in Seq(Seq(ScreenPieces)) /\ Len(q) = n + 1
        /\ \A i \in 1..n + 1 : q[i] = IF i > n + 1 /\ more[i].op # "resize" THEN <<more[i]>> ELSE <<>>
    BY <1>1, <1>3, <2>3
  <2> HIDE DEF q
  <2>5. \A i \in 1..n + 1 : ~(i > n + 1)
    BY <1>1
  <2>6. \A i \in 1..Len(q) : q[i] = <<>>
    BY <2>4, <2>5
  <2> QED
    BY <2>2, <2>4, <2>6, FlattenOfNothings
<1>5. ASSUME p.op # "enter", Entered(text)
      PROVE  AlternateText(text) \in Seq(ScreenPieces) /\ AlternateText(more) = AlternateText(text) \o x
  <2>1. PICK last : IsLastEnter(text, last)
    BY <1>5, LastEnterIs
  <2>2. last \in 1..n /\ last \in 1..n + 1 /\ n + 1 > last /\ n + 1 \in Nat
    BY <1>1, <2>1 DEF IsLastEnter
  <2>3. IsLastEnter(more, last)
    <3>1. \A j \in 1..n + 1 : j = n + 1 \/ j \in 1..n
      BY <1>1
    <3> QED
      BY <1>1, <1>5, <2>1, <2>2, <3>1 DEF IsLastEnter
  <2> DEFINE q == AlternateParts(text, last)
             u == AlternateParts(more, last)
             v == Append(q, x)
  <2>4. AlternateText(text) = FlattenSeq(q) /\ AlternateText(more) = FlattenSeq(u)
    BY <1>1, <2>1, <2>3, LastEnterIs
  <2>5. q \in Seq(Seq(ScreenPieces)) /\ Len(q) = n
        /\ \A i \in 1..n : q[i] = IF i > last /\ text[i].op # "resize" THEN <<text[i]>> ELSE <<>>
    <3>1. n = Len(text)
      BY DEF n
    <3> QED
      BY <1>1, <1>3, <3>1
  <2>6. u \in Seq(Seq(ScreenPieces)) /\ Len(u) = n + 1
        /\ \A i \in 1..n + 1 : u[i] = IF i > last /\ more[i].op # "resize" THEN <<more[i]>> ELSE <<>>
    BY <1>1, <1>3, <2>2
  <2> HIDE DEF q, u
  <2>7. u[n + 1] = x
    <3>1. n + 1 \in 1..n + 1
      BY <1>1
    <3> QED
      BY <1>1, <2>2, <2>6, <3>1 DEF AlternatePart
  <2>8. \A i \in 1..n : u[i] = q[i]
    <3>1. \A i \in 1..n : i \in 1..n + 1
      BY <1>1
    <3> QED
      BY <1>1, <2>5, <2>6, <3>1
  <2> HIDE DEF x
  <2>9. v \in Seq(Seq(ScreenPieces)) /\ Len(v) = n + 1 /\ v[n + 1] = x /\ \A i \in 1..n : v[i] = q[i]
    BY <1>2, <2>5
  <2> HIDE DEF v
  <2>10. \A i \in 1..n + 1 : i = n + 1 \/ i \in 1..n
    BY <1>1
  <2>11. \A i \in 1..Len(u) : u[i] = v[i]
    BY <2>6, <2>7, <2>8, <2>9, <2>10
  <2>12. u = v
    BY <2>6, <2>9, <2>11, SeqEqual
  <2>13. FlattenSeq(q) \in Seq(ScreenPieces) /\ FlattenSeq(Append(q, x)) = FlattenSeq(q) \o x
    BY <1>2, <2>5, FlattenAppend
  <2> QED
    BY <2>4, <2>12, <2>13 DEF v
<1> QED
  BY <1>2, <1>4, <1>5 DEF more

-----------------------------------------------------------------------------
(* Where the dialect is a terminal's *)

LEMMA PieceNumbers ==
  ASSUME NEW p \in ScreenPieces
  PROVE  p.n \in Nat /\ p.m \in Nat
<1>1. CASE p \in Pieces
  BY <1>1 DEF Pieces
<1>2. CASE p \notin Pieces
  <2>1. p \in {Piece("marker", 0, 0), Piece("replacement", 0, 0), Piece("stray byte", 0, 0)}
    BY <1>2 DEF ScreenPieces, Kept, Marker
  <2>2. \A op : Piece(op, 0, 0).n = 0 /\ Piece(op, 0, 0).m = 0
    BY DEF Piece
  <2>3. p.n = 0 /\ p.m = 0
    BY <2>1, <2>2
  <2> QED
    BY <2>3
<1> QED
  BY <1>1, <1>2

LEMMA DrawnAsSent ==
  ASSUME NEW s \in GoodTerminals, NEW p \in ScreenPieces, ~Departs(s, p)
  PROVE  Drawn(s, p) = Sent(s, p)
<1>1. /\ s.row \in Nat /\ s.col \in Nat /\ s.rows \in Nat /\ s.row < s.rows /\ s.cells \subseteq CellSet /\ s \in Terminals
  <2>1. PICK b : Agree(b, s)
    BY DEF GoodTerminals
  <2> QED
    BY <2>1 DEF Agree, BufferSound, Buffers, Terminals
<1>2. \A c \in s.cells : c.row \in Nat /\ c.col \in Nat
  BY <1>1 DEF CellSet
<1>3. p.n \in Nat
  BY PieceNumbers
<1>4. CASE p.op = "TAB"
  <2> DEFINE stop == (s.col \div TabStop + 1) * TabStop
             toStop(row, col) == row = s.row /\ col \in s.col..stop - 1
  <2>1. Drawn(s, p) = Place(Erase(s, toStop), s.row, stop) /\ Sent(s, p) = Place(s, s.row, stop)
    BY <1>4 DEF Drawn, Sent, Printables
  <2>2. \A c \in s.cells : ~toStop(c.row, c.col)
    BY <1>4 DEF Departs
  <2>3. Erase(s, toStop) = s
    <3>1. {c \in s.cells : ~toStop(c.row, c.col)} = s.cells
      BY <2>2
    <3> HIDE DEF toStop
    <3> QED
      BY <1>1, <3>1 DEF Erase, Terminals
  <2> QED
    BY <2>1, <2>3
<1>5. CASE p.op = "J"
  <2>1. CASE p.n = 1
    <3> DEFINE before(row, col) == row < s.row \/ (row = s.row /\ col < s.col)
               after(row, col) == row > s.row \/ (row = s.row /\ col > s.col)
               beforeOrAt(row, col) == ~after(row, col)
    <3>1. Drawn(s, p) = Erase(s, before) /\ Sent(s, p) = Erase(s, beforeOrAt)
      BY <1>5, <2>1 DEF Drawn, Sent, Printables
    <3>2. \A c \in s.cells : ~(c.row = s.row /\ c.col = s.col)
      BY <1>1, <1>5, <2>1 DEF Departs
    <3>3. \A c \in s.cells : before(c.row, c.col) <=> beforeOrAt(c.row, c.col)
      BY <1>1, <1>2, <3>2
    <3>4. {c \in s.cells : ~before(c.row, c.col)} = {c \in s.cells : ~beforeOrAt(c.row, c.col)}
      BY <3>3
    <3> HIDE DEF before, beforeOrAt
    <3> QED
      BY <3>1, <3>4 DEF Erase
  <2>2. CASE p.n \in {2, 3}
    <3>1. s.row = 0 /\ s.col = 0
      BY <1>5, <2>2 DEF Departs
    <3>2. Drawn(s, p) = [Blank EXCEPT !.savedRow = s.savedRow, !.savedCol = s.savedCol]
      BY <1>5, <2>2 DEF Drawn, Printables
    <3>3. Sent(s, p) = [s EXCEPT !.cells = {}, !.rows = 1]
      <4>1. CASE p.n = 2
        BY <1>5, <3>1, <4>1 DEF Sent, Printables
      <4>2. CASE p.n = 3
        <5>1. s.cells = {} /\ s.rows = 1
          BY <1>5, <4>2 DEF Departs
        <5>2. Sent(s, p) = s
          BY <1>5, <4>2 DEF Sent, Printables
        <5> QED
          BY <1>1, <5>1, <5>2 DEF Terminals
      <4> QED
        BY <2>2, <4>1, <4>2
    <3> DEFINE t == Sent(s, p)
               u == Drawn(s, p)
    <3>4. {} \in SUBSET CellSet /\ 1 \in Nat
      OBVIOUS
    <3>5. Sent(s, p) \in Terminals
      BY <1>1, <3>3, <3>4 DEF Terminals
    <3>6. t.cells = {} /\ t.rows = 1 /\ t.row = s.row /\ t.col = s.col /\ t.savedRow = s.savedRow /\ t.savedCol = s.savedCol
      BY <1>1, <3>3 DEF Terminals
    <3>7. Drawn(s, p) \in Terminals
      BY SentGood DEF GoodTerminals
    <3>8. u.cells = {} /\ u.rows = 1 /\ u.row = 0 /\ u.col = 0 /\ u.savedRow = s.savedRow /\ u.savedCol = s.savedCol
      BY <3>2 DEF Blank
    <3> HIDE DEF t, u
    <3>9. t = u
      BY <3>1, <3>5, <3>6, <3>7, <3>8 DEF Terminals, t, u
    <3> QED
      BY <3>9 DEF t, u
  <2>3. CASE p.n = 0
    <3> DEFINE before(row, col) == row < s.row \/ (row = s.row /\ col < s.col)
               notBefore(row, col) == ~before(row, col)
               atOrAfter(row, col) == row > s.row \/ (row = s.row /\ col >= s.col)
    <3>1. /\ Drawn(s, p) = [Erase(s, notBefore) EXCEPT !.rows = s.row + 1]
          /\ Sent(s, p) = [Erase(s, atOrAfter) EXCEPT !.rows = s.row + 1]
      BY <1>5, <2>3 DEF Drawn, Sent, Printables
    <3>2. \A c \in s.cells : notBefore(c.row, c.col) <=> atOrAfter(c.row, c.col)
      BY <1>1, <1>2
    <3>3. {c \in s.cells : ~notBefore(c.row, c.col)} = {c \in s.cells : ~atOrAfter(c.row, c.col)}
      BY <3>2
    <3> HIDE DEF notBefore, atOrAfter
    <3>4. Erase(s, notBefore) = Erase(s, atOrAfter)
      BY <3>3 DEF Erase
    <3> QED
      BY <3>1, <3>4
  <2>4. CASE p.n \notin {0, 1, 2, 3}
    <3>1. Drawn(s, p) = s
      BY <1>5, <2>4 DEF Drawn, Printables
    <3>2. Sent(s, p) = s
      BY <1>5, <2>4 DEF Sent, Printables
    <3> QED
      BY <3>1, <3>2
  <2> QED
    BY <2>1, <2>2, <2>3, <2>4
<1>6. CASE p.op = "K"
  <2>1. CASE p.n = 0
    BY <1>6, <2>1 DEF Drawn, Sent, Printables
  <2>2. CASE p.n = 1
    <3> DEFINE short(row, col) == row = s.row /\ col < s.col
               long(row, col) == row = s.row /\ col <= s.col
    <3>1. Drawn(s, p) = Erase(s, short) /\ Sent(s, p) = Erase(s, long)
      BY <1>6, <2>2 DEF Drawn, Sent, Printables
    <3>2. \A c \in s.cells : ~(c.row = s.row /\ c.col = s.col)
      BY <1>1, <1>6, <2>2 DEF Departs
    <3>3. \A c \in s.cells : short(c.row, c.col) <=> long(c.row, c.col)
      BY <1>1, <1>2, <3>2
    <3>4. {c \in s.cells : ~short(c.row, c.col)} = {c \in s.cells : ~long(c.row, c.col)}
      BY <3>3
    <3> HIDE DEF short, long
    <3> QED
      BY <3>1, <3>4 DEF Erase
  <2>3. CASE p.n = 2
    <3> DEFINE line(row, col) == row = s.row
               t == Erase(s, line)
    <3>1. s.col = 0
      BY <1>6, <2>3 DEF Departs
    <3>2. Drawn(s, p) = Place(t, s.row, 0) /\ Sent(s, p) = t
      BY <1>6, <2>3 DEF Drawn, Sent, Printables
    <3>3. t \in [cells : SUBSET CellSet, rows : Nat, row : Nat, col : Nat, savedRow : Nat, savedCol : Nat]
          /\ t.row = s.row /\ t.col = 0 /\ t.rows = s.rows
      BY <1>1, <3>1 DEF Erase, Terminals
    <3> HIDE DEF t
    <3>4. Place(t, s.row, 0) = t
      BY <1>1, <3>3 DEF Place
    <3> QED
      BY <3>2, <3>4
  <2>4. p.n \in {0, 1, 2}
    BY <1>3, <1>6 DEF Departs
  <2> QED
    BY <2>1, <2>2, <2>3, <2>4
<1>7. CASE p.op \notin {"TAB", "J", "K"}
  <2>1. CASE p.op \in Printables \union {"marker", "replacement", "stray byte"}
    BY <2>1 DEF Drawn, Sent, Printables
  <2>2. CASE p.op \in {"CR", "LF", "BS", "A", "B", "C", "D"}
    BY <2>2 DEF Drawn, Sent, Printables
  <2>3. CASE p.op \in {"G", "H", "s", "u"}
    BY <2>3 DEF Drawn, Sent, Printables
  <2>4. CASE p.op \in {"enter", "leave", "cursor shown"}
    BY <2>4 DEF Drawn, Sent, Printables
  <2>5. p.op \in Printables \union {"marker", "replacement", "stray byte"}
          \union {"CR", "LF", "BS", "A", "B", "C", "D"} \union {"G", "H", "s", "u"} \union {"enter", "leave", "cursor shown"}
    <3>1. \A op : Piece(op, 0, 0).op = op
      BY DEF Piece
    <3> QED
      BY <1>7, <3>1, PiecesAre DEF ScreenPieces, Kept, Marker, Sequenced
  <2> QED
    BY <2>1, <2>2, <2>3, <2>4, <2>5
<1> QED
  BY <1>4, <1>5, <1>6, <1>7

\* A terminal stays one.
LEMMA PlacedTyped ==
  ASSUME NEW s \in Terminals, NEW row \in Nat, NEW col \in Nat
  PROVE  Place(s, row, col) \in Terminals
<1> DEFINE rows == IF row < s.rows THEN s.rows ELSE row + 1
<1>1. Place(s, row, col) = [s EXCEPT !.row = row, !.col = col, !.rows = rows]
  BY DEF Place
<1>2. rows \in Nat
  BY DEF Terminals
<1> HIDE DEF rows
<1> QED
  BY <1>1, <1>2 DEF Terminals

LEMMA ErasedTyped ==
  ASSUME NEW s \in Terminals, NEW cells \in SUBSET s.cells
  PROVE  [s EXCEPT !.cells = cells] \in Terminals
BY DEF Terminals

LEMMA SentTyped ==
  ASSUME NEW s \in Terminals, NEW p \in ScreenPieces
  PROVE  Sent(s, p) \in Terminals
<1> DEFINE many == AtLeastOne(p.n)
           stop == (s.col \div TabStop + 1) * TabStop
<1>1. s.row \in Nat /\ s.col \in Nat /\ s.rows \in Nat /\ s.savedRow \in Nat /\ s.savedCol \in Nat
  BY DEF Terminals
<1>2. p.n \in Nat /\ p.m \in Nat
  BY PieceNumbers
<1>3. many \in Nat /\ many - 1 \in Nat /\ AtLeastOne(p.m) - 1 \in Nat /\ Back(s.row, many) \in Nat
      /\ Back(s.col, many) \in Nat /\ Back(s.col, 1) \in Nat /\ s.row + many \in Nat /\ s.col + many \in Nat
  BY <1>1, <1>2 DEF AtLeastOne, Back
<1>4. stop \in Nat
  <2> DEFINE n == TabStop - (s.col % TabStop)
  <2>1. n \in Nat /\ s.col + n = stop
    BY <1>1, TabStops
  <2> HIDE DEF n, stop
  <2> QED
    BY <1>1, <2>1
<1> HIDE DEF many, stop
<1>5. \A row, col \in Nat : Place(s, row, col) \in Terminals
  BY PlacedTyped
<1>7. CASE p.op \in Chars
  <2> DEFINE here(row, col) == row = s.row /\ col = s.col
             t == Erase(s, here)
             cell == [row |-> s.row, col |-> s.col, char |-> p.op]
  <2>1. t \in Terminals
    BY {c \in s.cells : ~here(c.row, c.col)} \in SUBSET s.cells, ErasedTyped DEF Erase
  <2>2. cell \in CellSet
    BY <1>1, <1>7 DEF CellSet
  <2>3. t.col = s.col
    BY DEF Erase
  <2>4. Sent(s, p) = [t EXCEPT !.cells = t.cells \union {cell}, !.col = t.col + 1]
    <3>1. Sent(s, p) = Put(s, p.op)
      BY <1>7 DEF Sent, Chars, Printables
    <3> QED
      BY <3>1 DEF Put
  <2> HIDE DEF t, cell
  <2>5. t.cells \union {cell} \in SUBSET CellSet /\ t.col + 1 \in Nat
    BY <1>1, <2>1, <2>2, <2>3 DEF Terminals
  <2> QED
    BY <2>1, <2>4, <2>5 DEF Terminals
<1>8. CASE p.op \in {"CR", "LF", "BS", "TAB"}
  <2>1. Sent(s, p) \in {Place(s, s.row, 0), Place(s, s.row + 1, 0), Place(s, s.row, Back(s.col, 1)), Place(s, s.row, stop)}
    BY <1>8 DEF Sent, Printables, stop
  <2> QED
    BY <1>1, <1>3, <1>4, <1>5, <2>1
<1>9. CASE p.op \in {"A", "B", "C", "D", "G", "H", "u"}
  <2>1. Sent(s, p) \in {Place(s, Back(s.row, many), s.col), Place(s, s.row + many, s.col), Place(s, s.row, s.col + many),
                        Place(s, s.row, Back(s.col, many)), Place(s, s.row, many - 1),
                        Place(s, many - 1, AtLeastOne(p.m) - 1), Place(s, s.savedRow, s.savedCol)}
    BY <1>9 DEF Sent, Printables, many
  <2> QED
    BY <1>1, <1>3, <1>5, <2>1
<1>10. CASE p.op = "J"
  <2>1. CASE p.n = 0
    <3> DEFINE atOrAfter(row, col) == row > s.row \/ (row = s.row /\ col >= s.col)
    <3>1. Sent(s, p) = [Erase(s, atOrAfter) EXCEPT !.rows = s.row + 1]
      BY <1>10, <2>1 DEF Sent, Printables
    <3>2. Erase(s, atOrAfter) \in Terminals
      BY {c \in s.cells : ~atOrAfter(c.row, c.col)} \in SUBSET s.cells, ErasedTyped DEF Erase
    <3> HIDE DEF atOrAfter
    <3> QED
      BY <1>1, <3>1, <3>2 DEF Terminals
  <2>2. CASE p.n = 1
    <3> DEFINE after(row, col) == row > s.row \/ (row = s.row /\ col > s.col)
               beforeOrAt(row, col) == ~after(row, col)
    <3>1. Sent(s, p) = Erase(s, beforeOrAt)
      BY <1>10, <2>2 DEF Sent, Printables
    <3>2. Erase(s, beforeOrAt) \in Terminals
      BY {c \in s.cells : ~beforeOrAt(c.row, c.col)} \in SUBSET s.cells, ErasedTyped DEF Erase
    <3> QED
      BY <3>1, <3>2
  <2>3. CASE p.n = 2
    <3>1. Sent(s, p) = [s EXCEPT !.cells = {}, !.rows = s.row + 1]
      BY <1>10, <2>3 DEF Sent, Printables
    <3>2. s.row + 1 \in Nat /\ {} \in SUBSET CellSet
      BY <1>1
    <3> QED
      BY <3>1, <3>2 DEF Terminals
  <2>4. CASE p.n \notin {0, 1, 2}
    BY <1>10, <2>4 DEF Sent, Printables
  <2> QED
    BY <2>1, <2>2, <2>3, <2>4
<1>11. CASE p.op = "K"
  <2> DEFINE lineStart(row, col) == row = s.row /\ col <= s.col
             lineEnd(row, col) == row = s.row /\ col >= s.col
             line(row, col) == row = s.row
  <2>1. Sent(s, p) \in {Erase(s, lineStart), Erase(s, lineEnd), Erase(s, line), s}
    BY <1>11 DEF Sent, Printables
  <2>2. Erase(s, lineStart) \in Terminals
    BY {c \in s.cells : ~lineStart(c.row, c.col)} \in SUBSET s.cells, ErasedTyped DEF Erase
  <2>3. Erase(s, lineEnd) \in Terminals
    BY {c \in s.cells : ~lineEnd(c.row, c.col)} \in SUBSET s.cells, ErasedTyped DEF Erase
  <2>4. Erase(s, line) \in Terminals
    BY {c \in s.cells : ~line(c.row, c.col)} \in SUBSET s.cells, ErasedTyped DEF Erase
  <2> QED
    BY <2>1, <2>2, <2>3, <2>4
<1>12. CASE p.op = "s"
  <2>1. Sent(s, p) = [s EXCEPT !.savedRow = s.row, !.savedCol = s.col]
    BY <1>12 DEF Sent, Printables
  <2> QED
    BY <1>1, <2>1 DEF Terminals
<1>13. CASE p.op \in {"enter", "leave", "cursor shown"}
  BY <1>13 DEF Sent, Printables
<1>14. \/ p.op \in Chars \union {"CR", "LF", "BS", "TAB"} \union {"A", "B", "C", "D", "G", "H", "u"}
       \/ p.op \in {"J", "K", "s"} \union {"enter", "leave", "cursor shown"}
  <2>1. \A op : Piece(op, 0, 0).op = op
    BY DEF Piece
  <2>2. CASE p \in {Piece("marker", 0, 0), Piece("replacement", 0, 0), Piece("stray byte", 0, 0)}
    BY <2>1, <2>2 DEF Chars
  <2>3. CASE p \in Pieces
    BY <2>3, PiecesAre DEF Sequenced, Chars
  <2> QED
    BY <2>2, <2>3 DEF ScreenPieces, Kept, Marker
<1> QED
  BY <1>7, <1>8, <1>9, <1>10, <1>11, <1>12, <1>13, <1>14

LEMMA TerminalsAre ==
  ASSUME NEW text \in Seq(ScreenPieces)
  PROVE  Screens(text)[0] = Blank /\ \A i \in 1..Len(text) : Screens(text)[i] = Sent(Screens(text)[i - 1], text[i])
<1> DEFINE n == Len(text)
           S == Terminals
           step == [x \in S \X (1..n) |-> Sent(x[1], text[x[2]])]
           Next0(g) == [i \in 0..n |-> IF i = 0 THEN Blank ELSE Sent(g[i - 1], text[i])]
<1>1. n \in Nat /\ \A i \in 1..n : text[i] \in ScreenPieces
  OBVIOUS
<1>2. step \in [S \X (1..n) -> S]
  <2>1. \A x \in S \X (1..n) : Sent(x[1], text[x[2]]) \in S
    BY <1>1, SentTyped
  <2> QED
    BY <2>1
<1>3. PICK f : f \in StepsOf(S, Blank, n, step)
  <2>1. Blank \in S
    BY NewAgrees DEF GoodTerminals
  <2>2. n \in Nat
    BY <1>1
  <2> HIDE DEF n, S, step
  <2> QED
    BY <1>2, <2>1, <2>2, StepByStep
<1>4. f \in [0..n -> S] /\ f[0] = Blank /\ \A i \in 1..n : f[i] = step[<<f[i - 1], i>>]
  BY <1>3 DEF StepsOf
<1>5. \A i \in 1..n : f[i] = Sent(f[i - 1], text[i])
  <2> TAKE i \in 1..n
  <2>1. i - 1 \in 0..n
    BY <1>1
  <2>2. f[i - 1] \in S
    BY <1>4, <2>1
  <2>3. step[<<f[i - 1], i>>] = Sent(f[i - 1], text[i])
    BY <2>2
  <2> QED
    BY <1>4, <2>3
<1>6. f = Next0(f)
  <2>1. f = [i \in 0..n |-> f[i]]
    BY <1>4
  <2>2. \A i \in 0..n : f[i] = IF i = 0 THEN Blank ELSE Sent(f[i - 1], text[i])
    <3> TAKE i \in 0..n
    <3>1. i # 0 => i \in 1..n
      BY <1>1
    <3> QED
      BY <1>4, <1>5, <3>1
  <2> QED
    BY <2>1, <2>2
<1> DEFINE g == Screens(text)
<1>7. g = Next0(g)
  BY <1>6 DEF Screens
<1> HIDE DEF g
<1>8. \A i \in 0..n : g[i] = IF i = 0 THEN Blank ELSE Sent(g[i - 1], text[i])
  <2> TAKE i \in 0..n
  <2>1. Next0(g)[i] = IF i = 0 THEN Blank ELSE Sent(g[i - 1], text[i])
    OBVIOUS
  <2> HIDE DEF Next0
  <2> QED
    BY <1>7, <2>1
<1>9. g[0] = Blank /\ \A i \in 1..n : g[i] = Sent(g[i - 1], text[i])
  BY <1>1, <1>8
<1> QED
  BY <1>9 DEF g

\* Where no piece of a text departs from a terminal, the dialect draws what a terminal shows.
LEMMA ConformingScreens ==
  ASSUME NEW text \in Seq(ScreenPieces), Conforms(text)
  PROVE  Screen(text) = Drawing(text)
<1> DEFINE n == Len(text)
           f == Screens(text)
           g == Drawings(text)
           A == {i \in 0..n : f[i] = g[i]}
<1>1. n \in Nat /\ DOMAIN text = 1..n /\ \A i \in 1..n : text[i] \in ScreenPieces
  OBVIOUS
<1>2. f[0] = Blank /\ \A i \in 1..n : f[i] = Sent(f[i - 1], text[i])
  BY TerminalsAre
<1>3. g[0] = Blank /\ (\A i \in 1..n : g[i] = Drawn(g[i - 1], text[i])) /\ \A i \in 0..n : g[i] \in GoodTerminals
  BY ScreensAre
<1>4. \A i \in 1..n : ~Departs(f[i - 1], text[i])
  BY <1>1 DEF Conforms
<1> HIDE DEF n, f, g
<1>5. 0 \in A
  BY <1>1, <1>2, <1>3
<1>6. ASSUME NEW i \in 1..n, i - 1 \in A PROVE i \in A
  <2>1. i \in 0..n /\ i - 1 \in 0..n /\ f[i - 1] = g[i - 1]
    BY <1>1, <1>6
  <2>2. Drawn(g[i - 1], text[i]) = Sent(g[i - 1], text[i])
    BY <1>1, <1>3, <1>4, <2>1, DrawnAsSent
  <2> QED
    BY <1>2, <1>3, <2>1, <2>2
<1>7. \A i \in 0..n : i \in A
  <2>1. \A i \in 1..n : i - 1 \in A => i \in A
    BY <1>6
  <2> HIDE DEF A
  <2> QED
    BY <1>1, <1>5, <2>1, UpTo
<1>8. f[n] = g[n]
  BY <1>1, <1>7
<1> QED
  BY <1>8 DEF Screen, Drawing, f, g, n

-----------------------------------------------------------------------------
(* The log shows the text *)

Logs == [main : GoodBuffers, alternate : GoodBuffers, on : BOOLEAN, detected : BOOLEAN, chunkIndex : Nat]

Switched(text) == \E i \in DOMAIN text : text[i].op \in {"enter", "leave"}

\* What the log of a text is.
LogShows(log, text, r) ==
  /\ log \in Logs /\ text \in Seq(TextPieces)
  /\ Agree(log.main, Drawing(MainText(text, r)))
  /\ log.on <=> InAlternate(text, Len(text) + 1)
  /\ log.on => Agree(log.alternate, Drawing(AlternateText(text)))
  /\ log.detected <=> Switched(text)

LEMMA ReceivedIs ==
  ASSUME NEW p \in Pieces
  PROVE  /\ SwitchesScreen(p) => Received(p) = <<p>> /\ p \in Kept
         /\ ~SwitchesScreen(p) =>
              \/ Received(p) = <<>>
              \/ \E k \in Kept : Received(p) = <<k>> /\ k.op \notin {"enter", "leave", "resize"}
<1>1. \A op : Piece(op, 0, 0).op = op
  BY DEF Piece
<1>2. p.op # "resize"
  BY PiecesAre DEF Printables, Sequenced
<1>3. CASE p.cut = "no"
  <2>1. Received(p) = <<p>> /\ p \in Kept
    BY <1>3 DEF Received, Kept
  <2>2. SwitchesScreen(p) <=> p.op \in {"enter", "leave"}
    BY <1>3 DEF SwitchesScreen
  <2> QED
    BY <1>2, <2>1, <2>2
<1>4. CASE p.cut # "no"
  <2>1. ~SwitchesScreen(p)
    BY <1>4 DEF SwitchesScreen
  <2> DEFINE replaced == Piece("replacement", 0, 0)
             final == Piece("stray byte", 0, 0)
  <2>2. Received(p) = <<replaced>> \/ Received(p) = <<final>> \/ Received(p) = <<>>
    BY <1>4 DEF Received
  <2>3. replaced \in Kept /\ final \in Kept
    BY DEF Kept
  <2>4. replaced.op = "replacement" /\ final.op = "stray byte"
    BY <1>1
  <2> HIDE DEF replaced, final
  <2> QED
    BY <2>1, <2>2, <2>3, <2>4
<1> QED
  BY <1>3, <1>4

LEMMA MarkerAgrees ==
  ASSUME NEW b, NEW s, Agree(b, s)
  PROVE  Agree(MarkerLine(b), Drawn(Drawn(s, Marker), NewLine))
<1>1. \A op : Piece(op, 0, 0).op = op
  BY DEF Piece
<1>2. WriteKept(b, Marker) = WriteMarker(b)
  <2>1. Marker.op = "marker"
    BY <1>1 DEF Marker
  <2> QED
    BY <2>1 DEF WriteKept, WriteMarker
<1>3. Agree(WriteMarker(b), Drawn(s, Marker))
  BY <1>2, PiecesKnown, KeptAgrees
<1>4. NewLine \in Pieces /\ NewLine.cut = "no"
  BY PiecesKnown DEF NewLine, Piece
<1>5. Agree(Write(WriteMarker(b), NewLine), Drawn(Drawn(s, Marker), NewLine))
  BY <1>3, <1>4, WholePieceAgrees
<1> QED
  BY <1>5 DEF MarkerLine, NewLine

LEMMA WritesAreGood ==
  ASSUME NEW b \in GoodBuffers
  PROVE  MarkerLine(b) \in GoodBuffers /\ \A p \in Pieces : Write(b, p) \in GoodBuffers
<1>1. PICK s : Agree(b, s)
  BY DEF GoodBuffers
<1>2. MarkerLine(b) \in GoodBuffers
  BY <1>1, MarkerAgrees, AgreeGood
<1>3. ASSUME NEW p \in Pieces PROVE Write(b, p) \in GoodBuffers
  BY <1>1, PieceAgrees, AgreeGood
<1> QED
  BY <1>2, <1>3

\* A text that was drawn, with a marker, and with a piece.
LEMMA MarkerShows ==
  ASSUME NEW text \in Seq(ScreenPieces), NEW b, Agree(b, Drawing(text))
  PROVE  Agree(MarkerLine(b), Drawing(text \o MarkerText))
<1> DEFINE one == Append(text, Marker)
<1>1. text \o MarkerText = Append(one, NewLine)
  BY DEF MarkerText
<1>2. one \in Seq(ScreenPieces) /\ Marker \in ScreenPieces /\ NewLine \in ScreenPieces
  BY PiecesKnown
<1>3. Drawing(one) = Drawn(Drawing(text), Marker)
  BY <1>2, ScreenAppend
<1> HIDE DEF one
<1>4. Drawing(Append(one, NewLine)) = Drawn(Drawing(one), NewLine)
  BY <1>2, ScreenAppend
<1> QED
  BY <1>1, <1>3, <1>4, MarkerAgrees

LEMMA PieceShows ==
  ASSUME NEW text \in Seq(ScreenPieces), NEW b, Agree(b, Drawing(text)), NEW p \in Pieces
  PROVE  /\ Received(p) = <<>> => Agree(Write(b, p), Drawing(text))
         /\ \A k \in Kept : Received(p) = <<k>> => Agree(Write(b, p), Drawing(text \o <<k>>))
<1>1. Agree(Write(b, p), Seen(Drawing(text), p))
  BY PieceAgrees
<1>2. ASSUME Received(p) = <<>> PROVE Agree(Write(b, p), Drawing(text))
  BY <1>1, <1>2 DEF Seen
<1>3. ASSUME NEW k \in Kept, Received(p) = <<k>> PROVE Agree(Write(b, p), Drawing(text \o <<k>>))
  <2>1. <<k>> # <<>> /\ <<k>>[1] = k /\ text \o <<k>> = Append(text, k)
    OBVIOUS
  <2>2. Seen(Drawing(text), p) = Drawn(Drawing(text), k)
    BY <1>3, <2>1 DEF Seen
  <2>3. k \in ScreenPieces
    BY PiecesKnown
  <2>4. Drawing(Append(text, k)) = Drawn(Drawing(text), k)
    BY <2>3, ScreenAppend
  <2> QED
    BY <1>1, <2>1, <2>2, <2>4
<1> QED
  BY <1>2, <1>3

\* One piece more in the text.
LEMMA TextAppend ==
  ASSUME NEW text \in Seq(TextPieces), NEW k \in TextPieces, NEW r
  PROVE  LET more == Append(text, k)
         IN /\ more \in Seq(TextPieces) /\ Len(more) = Len(text) + 1
            /\ MainText(more, r) = MainText(text, r) \o MainPart(text, k, r)
            /\ InAlternate(more, Len(more) + 1) <=> k.op = "enter" \/ (k.op # "leave" /\ InAlternate(text, Len(text) + 1))
            /\ Switched(more) <=> Switched(text) \/ k.op \in {"enter", "leave"}
            /\ InAlternate(text, Len(text) + 1) => Entered(text)
<1> DEFINE more == Append(text, k)
           n == Len(text)
<1>1. /\ n \in Nat /\ DOMAIN text = 1..n /\ DOMAIN more = 1..n + 1 /\ Len(more) = n + 1
      /\ more[n + 1] = k /\ (\A i \in 1..n : more[i] = text[i]) /\ more \in Seq(TextPieces)
  OBVIOUS
<1>2. MainText(more, r) = MainText(text, r) \o MainPart(text, k, r)
  BY MainTextAppend
<1>3. InAlternate(more, n + 2) <=> k.op = "enter" \/ (k.op # "leave" /\ InAlternate(text, n + 1))
  BY AlternateAppend
<1> HIDE DEF more, n
<1>4. Len(more) + 1 = n + 2
  BY <1>1
<1>5. Switched(more) <=> Switched(text) \/ k.op \in {"enter", "leave"}
  <2>1. \A i \in 1..n + 1 : i = n + 1 \/ i \in 1..n
    BY <1>1
  <2>2. n + 1 \in 1..n + 1 /\ \A i \in 1..n : i \in 1..n + 1
    BY <1>1
  <2> QED
    BY <1>1, <2>1, <2>2 DEF Switched
<1>6. InAlternate(text, n + 1) => Entered(text)
  <2>1. (n + 1) - 1 = n
    BY <1>1
  <2> QED
    BY <1>1, <2>1 DEF InAlternate, Entered
<1> QED
  BY <1>1, <1>2, <1>3, <1>4, <1>5, <1>6 DEF more, n

LEMMA LogIs ==
  ASSUME NEW log \in Logs
  PROVE  /\ log.main \in GoodBuffers /\ log.alternate \in GoodBuffers
         /\ log.on \in BOOLEAN /\ log.detected \in BOOLEAN /\ log.chunkIndex \in Nat
BY DEF Logs

\* A segment in the log, whatever the log is.
LEMMA SegmentGood ==
  ASSUME NEW log \in Logs, NEW p \in Pieces, NEW r
  PROVE  Segment(log, p, r) \in Logs /\ Segment(log, p, r).chunkIndex = log.chunkIndex
<1>1. MarkerLine(log.main) \in GoodBuffers /\ Write(log.main, p) \in GoodBuffers /\ Write(log.alternate, p) \in GoodBuffers
  BY LogIs, WritesAreGood
<1>2. NewBuffer \in GoodBuffers
  BY NewAgrees
<1> DEFINE marked == IF r.modeMarkers THEN MarkerLine(log.main) ELSE log.main
           on == p.op = "enter"
<1>3. marked \in GoodBuffers /\ on \in BOOLEAN
  BY <1>1, LogIs
<1> HIDE DEF marked, on
<1>4. CASE SwitchesScreen(p)
  <2>1. Segment(log, p, r) = [log EXCEPT !.detected = TRUE, !.on = on, !.alternate = NewBuffer, !.main = marked]
    BY <1>4 DEF Segment, marked, on
  <2> QED
    BY <1>2, <1>3, <2>1 DEF Logs
<1>5. CASE ~SwitchesScreen(p)
  <2>1. Segment(log, p, r) = IF log.on THEN [log EXCEPT !.alternate = Write(log.alternate, p)]
                             ELSE [log EXCEPT !.main = Write(log.main, p)]
    BY <1>5 DEF Segment
  <2> QED
    BY <1>1, <2>1 DEF Logs
<1> QED
  BY <1>4, <1>5

LEMMA SegmentShows ==
  ASSUME NEW log, NEW text, NEW r, LogShows(log, text, r), NEW p \in Pieces
  PROVE  LogShows(Segment(log, p, r), text \o Received(p), r)
<1>1. /\ log \in Logs /\ text \in Seq(TextPieces)
      /\ Agree(log.main, Drawing(MainText(text, r)))
      /\ log.on <=> InAlternate(text, Len(text) + 1)
      /\ log.on => Agree(log.alternate, Drawing(AlternateText(text)))
      /\ log.detected <=> Switched(text)
  BY DEF LogShows
<1>2. Segment(log, p, r) \in Logs
  BY <1>1, SegmentGood
<1>3. MainText(text, r) \in Seq(ScreenPieces)
  <2>1. Resize \in TextPieces
    BY DEF TextPieces
  <2> QED
    BY <1>1, <2>1, MainTextAppend
<1> DEFINE after == Segment(log, p, r)
           marked == IF r.modeMarkers THEN MarkerLine(log.main) ELSE log.main
<1>4. CASE SwitchesScreen(p)
  <2> DEFINE more == Append(text, p)
  <2>1. Received(p) = <<p>> /\ p \in Kept
    BY <1>4, ReceivedIs
  <2>2. p \in TextPieces
    BY <2>1, PiecesKnown
  <2>3. text \o Received(p) = more
    BY <1>1, <2>1
  <2>4. p.op \in {"enter", "leave"} /\ p.op # "resize"
    BY <1>4 DEF SwitchesScreen
  <2>5. /\ more \in Seq(TextPieces)
        /\ MainText(more, r) = MainText(text, r) \o MainPart(text, p, r)
        /\ InAlternate(more, Len(more) + 1) <=> p.op = "enter"
        /\ Switched(more)
    BY <1>1, <2>2, <2>4, TextAppend
  <2>6. p.op = "enter" => AlternateText(more) = <<>>
    BY <1>1, <2>2, AlternateTextAppend
  <2>7. /\ after.main = marked /\ after.alternate = NewBuffer /\ after.detected = TRUE /\ after.on = (p.op = "enter")
    <3>1. after = [log EXCEPT !.detected = TRUE, !.on = p.op = "enter", !.alternate = NewBuffer, !.main = marked]
      BY <1>4 DEF Segment
    <3> HIDE DEF marked
    <3> QED
      BY <1>1, <3>1 DEF Logs
  <2> HIDE DEF more, after
  <2>8. Agree(after.main, Drawing(MainText(more, r)))
    <3>1. CASE r.modeMarkers
      <4>1. MainPart(text, p, r) = MarkerText
        BY <2>4, <3>1 DEF MainPart
      <4>2. Agree(MarkerLine(log.main), Drawing(MainText(text, r) \o MarkerText))
        BY <1>1, <1>3, MarkerShows
      <4> QED
        BY <2>5, <2>7, <3>1, <4>1, <4>2
    <3>2. CASE ~r.modeMarkers
      <4>1. MainPart(text, p, r) = <<>>
        BY <2>4, <3>2 DEF MainPart
      <4>2. MainText(text, r) \o <<>> = MainText(text, r)
        BY <1>3
      <4> QED
        BY <1>1, <2>5, <2>7, <3>2, <4>1, <4>2
    <3> QED
      BY <3>1, <3>2
  <2>9. after.on => Agree(after.alternate, Drawing(AlternateText(more)))
    BY <2>6, <2>7, NewAgrees, ScreenOfNothing
  <2>10. LogShows(after, more, r)
    BY <1>2, <2>5, <2>7, <2>8, <2>9 DEF LogShows, after
  <2> QED
    BY <2>3, <2>10 DEF after
<1>5. CASE ~SwitchesScreen(p)
  <2>1. after = IF log.on THEN [log EXCEPT !.alternate = Write(log.alternate, p)] ELSE [log EXCEPT !.main = Write(log.main, p)]
    BY <1>5 DEF Segment
  <2>2. /\ after.on = log.on /\ after.detected = log.detected
        /\ log.on => after.main = log.main /\ after.alternate = Write(log.alternate, p)
        /\ ~log.on => after.main = Write(log.main, p)
    BY <1>1, <2>1 DEF Logs
  <2>3. log.on => Entered(text)
    <3>1. Resize \in TextPieces
      BY DEF TextPieces
    <3> QED
      BY <1>1, <3>1, TextAppend
  <2>4. log.on => AlternateText(text) \in Seq(ScreenPieces)
    <3>1. NewLine \in TextPieces /\ NewLine.op # "enter"
      <4>1. NewLine \in Kept
        BY DEF Kept, NewLine, Piece, Pieces
      <4> QED
        BY <4>1, PiecesKnown DEF NewLine, Piece
    <3> QED
      BY <1>1, <2>3, <3>1, AlternateTextAppend
  <2> HIDE DEF after
  <2>5. CASE Received(p) = <<>>
    <3>1. text \o Received(p) = text
      BY <1>1, <2>5
    <3>2. ~log.on => Agree(after.main, Drawing(MainText(text, r)))
      BY <1>1, <1>3, <2>2, <2>5, PieceShows
    <3>3. log.on => Agree(after.alternate, Drawing(AlternateText(text)))
      BY <1>1, <2>2, <2>4, <2>5, PieceShows
    <3>4. LogShows(after, text, r)
      BY <1>1, <1>2, <2>2, <3>2, <3>3 DEF LogShows, after
    <3> QED
      BY <3>1, <3>4 DEF after
  <2>6. CASE \E k \in Kept : Received(p) = <<k>> /\ k.op \notin {"enter", "leave", "resize"}
    <3>1. PICK k \in Kept : Received(p) = <<k>> /\ k.op \notin {"enter", "leave", "resize"}
      BY <2>6
    <3> DEFINE more == Append(text, k)
    <3>2. k \in TextPieces
      BY PiecesKnown
    <3>3. text \o Received(p) = more
      BY <1>1, <3>1
    <3>4. /\ more \in Seq(TextPieces)
          /\ MainText(more, r) = MainText(text, r) \o MainPart(text, k, r)
          /\ InAlternate(more, Len(more) + 1) <=> InAlternate(text, Len(text) + 1)
          /\ Switched(more) <=> Switched(text)
      BY <1>1, <3>1, <3>2, TextAppend
    <3>5. log.on => AlternateText(more) = AlternateText(text) \o <<k>>
      BY <1>1, <2>3, <3>1, <3>2, AlternateTextAppend DEF AlternatePart
    <3> HIDE DEF more
    <3>6. MainPart(text, k, r) = IF log.on THEN <<>> ELSE <<k>>
      BY <1>1, <3>1 DEF MainPart
    <3>7. log.on => Agree(after.main, Drawing(MainText(more, r)))
      <4>1. MainText(text, r) \o <<>> = MainText(text, r)
        BY <1>3
      <4> QED
        BY <1>1, <2>2, <3>4, <3>6, <4>1
    <3>8. ~log.on => Agree(after.main, Drawing(MainText(more, r)))
      <4>1. Agree(Write(log.main, p), Drawing(MainText(text, r) \o <<k>>))
        BY <1>1, <1>3, <3>1, PieceShows
      <4> QED
        BY <2>2, <3>4, <3>6, <4>1
    <3>9. log.on => Agree(after.alternate, Drawing(AlternateText(more)))
      <4>1. log.on => Agree(Write(log.alternate, p), Drawing(AlternateText(text) \o <<k>>))
        BY <1>1, <2>4, <3>1, PieceShows
      <4> QED
        BY <2>2, <3>5, <4>1
    <3>10. LogShows(after, more, r)
      <4>1. Agree(after.main, Drawing(MainText(more, r)))
        BY <3>7, <3>8
      <4> QED
        BY <1>1, <1>2, <2>2, <3>4, <3>9, <4>1 DEF LogShows, after
    <3> QED
      BY <3>3, <3>10 DEF after
  <2> QED
    BY <1>5, <2>5, <2>6, ReceivedIs
<1> QED
  BY <1>4, <1>5

\* A resize that is marked.
LEMMA ResizeShows ==
  ASSUME NEW log, NEW text, NEW r, LogShows(log, text, r)
  PROVE  LogShows([log EXCEPT !.main = MarkerLine(log.main)], Append(text, Resize), r)
<1> DEFINE after == [log EXCEPT !.main = MarkerLine(log.main)]
           more == Append(text, Resize)
<1>1. /\ log \in Logs /\ text \in Seq(TextPieces)
      /\ Agree(log.main, Drawing(MainText(text, r)))
      /\ log.on <=> InAlternate(text, Len(text) + 1)
      /\ log.on => Agree(log.alternate, Drawing(AlternateText(text)))
      /\ log.detected <=> Switched(text)
  BY DEF LogShows
<1>2. Resize \in TextPieces /\ Resize.op = "resize"
  BY PiecesKnown DEF TextPieces
<1>3. MainText(text, r) \in Seq(ScreenPieces)
  BY <1>1, <1>2, MainTextAppend
<1>4. /\ more \in Seq(TextPieces)
      /\ MainText(more, r) = MainText(text, r) \o MainPart(text, Resize, r)
      /\ InAlternate(more, Len(more) + 1) <=> InAlternate(text, Len(text) + 1)
      /\ Switched(more) <=> Switched(text)
  BY <1>1, <1>2, TextAppend
<1>5. log.on => AlternateText(more) = AlternateText(text)
  <2>1. log.on => Entered(text)
    BY <1>1, <1>2, TextAppend
  <2>2. log.on => AlternateText(text) \in Seq(ScreenPieces) /\ AlternateText(more) = AlternateText(text) \o <<>>
    BY <1>1, <1>2, <2>1, AlternateTextAppend DEF AlternatePart
  <2> QED
    BY <2>2
<1>6. MainPart(text, Resize, r) = MarkerText
  BY <1>2 DEF MainPart
<1>7. Agree(MarkerLine(log.main), Drawing(MainText(text, r) \o MarkerText))
  BY <1>1, <1>3, MarkerShows
<1>8. MarkerLine(log.main) \in GoodBuffers
  BY <1>7, AgreeGood
<1>9. /\ after \in Logs /\ after.main = MarkerLine(log.main) /\ after.alternate = log.alternate
      /\ after.on = log.on /\ after.detected = log.detected
  BY <1>1, <1>8 DEF Logs
<1> HIDE DEF after, more
<1>10. LogShows(after, more, r)
  BY <1>1, <1>4, <1>5, <1>6, <1>7, <1>9 DEF LogShows
<1> QED
  BY <1>10 DEF after, more

\* The segments of a text.
LEMMA SegmentsAre ==
  ASSUME NEW log \in Logs, NEW text \in Seq(Pieces), NEW r
  PROVE  LET after == Segments(log, text, r)
         IN /\ \A i \in 0..Len(text) : after[i] \in Logs /\ after[i].chunkIndex = log.chunkIndex
            /\ after[0] = log
            /\ \A i \in 1..Len(text) : after[i] = Segment(after[i - 1], text[i], r)
<1> DEFINE n == Len(text)
           S == Logs
           step == [x \in S \X (1..n) |-> Segment(x[1], text[x[2]], r)]
           Following(g) == [i \in 0..n |-> IF i = 0 THEN log ELSE Segment(g[i - 1], text[i], r)]
<1>1. n \in Nat /\ \A i \in 1..n : text[i] \in Pieces
  OBVIOUS
<1>2. step \in [S \X (1..n) -> S]
  <2>1. \A x \in S \X (1..n) : Segment(x[1], text[x[2]], r) \in S
    <3> TAKE x \in S \X (1..n)
    <3>1. x[1] \in Logs
      OBVIOUS
    <3>2. text[x[2]] \in Pieces
      BY <1>1
    <3> QED
      BY <3>1, <3>2, SegmentGood
  <2> QED
    BY <2>1
<1>3. PICK f : f \in StepsOf(S, log, n, step)
  <2>1. log \in S
    OBVIOUS
  <2>2. n \in Nat
    BY <1>1
  <2> HIDE DEF n, S, step
  <2> QED
    BY <1>2, <2>1, <2>2, StepByStep
<1>4. f \in [0..n -> S] /\ f[0] = log /\ \A i \in 1..n : f[i] = step[<<f[i - 1], i>>]
  BY <1>3 DEF StepsOf
<1>5. \A i \in 1..n : f[i] = Segment(f[i - 1], text[i], r)
  <2> TAKE i \in 1..n
  <2>1. i - 1 \in 0..n
    BY <1>1
  <2>2. f[i - 1] \in S
    BY <1>4, <2>1
  <2>3. step[<<f[i - 1], i>>] = Segment(f[i - 1], text[i], r)
    BY <2>2
  <2> QED
    BY <1>4, <2>3
<1>6. f = Following(f)
  <2>1. f = [i \in 0..n |-> f[i]]
    BY <1>4
  <2>2. \A i \in 0..n : f[i] = IF i = 0 THEN log ELSE Segment(f[i - 1], text[i], r)
    <3> TAKE i \in 0..n
    <3>1. i # 0 => i \in 1..n
      BY <1>1
    <3> QED
      BY <1>4, <1>5, <3>1
  <2> QED
    BY <2>1, <2>2
<1> DEFINE g == Segments(log, text, r)
<1>7. g = Following(g)
  BY <1>6 DEF Segments
<1> HIDE DEF g
<1>8. \A i \in 0..n : g[i] = IF i = 0 THEN log ELSE Segment(g[i - 1], text[i], r)
  <2> TAKE i \in 0..n
  <2>1. Following(g)[i] = IF i = 0 THEN log ELSE Segment(g[i - 1], text[i], r)
    OBVIOUS
  <2> HIDE DEF Following
  <2> QED
    BY <1>7, <2>1
<1>9. g[0] = log /\ \A i \in 1..n : g[i] = Segment(g[i - 1], text[i], r)
  BY <1>1, <1>8
<1> DEFINE A == {i \in 0..n : g[i] \in S /\ g[i].chunkIndex = log.chunkIndex}
<1>10. \A i \in 0..n : i \in A
  <2>1. 0 \in A
    BY <1>1, <1>9
  <2>2. \A i \in 1..n : i - 1 \in A => i \in A
    <3> TAKE i \in 1..n
    <3> HAVE i - 1 \in A
    <3>1. g[i - 1] \in Logs /\ g[i - 1].chunkIndex = log.chunkIndex /\ text[i] \in Pieces
      BY <1>1
    <3>2. Segment(g[i - 1], text[i], r) \in Logs /\ Segment(g[i - 1], text[i], r).chunkIndex = g[i - 1].chunkIndex
      BY <3>1, SegmentGood
    <3> QED
      BY <1>9, <3>1, <3>2
  <2>3. n \in Nat
    BY <1>1
  <2> HIDE DEF A, n
  <2> QED
    BY <2>1, <2>2, <2>3, UpTo
<1> QED
  BY <1>9, <1>10 DEF g

LEMMA ReceivedTyped ==
  ASSUME NEW p \in Pieces
  PROVE  Received(p) \in Seq(TextPieces)
<1>1. Received(p) = <<>> \/ \E k \in Kept : Received(p) = <<k>>
  BY ReceivedIs
<1>2. \A k \in Kept : k \in TextPieces
  BY PiecesKnown
<1>3. <<>> \in Seq(TextPieces) /\ \A k \in TextPieces : <<k>> \in Seq(TextPieces)
  OBVIOUS
<1> QED
  BY <1>1, <1>2, <1>3

\* What a chunk adds to the log is what it adds to the text.
LEMMA ChunkShows ==
  ASSUME NEW log, NEW sent, NEW r, LogShows(log, sent, r), NEW text \in Seq(Pieces)
  PROVE  LET received == FlattenSeq([i \in DOMAIN text |-> Received(text[i])])
         IN /\ received \in Seq(TextPieces)
            /\ LogShows(Segments(log, text, r)[Len(text)], sent \o received, r)
            /\ Segments(log, text, r)[Len(text)].chunkIndex = log.chunkIndex
<1> DEFINE n == Len(text)
           q == [i \in DOMAIN text |-> Received(text[i])]
           g == Segments(log, text, r)
<1>1. n \in Nat /\ DOMAIN text = 1..n /\ \A i \in 1..n : text[i] \in Pieces
  OBVIOUS
<1>2. q \in Seq(Seq(TextPieces)) /\ Len(q) = n /\ \A i \in 1..n : q[i] = Received(text[i])
  <2>1. \A i \in 1..n : Received(text[i]) \in Seq(TextPieces)
    BY <1>1, ReceivedTyped
  <2>2. q = [i \in 1..n |-> Received(text[i])]
    BY <1>1
  <2> HIDE DEF n
  <2> QED
    BY <1>1, <2>1, <2>2
<1>3. log \in Logs /\ sent \in Seq(TextPieces)
  BY DEF LogShows
<1>4. /\ \A i \in 0..n : g[i] \in Logs /\ g[i].chunkIndex = log.chunkIndex
      /\ g[0] = log
      /\ \A i \in 1..n : g[i] = Segment(g[i - 1], text[i], r)
  BY <1>3, SegmentsAre
<1> HIDE DEF q, g
<1>5. PICK f \in [0..n -> Seq(TextPieces)] :
        f[0] = <<>> /\ (\A i \in 1..n : f[i] = f[i - 1] \o q[i]) /\ FlattenSeq(q) = f[n]
  <2>1. q \in Seq(Seq(TextPieces))
    BY <1>2
  <2>2. \E f \in [0..Len(q) -> Seq(TextPieces)] :
          f[0] = <<>> /\ (\A i \in 1..Len(q) : f[i] = f[i - 1] \o q[i]) /\ FlattenSeq(q) = f[Len(q)]
    BY <2>1, FlattenedIs
  <2>3. Len(q) = n
    BY <1>2
  <2> HIDE DEF n
  <2> QED
    BY <2>2, <2>3
<1> HIDE DEF n
<1> DEFINE A == {i \in 0..n : LogShows(g[i], sent \o f[i], r)}
<1>6. 0 \in A
  <2>1. sent \o f[0] = sent
    BY <1>3, <1>5
  <2>2. 0 \in 0..n
    BY <1>1
  <2> QED
    BY <1>4, <2>1, <2>2
<1>7. ASSUME NEW i \in 1..n, i - 1 \in A PROVE i \in A
  <2>1. LogShows(g[i - 1], sent \o f[i - 1], r)
    BY <1>7
  <2>2. LogShows(Segment(g[i - 1], text[i], r), (sent \o f[i - 1]) \o Received(text[i]), r)
    BY <1>1, <2>1, SegmentShows
  <2>3. i - 1 \in 0..n /\ i \in 0..n
    BY <1>1
  <2>4. (sent \o f[i - 1]) \o Received(text[i]) = sent \o f[i]
    <3> DEFINE x == f[i - 1]
               y == Received(text[i])
    <3>1. x \in Seq(TextPieces) /\ y \in Seq(TextPieces)
      BY <1>1, <1>5, <2>3, ReceivedTyped
    <3>2. f[i] = x \o y
      BY <1>2, <1>5
    <3> HIDE DEF x, y
    <3>3. (sent \o x) \o y = sent \o (x \o y)
      BY <1>3, <3>1
    <3> QED
      BY <3>2, <3>3 DEF x, y
  <2> QED
    BY <1>4, <2>2, <2>3, <2>4
<1>8. \A i \in 0..n : i \in A
  <2>1. \A i \in 1..n : i - 1 \in A => i \in A
    BY <1>7
  <2>2. n \in Nat
    BY <1>1
  <2> HIDE DEF A
  <2> QED
    BY <1>6, <2>1, <2>2, UpTo
<1>9. n \in 0..n
  BY <1>1
<1>10. f[n] \in Seq(TextPieces) /\ LogShows(g[n], sent \o f[n], r) /\ g[n].chunkIndex = log.chunkIndex
  BY <1>4, <1>5, <1>8, <1>9
<1> QED
  BY <1>5, <1>10 DEF q, g, n

-----------------------------------------------------------------------------
(* The rendered session *)

EventText(event, r) ==
  IF event.type = "resize" THEN IF r.resizeMarkers THEN <<Resize>> ELSE <<>>
  ELSE IF HasPayload(event) /\ event.stream \in r.included
  THEN FlattenSeq([i \in DOMAIN event.text |-> Received(event.text[i])]) ELSE <<>>
EventTexts(r) == [i \in DOMAIN r.events |-> EventText(r.events[i], r)]
EventChunks(r) == [i \in DOMAIN r.events |-> ChunkOf(r.events[i])]
SealedChunks == [data : Seq(Pieces), stream : STRING]

LEMMA EventTextTyped ==
  ASSUME NEW event \in RecordedEvents, NEW r
  PROVE  EventText(event, r) \in Seq(TextPieces)
<1> DEFINE text == event.text
           q == [i \in DOMAIN text |-> Received(text[i])]
<1>1. text \in Seq(Pieces)
  BY DEF RecordedEvents
<1>2. q \in Seq(Seq(TextPieces))
  <2>1. Len(text) \in Nat /\ DOMAIN text = 1..Len(text) /\ \A i \in 1..Len(text) : text[i] \in Pieces
    BY <1>1
  <2>2. \A i \in 1..Len(text) : Received(text[i]) \in Seq(TextPieces)
    BY <2>1, ReceivedTyped
  <2>3. q = [i \in 1..Len(text) |-> Received(text[i])]
    BY <2>1
  <2> QED
    BY <2>1, <2>2, <2>3
<1> HIDE DEF q
<1>3. <<>> \in Seq(TextPieces)
  OBVIOUS
<1>4. FlattenSeq(q) \in Seq(TextPieces)
  BY <1>2, <1>3, FlattenAppend
<1>5. <<Resize>> \in Seq(TextPieces)
  BY DEF TextPieces
<1> QED
  BY <1>3, <1>4, <1>5 DEF EventText, q

LEMMA ChunkTyped ==
  ASSUME NEW event \in RecordedEvents
  PROVE  /\ ChunkOf(event) \in Seq(SealedChunks)
         /\ Len(ChunkOf(event)) = IF HasPayload(event) THEN 1 ELSE 0
         /\ HasPayload(event) => ChunkOf(event)[1] = [data |-> event.text, stream |-> event.stream]
<1> DEFINE chunk == [data |-> event.text, stream |-> event.stream]
<1>1. chunk \in SealedChunks
  BY DEF RecordedEvents, SealedChunks
<1> HIDE DEF chunk
<1>2. <<chunk>> \in Seq(SealedChunks) /\ Len(<<chunk>>) = 1 /\ <<chunk>>[1] = chunk
      /\ <<>> \in Seq(SealedChunks) /\ Len(<<>>) = 0
  BY <1>1
<1>3. ChunkOf(event) = IF HasPayload(event) THEN <<chunk>> ELSE <<>>
  BY DEF ChunkOf, chunk
<1> QED
  BY <1>2, <1>3 DEF chunk

\* The chunk of an event is where the log looks for it.
LEMMA ChunkPlaced ==
  ASSUME NEW n \in Nat, NEW c \in [0..n -> Seq(SealedChunks)], NEW q,
         \A i \in 1..n : q[i] \in Seq(SealedChunks) /\ c[i] = c[i - 1] \o q[i],
         NEW i \in 1..n, Len(q[i]) = 1
  PROVE  c[n][Len(c[i - 1]) + 1] = q[i][1]
<1> DEFINE at == Len(c[i - 1]) + 1
           x == q[i][1]
           A == {j \in 0..n : i <= j => at \in 1..Len(c[j]) /\ c[j][at] = x}
<1>1. \A j \in 0..n : c[j] \in Seq(SealedChunks) /\ Len(c[j]) \in Nat
  OBVIOUS
<1>2. i - 1 \in 0..n
  OBVIOUS
<1>3. at \in Nat /\ at > 0
  BY <1>1, <1>2
<1>4. at \in 1..Len(c[i]) /\ c[i][at] = x
  <2> DEFINE a == c[i - 1]
             d == q[i]
  <2>1. a \in Seq(SealedChunks) /\ d \in Seq(SealedChunks) /\ Len(d) = 1 /\ c[i] = a \o d /\ at = Len(a) + 1 /\ x = d[1]
    BY <1>1, <1>2
  <2> HIDE DEF a, d, at, x
  <2>2. Len(a \o d) = Len(a) + 1 /\ (a \o d)[Len(a) + 1] = d[1] /\ Len(a) \in Nat
    <3>1. a \in Seq(SealedChunks)
      BY <2>1
    <3>2. d \in Seq(SealedChunks)
      BY <2>1
    <3>3. Len(a) \in Nat /\ Len(d) = 1
      BY <2>1, <3>1
    <3>4. Len(a \o d) = Len(a) + Len(d)
          /\ \A k \in 1..Len(a) + Len(d) : (a \o d)[k] = IF k <= Len(a) THEN a[k] ELSE d[k - Len(a)]
      BY <3>1, <3>2
    <3> DEFINE m == Len(a)
    <3>5. m \in Nat
      BY <3>3
    <3> HIDE DEF m
    <3>6. m + 1 \in 1..m + 1 /\ ~(m + 1 <= m) /\ (m + 1) - m = 1
      BY <3>5
    <3> QED
      BY <3>3, <3>4, <3>6 DEF m
  <2> QED
    BY <2>1, <2>2
<1> HIDE DEF at, x
<1>5. 0 \in A
  BY <1>2
<1>6. ASSUME NEW j \in 1..n, j - 1 \in A PROVE j \in A
  <2>1. j \in 0..n /\ j - 1 \in 0..n
    OBVIOUS
  <2>2. CASE i = j
    BY <1>4, <2>1, <2>2
  <2>3. CASE i < j
    <3> DEFINE a == c[j - 1]
               d == q[j]
    <3>1. a \in Seq(SealedChunks) /\ d \in Seq(SealedChunks) /\ c[j] = a \o d
      BY <1>1, <2>1
    <3>2. i <= j - 1
      BY <2>3
    <3>3. at \in 1..Len(a) /\ a[at] = x
      BY <1>6, <3>2
    <3> HIDE DEF a, d
    <3>4. Len(a \o d) = Len(a) + Len(d) /\ Len(a) \in Nat /\ Len(d) \in Nat /\ (a \o d)[at] = a[at]
      BY <3>1, <3>3
    <3>5. at \in 1..Len(a \o d)
      BY <3>3, <3>4
    <3> QED
      BY <2>1, <3>1, <3>3, <3>4, <3>5
  <2>4. CASE j < i
    BY <2>1, <2>4
  <2> QED
    BY <2>2, <2>3, <2>4
<1>7. \A j \in 0..n : j \in A
  <2>1. \A j \in 1..n : j - 1 \in A => j \in A
    BY <1>6
  <2> HIDE DEF A
  <2> QED
    BY <1>5, <2>1, UpTo
<1>8. n \in 0..n /\ i <= n
  OBVIOUS
<1> QED
  BY <1>7, <1>8 DEF at, x

\* An event in the log.
LEMMA EventShows ==
  ASSUME NEW r, NEW log, NEW sent, LogShows(log, sent, r), NEW event \in RecordedEvents,
         HasPayload(event) => Chunks(r)[log.chunkIndex + 1] = [data |-> event.text, stream |-> event.stream]
  PROVE  /\ LogShows(RenderEvent(log, event, r), sent \o EventText(event, r), r)
         /\ RenderEvent(log, event, r).chunkIndex = log.chunkIndex + Len(ChunkOf(event))
<1> DEFINE after == RenderEvent(log, event, r)
           chunk == Chunks(r)[log.chunkIndex + 1]
           counted == [log EXCEPT !.chunkIndex = log.chunkIndex + 1]
<1>1. log \in Logs /\ sent \in Seq(TextPieces) /\ log.chunkIndex \in Nat
  BY LogIs DEF LogShows
<1>2. event.text \in Seq(Pieces)
  BY DEF RecordedEvents
<1>3. counted \in Logs /\ counted.chunkIndex = log.chunkIndex + 1 /\ counted.main = log.main
      /\ counted.alternate = log.alternate /\ counted.on = log.on /\ counted.detected = log.detected
  BY <1>1 DEF Logs
<1> HIDE DEF counted
<1>4. LogShows(counted, sent, r)
  BY <1>3 DEF LogShows
<1>5. sent \o <<>> = sent
  BY <1>1
<1>6. Len(ChunkOf(event)) = IF HasPayload(event) THEN 1 ELSE 0
  BY ChunkTyped
<1>7. CASE event.type = "resize"
  <2>1. ~HasPayload(event)
    BY <1>7 DEF HasPayload, HasPlaintext, HasCiphertext
  <2>2. CASE r.resizeMarkers
    <3>1. after = [log EXCEPT !.main = MarkerLine(log.main)]
      BY <1>7, <2>2 DEF RenderEvent
    <3>2. EventText(event, r) = <<Resize>>
      BY <1>7, <2>2 DEF EventText
    <3>3. LogShows(after, Append(sent, Resize), r)
      BY <3>1, ResizeShows
    <3>4. Append(sent, Resize) = sent \o <<Resize>>
      BY <1>1 DEF TextPieces
    <3>5. after.chunkIndex = log.chunkIndex
      BY <1>1, <3>1 DEF Logs
    <3> QED
      BY <1>1, <1>6, <2>1, <3>2, <3>3, <3>4, <3>5
  <2>3. CASE ~r.resizeMarkers
    <3>1. after = log
      BY <1>1, <1>7, <2>3 DEF RenderEvent, Logs
    <3>2. EventText(event, r) = <<>>
      BY <1>7, <2>3 DEF EventText
    <3> QED
      BY <1>1, <1>5, <1>6, <2>1, <3>1, <3>2
  <2> QED
    BY <2>2, <2>3
<1>8. CASE event.type # "resize" /\ ~HasPayload(event)
  <2>1. after = log
    BY <1>8 DEF RenderEvent
  <2>2. EventText(event, r) = <<>>
    BY <1>8 DEF EventText
  <2> QED
    BY <1>1, <1>5, <1>6, <1>8, <2>1, <2>2
<1>9. CASE event.type # "resize" /\ HasPayload(event)
  <2>1. chunk.stream = event.stream /\ chunk.data = event.text
    BY <1>9
  <2>2. NextChunk(log, chunk, r) = counted
    BY DEF NextChunk, counted
  <2>3. CASE event.stream \in r.included
    <3>1. after = Segments(counted, event.text, r)[Len(event.text)]
      BY <1>9, <2>1, <2>2, <2>3 DEF RenderEvent
    <3>2. EventText(event, r) = FlattenSeq([i \in DOMAIN event.text |-> Received(event.text[i])])
      BY <1>9, <2>3 DEF EventText
    <3>3. LogShows(after, sent \o EventText(event, r), r) /\ after.chunkIndex = counted.chunkIndex
      BY <1>2, <1>4, <3>1, <3>2, ChunkShows
    <3> QED
      BY <1>3, <1>6, <1>9, <3>3
  <2>4. CASE event.stream \notin r.included
    <3>1. after = counted
      BY <1>9, <2>1, <2>2, <2>4 DEF RenderEvent
    <3>2. EventText(event, r) = <<>>
      BY <1>9, <2>4 DEF EventText
    <3> QED
      BY <1>3, <1>4, <1>5, <1>6, <1>9, <3>1, <3>2
  <2> QED
    BY <2>3, <2>4
<1> QED
  BY <1>7, <1>8, <1>9

\* The logs of a session, one after the other, as far as they are logs.
Walks(g, r) ==
  /\ g[0] = NewLog
  /\ \A i \in 1..Len(r.events) :
       RenderEvent(g[i - 1], r.events[i], r) \in Logs => g[i] = RenderEvent(g[i - 1], r.events[i], r)

LEMMA NewShows == ASSUME NEW r PROVE LogShows(NewLog, <<>>, r) /\ NewLog \in Logs /\ NewLog.chunkIndex = 0
<1>1. NewLog \in Logs /\ NewLog.main = NewBuffer /\ NewLog.on = FALSE /\ NewLog.detected = FALSE /\ NewLog.chunkIndex = 0
  BY NewAgrees DEF NewLog, Logs
<1>2. <<>> \in Seq(TextPieces) /\ ~Switched(<<>>)
  BY DEF Switched
<1>3. ~InAlternate(<<>>, Len(<<>>) + 1)
  <2>1. Len(<<>>) + 1 = 1
    OBVIOUS
  <2> QED
    BY <2>1, AlternateOfNothing
<1>4. Drawing(MainText(<<>>, r)) = Blank
  BY MainTextOfNothing, ScreenOfNothing
<1> QED
  BY <1>1, <1>2, <1>3, <1>4, NewAgrees DEF LogShows

LEMMA WalkShows ==
  ASSUME NEW r \in RecordedSessions, NEW g, Walks(g, r)
  PROVE  /\ \A i \in 1..Len(r.events) : g[i] = RenderEvent(g[i - 1], r.events[i], r)
         /\ \A i \in 0..Len(r.events) : g[i] \in Logs
         /\ LogShows(g[Len(r.events)], SentText(r), r)
<1> DEFINE n == Len(r.events)
           p == EventTexts(r)
           q == EventChunks(r)
<1>0. r.events \in Seq(RecordedEvents)
  BY DEF RecordedSessions
<1>1. n \in Nat /\ DOMAIN r.events = 1..n /\ \A i \in 1..n : r.events[i] \in RecordedEvents
  BY <1>0
<1>2. SentText(r) = FlattenSeq(p) /\ Chunks(r) = FlattenSeq(q)
  BY DEF SentText, Chunks, EventTexts, EventChunks, EventText, Resize
<1>3. p \in Seq(Seq(TextPieces)) /\ Len(p) = n /\ \A i \in 1..n : p[i] = EventText(r.events[i], r)
  <2>1. \A i \in 1..n : EventText(r.events[i], r) \in Seq(TextPieces)
    BY <1>1, EventTextTyped
  <2>2. p = [i \in 1..n |-> EventText(r.events[i], r)]
    BY <1>1 DEF EventTexts
  <2> HIDE DEF n, p
  <2> QED
    BY <1>1, <2>1, <2>2
<1>4. q \in Seq(Seq(SealedChunks)) /\ Len(q) = n /\ \A i \in 1..n : q[i] = ChunkOf(r.events[i])
  <2>1. \A i \in 1..n : ChunkOf(r.events[i]) \in Seq(SealedChunks)
    BY <1>1, ChunkTyped
  <2>2. q = [i \in 1..n |-> ChunkOf(r.events[i])]
    BY <1>1 DEF EventChunks
  <2> HIDE DEF n, q
  <2> QED
    BY <1>1, <2>1, <2>2
<1> HIDE DEF p, q
<1>5. PICK f \in [0..n -> Seq(TextPieces)] :
        f[0] = <<>> /\ (\A i \in 1..n : f[i] = f[i - 1] \o p[i]) /\ FlattenSeq(p) = f[n]
  <2>1. p \in Seq(Seq(TextPieces))
    BY <1>3
  <2>2. \E f \in [0..Len(p) -> Seq(TextPieces)] :
          f[0] = <<>> /\ (\A i \in 1..Len(p) : f[i] = f[i - 1] \o p[i]) /\ FlattenSeq(p) = f[Len(p)]
    BY <2>1, FlattenedIs
  <2>3. Len(p) = n
    BY <1>3
  <2> HIDE DEF n
  <2> QED
    BY <2>2, <2>3
<1>6. PICK c \in [0..n -> Seq(SealedChunks)] :
        c[0] = <<>> /\ (\A i \in 1..n : c[i] = c[i - 1] \o q[i]) /\ FlattenSeq(q) = c[n]
  <2>1. q \in Seq(Seq(SealedChunks))
    BY <1>4
  <2>2. \E c \in [0..Len(q) -> Seq(SealedChunks)] :
          c[0] = <<>> /\ (\A i \in 1..Len(q) : c[i] = c[i - 1] \o q[i]) /\ FlattenSeq(q) = c[Len(q)]
    BY <2>1, FlattenedIs
  <2>3. Len(q) = n
    BY <1>4
  <2> HIDE DEF n
  <2> QED
    BY <2>2, <2>3
<1>7. g[0] = NewLog /\ \A i \in 1..n :
        RenderEvent(g[i - 1], r.events[i], r) \in Logs => g[i] = RenderEvent(g[i - 1], r.events[i], r)
  BY DEF Walks
<1> HIDE DEF n
<1>8. \A i \in 1..n : Len(q[i]) = 1 => Chunks(r)[Len(c[i - 1]) + 1] = q[i][1]
  <2> TAKE i \in 1..n
  <2> HAVE Len(q[i]) = 1
  <2>1. \A k \in 1..n : q[k] \in Seq(SealedChunks) /\ c[k] = c[k - 1] \o q[k]
    BY <1>1, <1>4, <1>6, ChunkTyped
  <2>2. c[n][Len(c[i - 1]) + 1] = q[i][1]
    BY <1>1, <2>1, ChunkPlaced
  <2> QED
    BY <1>2, <1>6, <2>2
<1> DEFINE holds(i) == /\ LogShows(g[i], f[i], r) /\ g[i].chunkIndex = Len(c[i])
                       /\ i > 0 => g[i] = RenderEvent(g[i - 1], r.events[i], r)
           A == {i \in 0..n : holds(i)}
<1>9. 0 \in A
  <2>1. 0 \in 0..n /\ ~(0 > 0)
    BY <1>1
  <2>2. LogShows(g[0], f[0], r)
    BY <1>5, <1>7, NewShows
  <2>3. g[0].chunkIndex = Len(c[0])
    <3>1. Len(<<>>) = 0
      OBVIOUS
    <3> QED
      BY <1>6, <1>7, <3>1, NewShows
  <2> QED
    BY <2>1, <2>2, <2>3
<1>10. ASSUME NEW i \in 1..n, i - 1 \in A PROVE i \in A
  <2> DEFINE log == g[i - 1]
             event == r.events[i]
             after == RenderEvent(log, event, r)
  <2>0. i \in 0..n /\ i - 1 \in 0..n
    BY <1>1
  <2>1. LogShows(log, f[i - 1], r) /\ log.chunkIndex = Len(c[i - 1])
    BY <1>10
  <2>2. event \in RecordedEvents
    BY <1>1
  <2>3. Len(ChunkOf(event)) = (IF HasPayload(event) THEN 1 ELSE 0)
        /\ (HasPayload(event) => ChunkOf(event)[1] = [data |-> event.text, stream |-> event.stream])
    BY <2>2, ChunkTyped
  <2>4. q[i] = ChunkOf(event) /\ p[i] = EventText(event, r)
    BY <1>3, <1>4
  <2>5. HasPayload(event) => Chunks(r)[log.chunkIndex + 1] = [data |-> event.text, stream |-> event.stream]
    BY <1>8, <2>1, <2>3, <2>4
  <2> HIDE DEF log, event
  <2>6. LogShows(after, f[i - 1] \o EventText(event, r), r) /\ after.chunkIndex = log.chunkIndex + Len(ChunkOf(event))
    BY <2>1, <2>2, <2>5, EventShows
  <2>7. after \in Logs
    BY <2>6 DEF LogShows
  <2> HIDE DEF after
  <2>8. g[i] = after
    BY <1>7, <2>7 DEF after, log, event
  <2>9. f[i] = f[i - 1] \o EventText(event, r)
    BY <1>5, <2>4
  <2>10. Len(c[i]) = Len(c[i - 1]) + Len(ChunkOf(event))
    <3> DEFINE a == c[i - 1]
               d == ChunkOf(event)
    <3>1. a \in Seq(SealedChunks) /\ d \in Seq(SealedChunks) /\ c[i] = a \o d
      BY <1>6, <2>0, <2>2, <2>4, ChunkTyped
    <3> HIDE DEF a, d
    <3>2. Len(a \o d) = Len(a) + Len(d)
      BY <3>1
    <3> QED
      BY <3>1, <3>2 DEF a, d
  <2>11. LogShows(g[i], f[i], r) /\ g[i].chunkIndex = Len(c[i])
    BY <2>1, <2>6, <2>8, <2>9, <2>10
  <2>12. g[i] = RenderEvent(g[i - 1], r.events[i], r)
    BY <2>8 DEF after, log, event
  <2> QED
    BY <2>0, <2>11, <2>12
<1>11. \A i \in 0..n : i \in A
  <2>1. \A i \in 1..n : i - 1 \in A => i \in A
    BY <1>10
  <2>2. n \in Nat
    BY <1>1
  <2> HIDE DEF A
  <2> QED
    BY <1>9, <2>1, <2>2, UpTo
<1>12. \A i \in 1..n : g[i] = RenderEvent(g[i - 1], r.events[i], r)
  <2> TAKE i \in 1..n
  <2>1. i \in 0..n /\ i > 0
    BY <1>1
  <2>2. i \in A
    BY <1>11, <2>1
  <2> QED
    BY <2>1, <2>2
<1>13. \A i \in 0..n : g[i] \in Logs
  <2> TAKE i \in 0..n
  <2>1. LogShows(g[i], f[i], r)
    BY <1>11
  <2> QED
    BY <2>1 DEF LogShows
<1>14. LogShows(g[n], f[n], r)
  <2>1. n \in 0..n
    BY <1>1
  <2> QED
    BY <1>11, <2>1
<1> QED
  BY <1>2, <1>5, <1>12, <1>13, <1>14 DEF n

\* Rendering a session is such a walk.
LEMMA RenderWalks ==
  ASSUME NEW r \in RecordedSessions
  PROVE  Walks(Renders(r), r)
<1> DEFINE n == Len(r.events)
           S == Logs
           Rendered(x) == RenderEvent(x[1], r.events[x[2]], r)
           step == [x \in S \X (1..n) |-> IF Rendered(x) \in Logs THEN Rendered(x) ELSE x[1]]
           Following(g) == [i \in 0..n |-> IF i = 0 THEN NewLog ELSE RenderEvent(g[i - 1], r.events[i], r)]
<1>0. r.events \in Seq(RecordedEvents)
  BY DEF RecordedSessions
<1>1. n \in Nat
  BY <1>0
<1>2. step \in [S \X (1..n) -> S]
  OBVIOUS
<1>3. PICK f : f \in StepsOf(S, NewLog, n, step)
  <2>1. NewLog \in S
    BY NewShows
  <2> HIDE DEF n, S, step
  <2> QED
    BY <1>1, <1>2, <2>1, StepByStep
<1>4. f \in [0..n -> S] /\ f[0] = NewLog /\ \A i \in 1..n : f[i] = step[<<f[i - 1], i>>]
  BY <1>3 DEF StepsOf
<1>5. Walks(f, r)
  <2>1. ASSUME NEW i \in 1..n, RenderEvent(f[i - 1], r.events[i], r) \in Logs
        PROVE  f[i] = RenderEvent(f[i - 1], r.events[i], r)
    <3>1. i - 1 \in 0..n
      BY <1>1
    <3>2. f[i - 1] \in S
      BY <1>4, <3>1
    <3>3. step[<<f[i - 1], i>>] = RenderEvent(f[i - 1], r.events[i], r)
      BY <2>1, <3>2
    <3> QED
      BY <1>4, <3>3
  <2> QED
    BY <1>4, <2>1 DEF Walks
<1>6. \A i \in 1..n : f[i] = RenderEvent(f[i - 1], r.events[i], r)
  BY <1>5, WalkShows
<1>7. f = Following(f)
  <2>1. f = [i \in 0..n |-> f[i]]
    BY <1>4
  <2>2. \A i \in 0..n : f[i] = IF i = 0 THEN NewLog ELSE RenderEvent(f[i - 1], r.events[i], r)
    <3> TAKE i \in 0..n
    <3>1. i # 0 => i \in 1..n
      BY <1>1
    <3> QED
      BY <1>4, <1>6, <3>1
  <2> QED
    BY <2>1, <2>2
<1> DEFINE g == Renders(r)
<1>8. g = Following(g)
  BY <1>7 DEF Renders
<1> HIDE DEF g
<1>9. \A i \in 0..n : g[i] = IF i = 0 THEN NewLog ELSE RenderEvent(g[i - 1], r.events[i], r)
  <2> TAKE i \in 0..n
  <2>1. Following(g)[i] = IF i = 0 THEN NewLog ELSE RenderEvent(g[i - 1], r.events[i], r)
    OBVIOUS
  <2> HIDE DEF Following
  <2> QED
    BY <1>8, <2>1
<1>10. g[0] = NewLog /\ \A i \in 1..n : g[i] = RenderEvent(g[i - 1], r.events[i], r)
  BY <1>1, <1>9
<1> QED
  BY <1>10 DEF Walks, g

\* What agrees with a drawing shows it.
LEMMA AgreementShows ==
  ASSUME NEW b, NEW s, Agree(b, s)
  PROVE  Shows(b.lines, s)
<1>1. b.lines \in Seq(Lines) /\ s.cells \subseteq CellSet /\ s.rows = Len(b.lines)
  BY AgreementIs
<1>2. CellsOf(b.lines) = {c \in CellSet : At(b.lines, c.row, c.col) = c.char}
  BY <1>1, CellsAre
<1>3. \A c \in CellSet : c \in s.cells <=> At(b.lines, c.row, c.col) = c.char
  BY DEF Agree
<1>4. CellsOf(b.lines) = s.cells
  BY <1>1, <1>2, <1>3
<1> QED
  BY <1>1, <1>4 DEF Shows

LEMMA AlternateTyped ==
  ASSUME NEW text \in Seq(TextPieces), InAlternate(text, Len(text) + 1)
  PROVE  AlternateText(text) \in Seq(ScreenPieces)
<1>1. Entered(text)
  <2>1. PICK j \in 1..(Len(text) + 1) - 1 : text[j].op = "enter"
    BY DEF InAlternate
  <2>2. j \in DOMAIN text
    BY <2>1
  <2> QED
    BY <2>1, <2>2 DEF Entered
<1>2. Resize \in TextPieces /\ Resize.op # "enter"
  BY PiecesKnown DEF TextPieces
<1> QED
  BY <1>1, <1>2, AlternateTextAppend

LEMMA TranscriptShows ==
  ASSUME recording \in Recordings
  PROVE  TranscriptFaithful
<1> DEFINE r == recording
           log == Render(r)
           text == SentText(r)
           shown == Transcript(r)
<1>1. r \in RecordedSessions
  BY ReplayAssumption
<1> HIDE DEF r
<1>2. LogShows(log, text, r)
  BY <1>1, RenderWalks, WalkShows DEF Render
<1>3. /\ log.on \in BOOLEAN /\ log.detected \in BOOLEAN
      /\ Agree(log.main, Drawing(MainText(text, r)))
      /\ log.on <=> InAlternate(text, Len(text) + 1)
      /\ log.on => Agree(log.alternate, Drawing(AlternateText(text)))
      /\ log.detected <=> Switched(text)
  BY <1>2, LogIs DEF LogShows
<1>4. /\ shown.main = log.main.lines /\ shown.detected = log.detected
      /\ shown.alternate = IF log.on /\ r.activeAlternate THEN log.alternate.lines ELSE <<>>
  BY DEF Transcript
<1> HIDE DEF log, text, shown
<1>5. Conforms(MainText(text, r)) => Shows(shown.main, Screen(MainText(text, r)))
  <2>1. MainText(text, r) \in Seq(ScreenPieces)
    <3>1. Resize \in TextPieces
      BY DEF TextPieces
    <3> QED
      BY <1>2, <3>1, MainTextAppend DEF LogShows
  <2> QED
    BY <1>3, <1>4, <2>1, AgreementShows, ConformingScreens
<1>6. IF InAlternate(text, Len(text) + 1) /\ r.activeAlternate
      THEN Conforms(AlternateText(text)) => Shows(shown.alternate, Screen(AlternateText(text))) ELSE shown.alternate = <<>>
  <2>1. InAlternate(text, Len(text) + 1) => AlternateText(text) \in Seq(ScreenPieces)
    BY <1>2, AlternateTyped DEF LogShows
  <2> QED
    BY <1>3, <1>4, <2>1, AgreementShows, ConformingScreens
<1>7. shown.detected = (\E i \in DOMAIN text : text[i].op \in {"enter", "leave"})
  BY <1>3, <1>4 DEF Switched
<1> QED
  BY <1>5, <1>6, <1>7 DEF TranscriptFaithful, shown, text, r

\* For every recording whose chunks cut no switch of the screen, the transcript shows what a
\* terminal would that was sent the included streams, on each screen where the buffer departs from
\* no terminal. (renderWebTTYRecordedTextLog, TerminalTextBuffer)
THEOREM EveryTranscriptFaithful == ReplaySpec => []TranscriptFaithful
<1>1. ReplayInit => recording \in Recordings
  BY DEF ReplayInit
<1>2. recording \in Recordings /\ [ReplayNext]_recording => (recording \in Recordings)'
  BY DEF ReplayNext
<1>3. recording \in Recordings => TranscriptFaithful
  BY TranscriptShows
<1> QED
  BY <1>1, <1>2, <1>3, PTL DEF ReplaySpec
=============================================================================
