---------------------------- MODULE StreamProofs ----------------------------
(* Proofs about the decoders of byte streams, for streams, messages, files and counters *)
(* of any size.                                                                         *)
EXTENDS ByteStreams, SequenceTheorems, TLAPS

\* A piece of a sequence: where it is, and its first n elements and the others.
LEMMA Slice ==
  ASSUME NEW S, NEW s \in Seq(S), NEW a \in 0..Len(s), NEW b \in a..Len(s)
  PROVE  /\ SubSeq(s, a + 1, b) \in Seq(S) /\ Len(SubSeq(s, a + 1, b)) = b - a
         /\ \A i \in 1..b - a : SubSeq(s, a + 1, b)[i] = s[a + i]
<1>1. \A i \in a + 1..b : s[i] \in S
  OBVIOUS
<1> DEFINE m == a + 1
<1>2. m \in Int /\ b \in Int /\ (m <= b <=> a < b) /\ b - m + 1 = b - a
  OBVIOUS
<1>3. \A i \in m..b : s[i] \in S
  BY <1>1
<1>4. /\ SubSeq(s, m, b) \in Seq(S) /\ Len(SubSeq(s, m, b)) = IF m <= b THEN b - m + 1 ELSE 0
      /\ \A i \in 1..b - m + 1 : SubSeq(s, m, b)[i] = s[m + i - 1]
  <2> HIDE DEF m
  <2> QED
    BY <1>2, <1>3, SubSeqProperties
<1>5. \A i \in 1..b - a : m + i - 1 = a + i
  OBVIOUS
<1> QED
  BY <1>2, <1>4, <1>5

LEMMA SliceCut ==
  ASSUME NEW S, NEW s \in Seq(S), NEW a \in 0..Len(s), NEW b \in a..Len(s), NEW n \in 0..b - a
  PROVE  LET slice == SubSeq(s, a + 1, b)
         IN SubSeq(slice, 1, n) = SubSeq(s, a + 1, a + n) /\ SubSeq(slice, n + 1, Len(slice)) = SubSeq(s, a + n + 1, b)
<1> DEFINE slice == SubSeq(s, a + 1, b)
<1>1. slice \in Seq(S) /\ Len(slice) = b - a /\ \A i \in 1..b - a : slice[i] = s[a + i]
  BY Slice
<1>2. a + n \in a..Len(s) /\ a + n \in 0..Len(s) /\ b \in a + n..Len(s) /\ n \in 0..Len(slice) /\ 0 \in 0..Len(slice)
  BY <1>1
<1>3. /\ SubSeq(slice, 0 + 1, n) \in Seq(S) /\ Len(SubSeq(slice, 0 + 1, n)) = n - 0
      /\ \A i \in 1..n - 0 : SubSeq(slice, 0 + 1, n)[i] = slice[0 + i]
  <2> HIDE DEF slice
  <2> QED
    BY <1>1, <1>2, Slice
<1>4. /\ SubSeq(s, a + 1, a + n) \in Seq(S) /\ Len(SubSeq(s, a + 1, a + n)) = a + n - a
      /\ \A i \in 1..a + n - a : SubSeq(s, a + 1, a + n)[i] = s[a + i]
  BY <1>2, Slice
<1>5. SubSeq(slice, 1, n) = SubSeq(s, a + 1, a + n)
  <2> HIDE DEF slice
  <2>1. SubSeq(slice, 1, n) \in Seq(S) /\ Len(SubSeq(slice, 1, n)) = n /\ \A i \in 1..n : SubSeq(slice, 1, n)[i] = slice[i]
    BY <1>3
  <2>2. Len(SubSeq(s, a + 1, a + n)) = n /\ \A i \in 1..n : SubSeq(s, a + 1, a + n)[i] = s[a + i]
    BY <1>4
  <2>3. \A i \in 1..n : SubSeq(slice, 1, n)[i] = SubSeq(s, a + 1, a + n)[i]
    BY <1>1, <2>1, <2>2
  <2> QED
    BY <1>4, <2>1, <2>2, <2>3, SeqEqual
<1>6. /\ SubSeq(slice, n + 1, b - a) \in Seq(S) /\ Len(SubSeq(slice, n + 1, b - a)) = b - a - n
      /\ \A i \in 1..b - a - n : SubSeq(slice, n + 1, b - a)[i] = slice[n + i]
  <2> HIDE DEF slice
  <2>1. b - a \in n..Len(slice)
    BY <1>1
  <2> QED
    BY <1>1, <1>2, <2>1, Slice
<1>7. /\ SubSeq(s, a + n + 1, b) \in Seq(S) /\ Len(SubSeq(s, a + n + 1, b)) = b - (a + n)
      /\ \A i \in 1..b - (a + n) : SubSeq(s, a + n + 1, b)[i] = s[a + n + i]
  BY <1>2, Slice
<1>8. SubSeq(slice, n + 1, b - a) = SubSeq(s, a + n + 1, b)
  <2> HIDE DEF slice
  <2>1. \A i \in 1..b - a - n : SubSeq(slice, n + 1, b - a)[i] = SubSeq(s, a + n + 1, b)[i]
    <3> SUFFICES ASSUME NEW i \in 1..b - a - n
                 PROVE  SubSeq(slice, n + 1, b - a)[i] = SubSeq(s, a + n + 1, b)[i]
      OBVIOUS
    <3>1. n + i \in 1..b - a /\ i \in 1..b - (a + n) /\ a + (n + i) = a + n + i
      OBVIOUS
    <3> QED
      BY <1>1, <1>6, <1>7, <3>1
  <2> QED
    <3> DEFINE t == SubSeq(slice, n + 1, b - a)
               u == SubSeq(s, a + n + 1, b)
    <3>1. t \in Seq(S) /\ u \in Seq(S) /\ Len(t) = b - a - n /\ Len(u) = Len(t)
      BY <1>6, <1>7
    <3>2. \A i \in 1..Len(t) : t[i] = u[i]
      BY <2>1, <3>1
    <3> HIDE DEF t, u
    <3>3. t = u
      BY <3>1, <3>2, SeqEqual
    <3> QED
      BY <3>3 DEF t, u
<1> QED
  BY <1>1, <1>5, <1>8

LEMMA SliceJoin ==
  ASSUME NEW S, NEW s \in Seq(S), NEW a \in 0..Len(s), NEW b \in a..Len(s), NEW c \in b..Len(s)
  PROVE  SubSeq(s, a + 1, b) \o SubSeq(s, b + 1, c) = SubSeq(s, a + 1, c)
<1>1. a + 1 \in 1..Len(s) + 1 /\ b \in a + 1 - 1..Len(s)
  OBVIOUS
<1> QED
  BY <1>1, ConcatAdjacentSubSeq

\* c is what the sequence s has behind a, up to b.
Span(c, s, a, b) == a \in 0..Len(s) /\ b \in a..Len(s) /\ c = SubSeq(s, a + 1, b)

LEMMA SpanIs ==
  ASSUME NEW S, NEW s \in Seq(S), NEW a, NEW b, NEW c, Span(c, s, a, b)
  PROVE  /\ c \in Seq(S) /\ Len(c) = b - a /\ a \in Nat /\ b \in Nat /\ a <= b /\ b <= Len(s)
         /\ \A i \in 1..b - a : c[i] = s[a + i]
<1>1. Len(s) \in Nat
  OBVIOUS
<1>2. a \in 0..Len(s) /\ b \in a..Len(s) /\ c = SubSeq(s, a + 1, b)
  BY DEF Span
<1>3. a \in Nat /\ b \in Nat /\ a <= b /\ b <= Len(s)
  BY <1>1, <1>2
<1>4. /\ SubSeq(s, a + 1, b) \in Seq(S) /\ Len(SubSeq(s, a + 1, b)) = b - a
      /\ \A i \in 1..b - a : SubSeq(s, a + 1, b)[i] = s[a + i]
  BY <1>2, Slice
<1> QED
  BY <1>2, <1>3, <1>4

LEMMA SpanJoin ==
  ASSUME NEW S, NEW s \in Seq(S), NEW a, NEW b, NEW d, NEW c, NEW e, Span(c, s, a, b), Span(e, s, b, d)
  PROVE  Span(c \o e, s, a, d)
<1>1. /\ a \in 0..Len(s) /\ b \in a..Len(s) /\ d \in b..Len(s)
      /\ c = SubSeq(s, a + 1, b) /\ e = SubSeq(s, b + 1, d)
  BY DEF Span
<1>2. SubSeq(s, a + 1, b) \o SubSeq(s, b + 1, d) = SubSeq(s, a + 1, d)
  BY <1>1, SliceJoin
<1>3. d \in a..Len(s)
  BY <1>1
<1> QED
  BY <1>1, <1>2, <1>3 DEF Span

\* A turn of a loop takes what is missing from a chunk, or all of it.
LEMMA SpanTake ==
  ASSUME NEW S, NEW s \in Seq(S), NEW a, NEW b, NEW c, Span(c, s, a, b), NEW n \in Nat
  PROVE  LET cut == Least(a + n, b)
         IN cut \in a..b /\ Span(Start(c, n), s, a, cut) /\ Span(After(c, n), s, cut, b)
<1> DEFINE cut == Least(a + n, b)
           most == Least(n, b - a)
<1>1. c \in Seq(S) /\ Len(c) = b - a /\ a \in Nat /\ b \in Nat /\ a <= b /\ b <= Len(s) /\ Len(s) \in Nat
  BY SpanIs
<1>2. cut \in a..b /\ most \in 0..b - a /\ cut = a + most /\ most \in Nat
  BY <1>1 DEF Least
<1>3. a \in 0..Len(s) /\ b \in a..Len(s) /\ c = SubSeq(s, a + 1, b)
  BY DEF Span
<1>4. SubSeq(c, 1, most) = SubSeq(s, a + 1, cut) /\ SubSeq(c, most + 1, b - a) = SubSeq(s, cut + 1, b)
  <2> HIDE DEF most
  <2>1. LET slice == SubSeq(s, a + 1, b)
        IN SubSeq(slice, 1, most) = SubSeq(s, a + 1, a + most) /\ SubSeq(slice, most + 1, Len(slice)) = SubSeq(s, a + most + 1, b)
    BY <1>2, <1>3, SliceCut
  <2> QED
    BY <1>1, <1>2, <1>3, <2>1
<1>5. Start(c, n) = SubSeq(s, a + 1, cut)
  BY <1>1, <1>4 DEF Start
<1>6. After(c, n) = SubSeq(s, cut + 1, b)
  <2>1. CASE n <= b - a
    <3>1. most = n
      BY <1>1, <2>1 DEF Least
    <3> QED
      BY <1>1, <1>4, <3>1 DEF After
  <2>2. CASE n > b - a
    <3>1. cut = b
      BY <1>1, <2>2 DEF Least
    <3>2. n + 1 \in Int /\ Len(c) \in Int /\ Len(c) < n + 1 /\ b \in Int /\ cut + 1 \in Int /\ b < cut + 1
      BY <1>1, <2>2, <3>1
    <3>3. SubSeq(c, n + 1, Len(c)) = <<>> /\ SubSeq(s, cut + 1, b) = <<>>
      BY <3>2, SubSeqEmpty
    <3> QED
      BY <3>3 DEF After
  <2> QED
    BY <1>1, <2>1, <2>2
<1>7. a \in 0..Len(s) /\ cut \in a..Len(s) /\ cut \in 0..Len(s) /\ b \in cut..Len(s)
  BY <1>1, <1>2
<1> HIDE DEF cut, most
<1>8. Span(Start(c, n), s, a, cut) /\ Span(After(c, n), s, cut, b)
  BY <1>5, <1>6, <1>7 DEF Span
<1> QED
  BY <1>2, <1>8 DEF cut

-----------------------------------------------------------------------------
(* Frames *)

Bits == {0, 1}
FramedRecords ==
  [input : Seq(Bits), arrived : Nat, state : {"reading", "oversized", "cut", "ended", "closed"},
   header : Seq(Bits), size : 0..NoSize, payload : Seq(Bits), chunk : Seq(Bits),
   out : Seq([message : Seq(Bits), end : Nat])]

\* What the decoder has read of the stream, and the end of the last message.
ReadUpTo(f) == f.arrived - Len(f.chunk)
Whole(f) == EndOf(f, Len(f.out))

\* The messages are in line.
Follows(f, k) ==
  /\ EndOf(f, k) = EndOf(f, k - 1) + HeaderSize + Announced(f, k - 1) /\ EndOf(f, k) <= Whole(f)
  /\ Announced(f, k - 1) <= MaxMessageSize
  /\ f.out[k].message = SubSeq(f.input, EndOf(f, k - 1) + HeaderSize + 1, EndOf(f, k))
LineSound(f) == \A k \in 1..Len(f.out) : Follows(f, k)

\* The decoder has what it read behind the last message: a part of the header, or the size and
\* a part of the payload.
PartialSound(f) ==
  IF f.size = NoSize
  THEN Span(f.header, f.input, Whole(f), ReadUpTo(f)) /\ ReadUpTo(f) < Whole(f) + HeaderSize /\ f.payload = <<>>
  ELSE /\ f.header = <<>> /\ f.size = Announced(f, Len(f.out)) /\ f.size <= MaxMessageSize
       /\ Span(f.payload, f.input, Whole(f) + HeaderSize, ReadUpTo(f)) /\ ReadUpTo(f) < Whole(f) + HeaderSize + f.size
DecoderSound(f) ==
  /\ Whole(f) \in 0..ReadUpTo(f) /\ Span(f.chunk, f.input, ReadUpTo(f), f.arrived)
  /\ f.chunk # <<>> => f.state = "reading"
  /\ f.state \in {"reading", "cut", "ended"} => PartialSound(f)
  /\ f.state = "oversized" => f.arrived >= Whole(f) + HeaderSize /\ Announced(f, Len(f.out)) > MaxMessageSize
  /\ f.state = "cut" => Incomplete(f)
  /\ f.state = "ended" => ~Incomplete(f)

FramedSound(f) == f \in FramedRecords /\ LineSound(f) /\ DecoderSound(f)
FramesInv == FramedSound(framed)

LEMMA SizeRange == \A h \in Seq(Bits) : Len(h) = HeaderSize => SizeOf(h) \in 0..NoSize - 1
<1> SUFFICES ASSUME NEW h \in Seq(Bits), Len(h) = HeaderSize
             PROVE  SizeOf(h) \in 0..NoSize - 1
  OBVIOUS
<1>1. h[1] \in Bits /\ h[2] \in Bits
  <2>1. 1 \in 1..Len(h) /\ 2 \in 1..Len(h)
    BY DEF HeaderSize
  <2> QED
    BY <2>1, ElementOfSeq
<1>2. \A x, y \in Bits : 2 * x + y \in 0..3
  BY DEF Bits
<1> QED
  BY <1>1, <1>2 DEF SizeOf, NoSize, HeaderSize

\* What a turn reads of a header, and of a payload.
LEMMA HeaderRead ==
  ASSUME NEW f, FramedSound(f), f.state = "reading", f.size = NoSize
  PROVE  LET missing == HeaderSize - Len(f.header)
             header == f.header \o Start(f.chunk, missing)
             rest == After(f.chunk, missing)
             cut == Least(Whole(f) + HeaderSize, f.arrived)
         IN /\ cut \in ReadUpTo(f)..f.arrived
            /\ Span(header, f.input, Whole(f), cut) /\ Span(rest, f.input, cut, f.arrived)
            /\ Len(header) <= HeaderSize
            /\ Len(header) = HeaderSize => /\ cut = Whole(f) + HeaderSize /\ SizeOf(header) = Announced(f, Len(f.out))
                                           /\ SizeOf(header) \in 0..NoSize - 1
            /\ Len(header) < HeaderSize => cut = f.arrived
<1> DEFINE missing == HeaderSize - Len(f.header)
           header == f.header \o Start(f.chunk, missing)
           rest == After(f.chunk, missing)
           w == Whole(f)
           r == ReadUpTo(f)
           cut == Least(w + HeaderSize, f.arrived)
<1>1. /\ f.input \in Seq(Bits) /\ Span(f.chunk, f.input, r, f.arrived) /\ Span(f.header, f.input, w, r)
      /\ r < w + HeaderSize
  BY DEF FramedSound, DecoderSound, PartialSound, FramedRecords
<1> HIDE DEF w, r
<1>2. /\ Len(f.header) = r - w /\ w \in Nat /\ r \in Nat /\ w <= r /\ r <= f.arrived /\ f.arrived \in Nat
  BY <1>1, SpanIs
<1>3. missing \in Nat /\ r + missing = w + HeaderSize
  BY <1>1, <1>2 DEF HeaderSize
<1>4. cut = Least(r + missing, f.arrived)
  BY <1>3
<1>5. cut \in r..f.arrived /\ Span(Start(f.chunk, missing), f.input, r, cut) /\ Span(rest, f.input, cut, f.arrived)
  <2> HIDE DEF missing, cut
  <2> QED
    BY <1>1, <1>3, <1>4, SpanTake
<1>6. Span(header, f.input, w, cut)
  <2> HIDE DEF missing, cut
  <2> QED
    BY <1>1, <1>5, SpanJoin
<1>7. header \in Seq(Bits) /\ Len(header) = cut - w
  <2> HIDE DEF cut, header
  <2> QED
    BY <1>1, <1>6, SpanIs
<1>8. cut - w <= HeaderSize /\ (cut - w = HeaderSize => cut = w + HeaderSize) /\ (cut - w < HeaderSize => cut = f.arrived)
  BY <1>2 DEF Least, HeaderSize
<1>9. ASSUME Len(header) = HeaderSize
      PROVE  cut = w + HeaderSize /\ SizeOf(header) = Announced(f, Len(f.out)) /\ SizeOf(header) \in 0..NoSize - 1
  <2> HIDE DEF header, cut
  <2>1. cut = w + HeaderSize
    BY <1>7, <1>8, <1>9
  <2>2. header = SubSeq(f.input, w + 1, cut)
    BY <1>6 DEF Span
  <2>3. SizeOf(header) = SizeOf(SubSeq(f.input, w + 1, w + HeaderSize))
    BY <2>1, <2>2
  <2>4. SizeOf(header) = Announced(f, Len(f.out))
    BY <2>3 DEF Announced, Whole, w
  <2>5. SizeOf(header) \in 0..NoSize - 1
    BY <1>7, <1>9, SizeRange
  <2> QED
    BY <2>1, <2>4, <2>5
<1>10. Len(header) <= HeaderSize /\ (Len(header) < HeaderSize => cut = f.arrived)
  <2> HIDE DEF header, cut
  <2> QED
    BY <1>7, <1>8
<1> HIDE DEF missing, header, rest, cut
<1> QED
  BY <1>5, <1>6, <1>9, <1>10 DEF missing, header, rest, cut, w, r

LEMMA PayloadRead ==
  ASSUME NEW f, FramedSound(f), f.state = "reading", f.size # NoSize
  PROVE  LET missing == f.size - Len(f.payload)
             payload == f.payload \o Start(f.chunk, missing)
             rest == After(f.chunk, missing)
             begin == Whole(f) + HeaderSize
             cut == Least(begin + f.size, f.arrived)
         IN /\ cut \in ReadUpTo(f)..f.arrived
            /\ Span(payload, f.input, begin, cut) /\ Span(rest, f.input, cut, f.arrived)
            /\ Len(payload) = f.size => cut = begin + f.size
            /\ Len(payload) < f.size => cut = f.arrived /\ cut < begin + f.size
<1> DEFINE missing == f.size - Len(f.payload)
           payload == f.payload \o Start(f.chunk, missing)
           rest == After(f.chunk, missing)
           begin == Whole(f) + HeaderSize
           r == ReadUpTo(f)
           cut == Least(begin + f.size, f.arrived)
<1>1. /\ f.input \in Seq(Bits) /\ Span(f.chunk, f.input, r, f.arrived) /\ Span(f.payload, f.input, begin, r)
      /\ r < begin + f.size /\ f.size \in 0..NoSize
  BY DEF FramedSound, DecoderSound, PartialSound, FramedRecords
<1> HIDE DEF begin, r
<1>2. /\ Len(f.payload) = r - begin /\ begin \in Nat /\ r \in Nat /\ begin <= r /\ r <= f.arrived /\ f.arrived \in Nat
  BY <1>1, SpanIs
<1>3. missing \in Nat /\ r + missing = begin + f.size /\ f.size \in Nat
  BY <1>1, <1>2 DEF NoSize, HeaderSize
<1>4. cut = Least(r + missing, f.arrived)
  BY <1>3
<1>5. cut \in r..f.arrived /\ Span(Start(f.chunk, missing), f.input, r, cut) /\ Span(rest, f.input, cut, f.arrived)
  <2> HIDE DEF missing, cut
  <2> QED
    BY <1>1, <1>3, <1>4, SpanTake
<1>6. Span(payload, f.input, begin, cut)
  <2> HIDE DEF missing, cut
  <2> QED
    BY <1>1, <1>5, SpanJoin
<1>7. Len(payload) = cut - begin
  <2> HIDE DEF cut, payload
  <2> QED
    BY <1>1, <1>6, SpanIs
<1>8. (cut - begin = f.size => cut = begin + f.size) /\ (cut - begin < f.size => cut = f.arrived /\ cut < begin + f.size)
  <2>1. \A b, n, a \in Nat :
          LET c == Least(b + n, a)
          IN (c - b = n => c = b + n) /\ (c - b < n => c = a /\ c < b + n)
    BY DEF Least
  <2> QED
    BY <1>2, <1>3, <2>1
<1>9. (Len(payload) = f.size => cut = begin + f.size) /\ (Len(payload) < f.size => cut = f.arrived /\ cut < begin + f.size)
  <2> HIDE DEF payload, cut
  <2> QED
    BY <1>7, <1>8
<1> HIDE DEF missing, payload, rest, cut
<1> QED
  BY <1>5, <1>6, <1>9 DEF missing, payload, rest, cut, begin, r

\* A message that is handed on is the next one in line, and the decoder begins again behind it.
LEMMA YieldSound ==
  ASSUME NEW f, FramedSound(f), f.state = "reading", Announced(f, Len(f.out)) <= MaxMessageSize,
         NEW message, NEW rest, NEW e, e = Whole(f) + HeaderSize + Announced(f, Len(f.out)), e \in Nat,
         Span(message, f.input, Whole(f) + HeaderSize, e), Span(rest, f.input, e, f.arrived)
  PROVE  FramedSound(Yield(f, message, rest))
<1> DEFINE g == Yield(f, message, rest)
           n == Len(f.out)
<1>1. f \in FramedRecords /\ f.input \in Seq(Bits) /\ n \in Nat /\ f.arrived \in Nat
  BY DEF FramedSound, FramedRecords
<1>2. message \in Seq(Bits) /\ rest \in Seq(Bits) /\ Len(rest) = f.arrived - e /\ e <= f.arrived
  BY <1>1, SpanIs
<1>3. f.arrived - Len(rest) = e
  BY <1>1, <1>2
<1>4. /\ g.input = f.input /\ g.arrived = f.arrived /\ g.state = f.state /\ g.header = <<>> /\ g.size = NoSize
      /\ g.payload = <<>> /\ g.chunk = rest /\ g.out = Append(f.out, [message |-> message, end |-> e])
  BY <1>1, <1>3 DEF Yield, FramedRecords
<1>5. /\ g.out \in Seq([message : Seq(Bits), end : Nat]) /\ Len(g.out) = n + 1
      /\ g.out[n + 1] = [message |-> message, end |-> e] /\ \A k \in 1..n : g.out[k] = f.out[k]
  <2>1. [message |-> message, end |-> e] \in [message : Seq(Bits), end : Nat]
    BY <1>2
  <2>2. f.out \in Seq([message : Seq(Bits), end : Nat])
    BY <1>1 DEF FramedRecords
  <2> HIDE DEF g
  <2> QED
    BY <1>4, <2>1, <2>2, AppendProperties
<1>6. g \in FramedRecords
  <2>1. <<>> \in Seq(Bits) /\ NoSize \in 0..NoSize
    BY DEF NoSize, HeaderSize
  <2>2. Append(f.out, [message |-> message, end |-> f.arrived - Len(rest)]) \in Seq([message : Seq(Bits), end : Nat])
    BY <1>3, <1>4, <1>5
  <2> QED
    BY <1>1, <1>2, <2>1, <2>2 DEF FramedRecords, Yield
<1>7. \A k \in 0..n : EndOf(g, k) = EndOf(f, k) /\ Announced(g, k) = Announced(f, k)
  <2> HIDE DEF g
  <2>1. \A k \in 0..n : EndOf(g, k) = EndOf(f, k)
    <3> SUFFICES ASSUME NEW k \in 0..n
                 PROVE  EndOf(g, k) = EndOf(f, k)
      OBVIOUS
    <3>1. k # 0 => k \in 1..n
      BY <1>1
    <3> QED
      BY <1>5, <3>1 DEF EndOf
  <2> QED
    BY <1>4, <2>1 DEF Announced
<1>8. EndOf(g, n + 1) = e /\ Whole(g) = e /\ ReadUpTo(g) = e
  <2> HIDE DEF g
  <2> QED
    BY <1>1, <1>3, <1>4, <1>5 DEF EndOf, Whole, ReadUpTo
<1>9. Whole(f) = EndOf(f, n) /\ Whole(f) <= e
  <2>1. Whole(f) + HeaderSize \in Nat /\ Whole(f) + HeaderSize <= e
    BY <1>1, SpanIs
  <2>2. Whole(f) \in Nat
    <3>1. Whole(f) \in 0..ReadUpTo(f)
      BY DEF FramedSound, DecoderSound
    <3> QED
      BY <3>1
  <2> QED
    BY <2>1, <2>2, <1>1 DEF Whole, HeaderSize
<1>10. LineSound(g)
  <2> SUFFICES ASSUME NEW k \in 1..n + 1
               PROVE  Follows(g, k)
    <3> HIDE DEF g
    <3> QED
      BY <1>5 DEF LineSound
  <2>1. CASE k = n + 1
    <3>1. k - 1 = n /\ k - 1 \in 0..n
      BY <1>1, <2>1
    <3>2. g.out[k].message = message
      <4> HIDE DEF g
      <4> QED
        BY <1>5, <2>1
    <3>3. message = SubSeq(f.input, Whole(f) + HeaderSize + 1, e)
      BY DEF Span
    <3> HIDE DEF g
    <3>4. EndOf(g, k) = e /\ EndOf(g, k - 1) = Whole(f) /\ Announced(g, k - 1) = Announced(f, n)
      BY <1>7, <1>8, <1>9, <2>1, <3>1
    <3>5. EndOf(g, k) <= Whole(g)
      BY <1>8, <3>4
    <3> QED
      BY <1>4, <3>2, <3>3, <3>4, <3>5 DEF Follows
  <2>2. CASE k # n + 1
    <3>1. k \in 1..n /\ k \in 0..n /\ k - 1 \in 0..n
      BY <1>1, <2>2
    <3>2. Follows(f, k)
      BY <3>1 DEF FramedSound, LineSound
    <3> HIDE DEF g
    <3>3. EndOf(g, k) = EndOf(f, k) /\ EndOf(g, k - 1) = EndOf(f, k - 1) /\ Announced(g, k - 1) = Announced(f, k - 1)
      BY <1>7, <3>1
    <3>4. g.out[k] = f.out[k]
      BY <1>5, <3>1
    <3>5. EndOf(f, k) \in Nat
      <4>1. f.out[k] \in [message : Seq(Bits), end : Nat]
        <5>1. f.out \in Seq([message : Seq(Bits), end : Nat]) /\ k \in 1..Len(f.out)
          BY <1>1, <3>1 DEF FramedRecords
        <5> QED
          BY <5>1, ElementOfSeq
      <4>2. k # 0 /\ f.out[k].end \in Nat
        BY <3>1, <4>1
      <4> QED
        BY <4>2 DEF EndOf
    <3>6. EndOf(f, k) <= Whole(f) /\ Whole(f) \in Nat
      <4>1. Whole(f) \in 0..ReadUpTo(f)
        BY DEF FramedSound, DecoderSound
      <4> QED
        BY <3>2, <4>1 DEF Follows
    <3>7. EndOf(g, k) <= Whole(g)
      BY <1>8, <1>9, <3>3, <3>5, <3>6
    <3> QED
      BY <1>4, <3>2, <3>3, <3>4, <3>7 DEF Follows
  <2> QED
    BY <2>1, <2>2
<1>11. DecoderSound(g)
  <2>1. Span(<<>>, f.input, e, e)
    <3>1. e \in 0..Len(f.input) /\ e \in e..Len(f.input)
      <4>1. f.arrived <= Len(f.input)
        BY <1>1, SpanIs
      <4> QED
        BY <1>1, <1>2, <4>1
    <3>2. SubSeq(f.input, e + 1, e) = <<>>
      BY SubSeqEmpty
    <3> QED
      BY <3>1, <3>2 DEF Span
  <2>2. e \in 0..e /\ e < e + HeaderSize
    BY DEF HeaderSize
  <2> HIDE DEF g
  <2>3. PartialSound(g)
    BY <1>4, <1>8, <2>1, <2>2 DEF PartialSound
  <2> QED
    BY <1>4, <1>8, <2>2, <2>3 DEF DecoderSound
<1> HIDE DEF g
<1> QED
  BY <1>6, <1>10, <1>11 DEF FramedSound, g

\* A step that hands nothing on leaves the messages in line.
LEMMA LineKept ==
  ASSUME NEW f, NEW g, g.input = f.input, g.out = f.out, LineSound(f)
  PROVE  LineSound(g) /\ Whole(g) = Whole(f) /\ Announced(g, Len(g.out)) = Announced(f, Len(f.out))
<1>1. \A k : EndOf(g, k) = EndOf(f, k)
  BY DEF EndOf
<1>2. Whole(g) = Whole(f)
  BY <1>1 DEF Whole
<1>3. \A k : Announced(g, k) = Announced(f, k)
  BY <1>1 DEF Announced
<1> QED
  BY <1>1, <1>2, <1>3 DEF LineSound, Follows

LEMMA FramesInitial == FramesInit => FramesInv
<1> SUFFICES ASSUME NEW n \in 0..MaxStream, NEW input \in [1..n -> {0, 1}], framed = NewStream(input)
             PROVE  FramesInv
  BY DEF FramesInit
<1>1. input \in Seq(Bits) /\ Len(input) \in Nat
  <2>1. MaxStream \in Nat
    BY StreamsAssumption
  <2>2. n \in Nat
    BY <2>1
  <2> QED
    BY <2>2 DEF Bits
<1>2. /\ framed.input = input /\ framed.arrived = 0 /\ framed.state = "reading" /\ framed.header = <<>>
      /\ framed.size = NoSize /\ framed.payload = <<>> /\ framed.chunk = <<>> /\ framed.out = <<>>
  BY DEF NewStream
<1>3. framed \in FramedRecords
  <2>1. NoSize \in 0..NoSize /\ <<>> \in Seq(Bits) /\ <<>> \in Seq([message : Seq(Bits), end : Nat])
    BY DEF NoSize, HeaderSize
  <2> QED
    BY <1>1, <2>1 DEF NewStream, FramedRecords
<1>4. Len(framed.out) = 0 /\ ReadUpTo(framed) = 0 /\ Whole(framed) = 0
  <2>1. Len(framed.out) = 0 /\ Len(framed.chunk) = 0
    BY <1>2, EmptySeq
  <2>2. framed.arrived - Len(framed.chunk) = 0
    <3>1. framed.arrived = 0 /\ 0 - 0 = 0
      BY <1>2
    <3> QED
      BY <2>1, <3>1
  <2>3. EndOf(framed, Len(framed.out)) = 0
    BY <2>1 DEF EndOf
  <2> QED
    BY <2>1, <2>2, <2>3 DEF ReadUpTo, Whole
<1>5. LineSound(framed)
  BY <1>4 DEF LineSound
<1>6. Span(<<>>, framed.input, 0, 0)
  <2>1. SubSeq(framed.input, 0 + 1, 0) = <<>>
    BY SubSeqEmpty
  <2> QED
    BY <1>1, <1>2, <2>1 DEF Span
<1>7. DecoderSound(framed)
  BY <1>2, <1>4, <1>6 DEF DecoderSound, PartialSound, HeaderSize
<1> QED
  BY <1>3, <1>5, <1>7 DEF FramesInv, FramedSound

\* An empty chunk has been read.
LEMMA AllRead ==
  ASSUME NEW f, FramedSound(f)
  PROVE  /\ f \in FramedRecords /\ f.input \in Seq(Bits) /\ f.arrived \in Nat /\ f.arrived <= Len(f.input)
         /\ Whole(f) \in Nat /\ ReadUpTo(f) \in Nat /\ Whole(f) <= ReadUpTo(f) /\ ReadUpTo(f) <= f.arrived
         /\ f.chunk = <<>> => ReadUpTo(f) = f.arrived
<1>1. f \in FramedRecords /\ f.input \in Seq(Bits) /\ f.arrived \in Nat
  BY DEF FramedSound, FramedRecords
<1>2. Span(f.chunk, f.input, ReadUpTo(f), f.arrived) /\ Whole(f) \in 0..ReadUpTo(f)
  BY DEF FramedSound, DecoderSound
<1>3. ReadUpTo(f) \in Nat /\ ReadUpTo(f) <= f.arrived /\ f.arrived <= Len(f.input)
  BY <1>1, <1>2, SpanIs
<1>4. f.chunk = <<>> => ReadUpTo(f) = f.arrived
  BY <1>1 DEF ReadUpTo
<1> QED
  BY <1>1, <1>2, <1>3, <1>4

\* The turn that read all of its chunk, and has a sound part of a frame.
LEMMA ChunkRead ==
  ASSUME NEW f, FramedSound(f), NEW g \in FramedRecords, g.input = f.input, g.out = f.out, g.arrived = f.arrived,
         g.chunk = <<>>, g.state = "reading", ReadUpTo(g) = f.arrived => PartialSound(g)
  PROVE  FramedSound(g)
<1>1. /\ f.input \in Seq(Bits) /\ f.arrived \in Nat /\ f.arrived <= Len(f.input) /\ Whole(f) \in Nat
      /\ Whole(f) <= f.arrived
  BY AllRead
<1>2. LineSound(g) /\ Whole(g) = Whole(f)
  BY LineKept DEF FramedSound
<1>3. ReadUpTo(g) = f.arrived
  BY <1>1 DEF ReadUpTo
<1>4. Span(<<>>, f.input, f.arrived, f.arrived)
  <2>1. SubSeq(f.input, f.arrived + 1, f.arrived) = <<>>
    BY <1>1, SubSeqEmpty
  <2> QED
    BY <1>1, <2>1 DEF Span
<1>5. Whole(g) \in 0..ReadUpTo(g)
  BY <1>1, <1>2, <1>3
<1> QED
  BY <1>2, <1>3, <1>4, <1>5 DEF FramedSound, DecoderSound

LEMMA FrameChunkSound == \A n \in 1..MaxStream : FramesInv /\ FrameChunk(n) => FramesInv'
<1> SUFFICES ASSUME NEW n \in 1..MaxStream, FramesInv, FrameChunk(n)
             PROVE  FramesInv'
  OBVIOUS
<1> DEFINE f == framed
           g == framed'
<1>1. FramedSound(f) /\ f.state = "reading" /\ f.chunk = <<>> /\ f.arrived + n <= Len(f.input)
  BY DEF FramesInv, FrameChunk
<1>2. /\ f \in FramedRecords /\ f.input \in Seq(Bits) /\ f.arrived \in Nat /\ n \in Nat
      /\ Whole(f) \in Nat /\ Whole(f) <= f.arrived /\ ReadUpTo(f) = f.arrived
  BY <1>1, AllRead, StreamsAssumption
<1>3. /\ g.input = f.input /\ g.arrived = f.arrived + n /\ g.state = f.state /\ g.header = f.header /\ g.size = f.size
      /\ g.payload = f.payload /\ g.chunk = SubSeq(f.input, f.arrived + 1, f.arrived + n) /\ g.out = f.out
  BY <1>2 DEF FrameChunk, FramedRecords
<1>4. Span(g.chunk, f.input, f.arrived, f.arrived + n)
  <2>1. f.arrived \in 0..Len(f.input) /\ f.arrived + n \in f.arrived..Len(f.input)
    BY <1>1, <1>2
  <2> HIDE DEF f, g
  <2> QED
    BY <1>3, <2>1 DEF Span
<1>5. g.chunk \in Seq(Bits) /\ Len(g.chunk) = n
  <2> HIDE DEF f, g
  <2>1. g.chunk \in Seq(Bits) /\ Len(g.chunk) = f.arrived + n - f.arrived
    BY <1>2, <1>4, SpanIs
  <2> QED
    BY <1>2, <2>1
<1>6. g \in FramedRecords
  <2>1. f.arrived + n \in Nat
    BY <1>2
  <2>2. SubSeq(f.input, f.arrived + 1, f.arrived + n) \in Seq(Bits)
    <3> HIDE DEF f, g
    <3> QED
      BY <1>3, <1>5
  <2> QED
    BY <1>2, <2>1, <2>2 DEF FrameChunk, FramedRecords
<1> HIDE DEF f, g
<1>7. LineSound(g) /\ Whole(g) = Whole(f) /\ Announced(g, Len(g.out)) = Announced(f, Len(f.out))
  BY <1>1, <1>3, LineKept DEF FramedSound
<1>8. ReadUpTo(g) = f.arrived
  BY <1>2, <1>3, <1>5 DEF ReadUpTo
<1>9. PartialSound(f)
  BY <1>1 DEF FramedSound, DecoderSound
<1>10. PartialSound(g)
  BY <1>2, <1>3, <1>7, <1>8, <1>9 DEF PartialSound
<1>11. DecoderSound(g)
  <2>1. Whole(g) \in 0..ReadUpTo(g)
    BY <1>2, <1>7, <1>8
  <2> QED
    BY <1>1, <1>3, <1>4, <1>8, <1>10, <2>1 DEF DecoderSound
<1> QED
  BY <1>6, <1>7, <1>11 DEF FramesInv, FramedSound, g

LEMMA HeaderTurnSound == FramesInv /\ HeaderTurn => FramesInv'
<1> SUFFICES ASSUME FramesInv, HeaderTurn
             PROVE  FramesInv'
  OBVIOUS
<1> DEFINE f == framed
           missing == HeaderSize - Len(f.header)
           header == f.header \o Start(f.chunk, missing)
           rest == After(f.chunk, missing)
           size == SizeOf(header)
           cut == Least(Whole(f) + HeaderSize, f.arrived)
<1>1. FramedSound(f) /\ f.state = "reading" /\ f.size = NoSize
  BY DEF FramesInv, HeaderTurn
<1>2. /\ cut \in ReadUpTo(f)..f.arrived
      /\ Span(header, f.input, Whole(f), cut) /\ Span(rest, f.input, cut, f.arrived)
      /\ Len(header) = HeaderSize => /\ cut = Whole(f) + HeaderSize /\ size = Announced(f, Len(f.out))
                                     /\ size \in 0..NoSize - 1
      /\ Len(header) < HeaderSize => cut = f.arrived
  BY <1>1, HeaderRead
<1>3. /\ f \in FramedRecords /\ f.input \in Seq(Bits) /\ f.arrived \in Nat /\ f.arrived <= Len(f.input)
      /\ Whole(f) \in Nat /\ f.payload = <<>>
  BY <1>1, AllRead DEF FramedSound, DecoderSound, PartialSound
<1>4. /\ header \in Seq(Bits) /\ Len(header) = cut - Whole(f) /\ rest \in Seq(Bits) /\ Len(rest) = f.arrived - cut
      /\ cut \in Nat /\ cut <= f.arrived
  <2> HIDE DEF f, header, rest, cut
  <2> QED
    BY <1>2, <1>3, SpanIs
<1>5. \/ Len(header) < HeaderSize /\ framed' = [f EXCEPT !.header = header, !.chunk = <<>>]
      \/ /\ Len(header) = HeaderSize /\ size > MaxMessageSize
         /\ framed' = [f EXCEPT !.header = header, !.chunk = <<>>, !.state = "oversized"]
      \/ /\ Len(header) = HeaderSize /\ size <= MaxMessageSize /\ Len(rest) >= size
         /\ framed' = Yield(f, Start(rest, size), After(rest, size))
      \/ /\ Len(header) = HeaderSize /\ size <= MaxMessageSize /\ Len(rest) < size
         /\ framed' = [f EXCEPT !.header = <<>>, !.size = size, !.payload = rest, !.chunk = <<>>]
  BY DEF HeaderTurn
<1> HIDE DEF f, missing, header, rest, size, cut
<1>6. CASE Len(header) < HeaderSize /\ framed' = [f EXCEPT !.header = header, !.chunk = <<>>]
  <2>1. framed' \in FramedRecords
    BY <1>3, <1>4, <1>6 DEF FramedRecords
  <2>2. /\ framed'.input = f.input /\ framed'.out = f.out /\ framed'.arrived = f.arrived /\ framed'.chunk = <<>>
        /\ framed'.state = "reading" /\ framed'.size = NoSize /\ framed'.header = header /\ framed'.payload = <<>>
    BY <1>1, <1>3, <1>6 DEF FramedRecords
  <2>3. Whole(framed') = Whole(f)
    BY <1>1, <2>2, LineKept DEF FramedSound
  <2>4. f.arrived < Whole(f) + HeaderSize
    BY <1>2, <1>3, <1>4, <1>6 DEF HeaderSize
  <2>5. ReadUpTo(framed') = f.arrived => PartialSound(framed')
    BY <1>2, <1>6, <2>2, <2>3, <2>4 DEF PartialSound
  <2> QED
    BY <1>1, <2>1, <2>2, <2>5, ChunkRead DEF FramesInv
<1>7. CASE /\ Len(header) = HeaderSize /\ size > MaxMessageSize
           /\ framed' = [f EXCEPT !.header = header, !.chunk = <<>>, !.state = "oversized"]
  <2>1. framed' \in FramedRecords
    BY <1>3, <1>4, <1>7 DEF FramedRecords
  <2>2. /\ framed'.input = f.input /\ framed'.out = f.out /\ framed'.arrived = f.arrived /\ framed'.chunk = <<>>
        /\ framed'.state = "oversized"
    BY <1>1, <1>3, <1>7 DEF FramedRecords
  <2>3. LineSound(framed') /\ Whole(framed') = Whole(f) /\ Announced(framed', Len(framed'.out)) = Announced(f, Len(f.out))
    BY <1>1, <2>2, LineKept DEF FramedSound
  <2>4. ReadUpTo(framed') = f.arrived
    BY <1>3, <2>2 DEF ReadUpTo
  <2>5. Span(<<>>, f.input, f.arrived, f.arrived)
    <3>1. SubSeq(f.input, f.arrived + 1, f.arrived) = <<>>
      BY <1>3, SubSeqEmpty
    <3> QED
      BY <1>3, <3>1 DEF Span
  <2>6. Whole(f) + HeaderSize <= f.arrived /\ Whole(f) \in 0..f.arrived
    <3>1. cut = Whole(f) + HeaderSize
      BY <1>2, <1>7
    <3> QED
      BY <1>3, <1>4, <3>1 DEF HeaderSize
  <2>7. Announced(f, Len(f.out)) > MaxMessageSize
    BY <1>2, <1>7
  <2>8. DecoderSound(framed')
    BY <1>3, <2>2, <2>3, <2>4, <2>5, <2>6, <2>7 DEF DecoderSound, HeaderSize
  <2> QED
    BY <2>1, <2>3, <2>8 DEF FramesInv, FramedSound
<1>8. CASE /\ Len(header) = HeaderSize /\ size <= MaxMessageSize /\ Len(rest) >= size
           /\ framed' = Yield(f, Start(rest, size), After(rest, size))
  <2> DEFINE e == cut + size
  <2>1. size \in Nat /\ e = Whole(f) + HeaderSize + Announced(f, Len(f.out)) /\ Announced(f, Len(f.out)) <= MaxMessageSize
    BY <1>2, <1>8 DEF NoSize, HeaderSize
  <2>2. e \in Nat /\ e <= f.arrived /\ Least(cut + size, f.arrived) = e
    <3>1. f.arrived - cut >= size
      BY <1>4, <1>8
    <3> QED
      <4>1. \A x, y, z \in Nat : z - x >= y => x + y \in Nat /\ x + y <= z /\ Least(x + y, z) = x + y
        BY DEF Least
      <4> QED
        BY <1>3, <1>4, <2>1, <3>1, <4>1
  <2>3. Span(Start(rest, size), f.input, cut, e) /\ Span(After(rest, size), f.input, e, f.arrived)
    BY <1>2, <1>3, <2>1, <2>2, SpanTake
  <2>4. cut = Whole(f) + HeaderSize
    BY <1>2, <1>8
  <2> HIDE DEF e
  <2> QED
    BY <1>1, <1>8, <2>1, <2>2, <2>3, <2>4, YieldSound DEF FramesInv
<1>9. CASE /\ Len(header) = HeaderSize /\ size <= MaxMessageSize /\ Len(rest) < size
           /\ framed' = [f EXCEPT !.header = <<>>, !.size = size, !.payload = rest, !.chunk = <<>>]
  <2>1. size \in 0..NoSize /\ size # NoSize
    BY <1>2, <1>9 DEF NoSize, HeaderSize
  <2>2. framed' \in FramedRecords
    BY <1>3, <1>4, <1>9, <2>1 DEF FramedRecords
  <2>3. /\ framed'.input = f.input /\ framed'.out = f.out /\ framed'.arrived = f.arrived /\ framed'.chunk = <<>>
        /\ framed'.state = "reading" /\ framed'.size = size /\ framed'.header = <<>> /\ framed'.payload = rest
    BY <1>1, <1>3, <1>9 DEF FramedRecords
  <2>4. Whole(framed') = Whole(f) /\ Announced(framed', Len(framed'.out)) = Announced(f, Len(f.out))
    BY <1>1, <2>3, LineKept DEF FramedSound
  <2>5. f.arrived < Whole(f) + HeaderSize + size
    <3>1. f.arrived - cut < size /\ cut = Whole(f) + HeaderSize
      BY <1>2, <1>4, <1>9
    <3> QED
      BY <1>3, <1>4, <2>1, <3>1 DEF HeaderSize
  <2>6. ReadUpTo(framed') = f.arrived => PartialSound(framed')
    BY <1>2, <1>9, <2>1, <2>3, <2>4, <2>5 DEF PartialSound
  <2> QED
    BY <1>1, <2>2, <2>3, <2>6, ChunkRead DEF FramesInv
<1> QED
  BY <1>5, <1>6, <1>7, <1>8, <1>9

LEMMA PayloadTurnSound == FramesInv /\ PayloadTurn => FramesInv'
<1> SUFFICES ASSUME FramesInv, PayloadTurn
             PROVE  FramesInv'
  OBVIOUS
<1> DEFINE f == framed
           missing == f.size - Len(f.payload)
           payload == f.payload \o Start(f.chunk, missing)
           rest == After(f.chunk, missing)
           begin == Whole(f) + HeaderSize
           cut == Least(begin + f.size, f.arrived)
<1>1. FramedSound(f) /\ f.state = "reading" /\ f.size # NoSize
  BY DEF FramesInv, PayloadTurn
<1>2. /\ cut \in ReadUpTo(f)..f.arrived
      /\ Span(payload, f.input, begin, cut) /\ Span(rest, f.input, cut, f.arrived)
      /\ Len(payload) = f.size => cut = begin + f.size
      /\ Len(payload) < f.size => cut = f.arrived /\ cut < begin + f.size
  BY <1>1, PayloadRead
<1>3. /\ f \in FramedRecords /\ f.input \in Seq(Bits) /\ f.arrived \in Nat /\ Whole(f) \in Nat /\ f.size \in Nat
      /\ f.header = <<>> /\ f.size = Announced(f, Len(f.out)) /\ f.size <= MaxMessageSize
  BY <1>1, AllRead DEF FramedSound, DecoderSound, PartialSound, FramedRecords, NoSize, HeaderSize
<1>4. payload \in Seq(Bits)
  <2> HIDE DEF f, payload, rest, cut, begin
  <2> QED
    BY <1>2, <1>3, SpanIs
<1>5. \/ Len(payload) = f.size /\ framed' = Yield(f, payload, rest)
      \/ Len(payload) < f.size /\ framed' = [f EXCEPT !.payload = payload, !.chunk = <<>>]
  BY DEF PayloadTurn
<1>6. begin = Whole(f) + HeaderSize
  OBVIOUS
<1> HIDE DEF f, missing, payload, rest, cut, begin
<1>7. CASE Len(payload) = f.size /\ framed' = Yield(f, payload, rest)
  <2> DEFINE e == cut
  <2>1. e = begin + f.size /\ Span(payload, f.input, begin, e) /\ Span(rest, f.input, e, f.arrived)
    BY <1>2, <1>7
  <2>2. e \in Nat
    BY <1>3, <1>6, <2>1 DEF HeaderSize
  <2> HIDE DEF e
  <2> QED
    BY <1>1, <1>3, <1>6, <1>7, <2>1, <2>2, YieldSound DEF FramesInv
<1>8. CASE Len(payload) < f.size /\ framed' = [f EXCEPT !.payload = payload, !.chunk = <<>>]
  <2>1. framed' \in FramedRecords
    BY <1>3, <1>4, <1>8 DEF FramedRecords
  <2>2. /\ framed'.input = f.input /\ framed'.out = f.out /\ framed'.arrived = f.arrived /\ framed'.chunk = <<>>
        /\ framed'.state = "reading" /\ framed'.size = f.size /\ framed'.header = <<>> /\ framed'.payload = payload
    BY <1>1, <1>3, <1>8 DEF FramedRecords
  <2>3. Whole(framed') = Whole(f) /\ Announced(framed', Len(framed'.out)) = Announced(f, Len(f.out))
    BY <1>1, <2>2, LineKept DEF FramedSound
  <2>4. ReadUpTo(framed') = f.arrived => PartialSound(framed')
    BY <1>1, <1>2, <1>3, <1>6, <1>8, <2>2, <2>3 DEF PartialSound
  <2> QED
    BY <1>1, <2>1, <2>2, <2>4, ChunkRead DEF FramesInv
<1> QED
  BY <1>5, <1>7, <1>8

LEMMA EndSound == FramesInv /\ FramesEnd => FramesInv'
<1> SUFFICES ASSUME FramesInv, FramesEnd
             PROVE  FramesInv'
  OBVIOUS
<1>1. FramedSound(framed) /\ framed.state = "reading" /\ framed.chunk = <<>>
  BY DEF FramesInv, FramesEnd
<1>2. framed \in FramedRecords /\ DecoderSound(framed) /\ LineSound(framed)
  BY <1>1 DEF FramedSound
<1> DEFINE g == framed'
<1>3. /\ g.input = framed.input /\ g.arrived = framed.arrived /\ g.header = framed.header /\ g.size = framed.size
      /\ g.payload = framed.payload /\ g.chunk = framed.chunk /\ g.out = framed.out
      /\ g.state = IF Incomplete(framed) THEN "cut" ELSE "ended"
  BY <1>2 DEF FramesEnd, FramedRecords
<1>4. g \in FramedRecords
  BY <1>2 DEF FramesEnd, FramedRecords
<1> HIDE DEF g
<1>5. LineSound(g) /\ Whole(g) = Whole(framed) /\ Announced(g, Len(g.out)) = Announced(framed, Len(framed.out))
  BY <1>2, <1>3, LineKept
<1>6. ReadUpTo(g) = ReadUpTo(framed) /\ (Incomplete(g) <=> Incomplete(framed))
  BY <1>3 DEF ReadUpTo, Incomplete
<1>7. PartialSound(g)
  BY <1>1, <1>2, <1>3, <1>5, <1>6 DEF DecoderSound, PartialSound
<1>8. DecoderSound(g)
  BY <1>1, <1>2, <1>3, <1>5, <1>6, <1>7 DEF DecoderSound
<1> QED
  BY <1>4, <1>5, <1>8 DEF FramesInv, FramedSound, g

LEMMA CloseSound == FramesInv /\ FramesClose => FramesInv'
<1> SUFFICES ASSUME FramesInv, FramesClose
             PROVE  FramesInv'
  OBVIOUS
<1>1. /\ framed \in FramedRecords /\ framed.input \in Seq(Bits) /\ framed.arrived \in Nat
      /\ framed.arrived <= Len(framed.input) /\ Whole(framed) \in Nat /\ Whole(framed) <= framed.arrived
      /\ LineSound(framed)
  BY AllRead DEF FramesInv, FramedSound
<1> DEFINE g == framed'
<1>2. /\ g.input = framed.input /\ g.arrived = framed.arrived /\ g.chunk = <<>> /\ g.out = framed.out
      /\ g.state = "closed"
  BY <1>1 DEF FramesClose, FramedRecords
<1>3. g \in FramedRecords
  <2>1. NoSize \in 0..NoSize /\ <<>> \in Seq(Bits)
    BY DEF NoSize, HeaderSize
  <2> QED
    BY <1>1, <2>1 DEF FramesClose, FramedRecords
<1> HIDE DEF g
<1>4. LineSound(g) /\ Whole(g) = Whole(framed)
  BY <1>1, <1>2, LineKept
<1>5. ReadUpTo(g) = framed.arrived
  BY <1>1, <1>2 DEF ReadUpTo
<1>6. Span(<<>>, framed.input, framed.arrived, framed.arrived)
  <2>1. SubSeq(framed.input, framed.arrived + 1, framed.arrived) = <<>>
    BY <1>1, SubSeqEmpty
  <2> QED
    BY <1>1, <2>1 DEF Span
<1>7. DecoderSound(g)
  <2>1. Whole(g) \in 0..ReadUpTo(g)
    BY <1>1, <1>4, <1>5
  <2> QED
    BY <1>2, <1>5, <1>6, <2>1 DEF DecoderSound
<1> QED
  BY <1>3, <1>4, <1>7 DEF FramesInv, FramedSound, g

LEMMA FramesStep == FramesInv /\ [FramesNext]_framed => FramesInv'
BY FrameChunkSound, HeaderTurnSound, PayloadTurnSound, EndSound, CloseSound DEF FramesNext, FramesInv

LEMMA FramesAreWhole == FramesInv => FramesWhole
<1> SUFFICES ASSUME FramesInv
             PROVE  FramesWhole
  OBVIOUS
<1> DEFINE f == framed
           n == Len(f.out)
<1>1. /\ f \in FramedRecords /\ f.input \in Seq(Bits) /\ f.arrived \in Nat /\ Whole(f) \in Nat
      /\ ReadUpTo(f) \in Nat /\ Whole(f) <= ReadUpTo(f) /\ ReadUpTo(f) <= f.arrived
      /\ f.chunk = <<>> => ReadUpTo(f) = f.arrived
  BY AllRead DEF FramesInv
<1>2. LineSound(f) /\ DecoderSound(f)
  BY DEF FramesInv, FramedSound
<1>3. Whole(f) = EndOf(f, n)
  BY DEF Whole
<1>4. ASSUME NEW k \in 1..n
      PROVE  /\ EndOf(f, k) = EndOf(f, k - 1) + HeaderSize + Announced(f, k - 1) /\ EndOf(f, k) <= f.arrived
             /\ Announced(f, k - 1) <= MaxMessageSize
             /\ f.out[k].message = SubSeq(f.input, EndOf(f, k - 1) + HeaderSize + 1, EndOf(f, k))
  <2>1. Follows(f, k)
    BY <1>2, <1>4 DEF LineSound
  <2>2. EndOf(f, k) \in Nat
    <3>1. f.out \in Seq([message : Seq(Bits), end : Nat]) /\ k \in 1..Len(f.out)
      BY <1>1, <1>4 DEF FramedRecords
    <3>2. f.out[k] \in [message : Seq(Bits), end : Nat]
      BY <3>1, ElementOfSeq
    <3>3. k # 0 /\ f.out[k].end \in Nat
      BY <1>4, <3>2
    <3> QED
      BY <3>3 DEF EndOf
  <2> QED
    BY <1>1, <2>1, <2>2 DEF Follows
<1>5. ASSUME f.state \in {"reading", "cut", "ended"}, f.chunk = <<>>
      PROVE  /\ Incomplete(f) <=> f.arrived > EndOf(f, n)
             /\ f.arrived >= EndOf(f, n) + HeaderSize =>
                  Announced(f, n) <= MaxMessageSize /\ f.arrived < EndOf(f, n) + HeaderSize + Announced(f, n)
  <2>1. PartialSound(f) /\ ReadUpTo(f) = f.arrived
    BY <1>1, <1>2, <1>5 DEF DecoderSound
  <2>2. CASE f.size = NoSize
    <3>1. Span(f.header, f.input, Whole(f), f.arrived) /\ f.arrived < Whole(f) + HeaderSize
      BY <2>1, <2>2 DEF PartialSound
    <3>2. f.header \in Seq(Bits) /\ Len(f.header) = f.arrived - Whole(f)
      BY <1>1, <3>1, SpanIs
    <3>3. f.header # <<>> <=> Len(f.header) > 0
      BY <3>2, EmptySeq
    <3>4. f.header # <<>> <=> f.arrived > Whole(f)
      BY <1>1, <3>2, <3>3
    <3> QED
      BY <1>1, <1>3, <2>2, <3>1, <3>4 DEF Incomplete, HeaderSize
  <2>3. CASE f.size # NoSize
    <3>1. /\ f.size = Announced(f, n) /\ f.size <= MaxMessageSize /\ Span(f.payload, f.input, Whole(f) + HeaderSize, f.arrived)
          /\ f.arrived < Whole(f) + HeaderSize + f.size
      BY <2>1, <2>3 DEF PartialSound
    <3>2. Whole(f) + HeaderSize <= f.arrived
      BY <1>1, <3>1, SpanIs
    <3>3. f.arrived > Whole(f)
      BY <1>1, <3>2 DEF HeaderSize
    <3> QED
      BY <1>3, <2>3, <3>1, <3>3 DEF Incomplete
  <2> QED
    BY <2>2, <2>3
<1>6. f.state \in {"cut", "ended", "oversized"} => f.chunk = <<>>
  BY <1>2 DEF DecoderSound
<1>7. f.state = "cut" => f.arrived > EndOf(f, n)
  BY <1>2, <1>5, <1>6 DEF DecoderSound
<1>8. f.state = "ended" => f.arrived = EndOf(f, n)
  <2> SUFFICES ASSUME f.state = "ended"
               PROVE  f.arrived = EndOf(f, n)
    OBVIOUS
  <2>1. ~(f.arrived > EndOf(f, n))
    BY <1>2, <1>5, <1>6 DEF DecoderSound
  <2> QED
    BY <1>1, <1>3, <2>1
<1>9. f.state = "oversized" => f.arrived >= EndOf(f, n) + HeaderSize /\ Announced(f, n) > MaxMessageSize
  BY <1>2, <1>3 DEF DecoderSound
<1> QED
  BY <1>4, <1>5, <1>7, <1>8, <1>9 DEF FramesWhole

-----------------------------------------------------------------------------
(* Downloads: numbers in two halves *)

\* Quotient and remainder.
LEMMA DivModIs ==
  ASSUME NEW m \in Nat, m > 0, NEW x \in Nat, NEW q \in Nat, NEW r \in Nat, q = x \div m, r = x % m
  PROVE  x = m * q + r
OBVIOUS

LEMMA DivModOnly ==
  ASSUME NEW m \in Nat, m > 0, NEW x \in Nat, NEW q \in Nat, NEW r \in 0..m - 1, x = m * q + r
  PROVE  x % m = r /\ x \div m = q
OBVIOUS

LEMMA DivMod ==
  ASSUME NEW m \in Nat, m > 0, NEW x \in Nat
  PROVE  \E q \in Nat, r \in 0..m - 1 : x = m * q + r /\ x % m = r /\ x \div m = q
<1>1. x \div m \in Nat /\ x % m \in 0..m - 1
  OBVIOUS
<1>2. PICK q \in Nat : q = x \div m
  BY <1>1
<1>3. PICK r \in 0..m - 1 : r = x % m
  BY <1>1
<1>4. x = m * q + r
  BY <1>2, <1>3, DivModIs
<1> QED
  BY <1>2, <1>3, <1>4

\* Counting on from a number that wrapped.
LEMMA ModSum ==
  ASSUME NEW m \in Nat, m > 0, NEW a \in Nat, NEW b \in Nat
  PROVE  ((a % m) + b) % m = (a + b) % m
<1>1. PICK q \in Nat, r \in 0..m - 1 : a = m * q + r /\ a % m = r
  BY DivMod
<1>2. PICK p \in Nat, s \in 0..m - 1 : r + b = m * p + s /\ (r + b) % m = s
  <2>1. r + b \in Nat
    OBVIOUS
  <2> QED
    BY <2>1, DivMod
<1>3. m * (q + p) = m * q + m * p
  OBVIOUS
<1>4. a + b = m * (q + p) + s /\ a + b \in Nat /\ q + p \in Nat
  <2>1. m * q \in Nat /\ m * p \in Nat
    OBVIOUS
  <2> DEFINE mq == m * q
             mp == m * p
             mqp == m * (q + p)
  <2>2. a = mq + r /\ r + b = mp + s /\ mqp = mq + mp /\ mq \in Nat /\ mp \in Nat
    BY <1>1, <1>2, <1>3, <2>1
  <2> HIDE DEF mq, mp, mqp
  <2>3. a + b = mqp + s
    BY <2>2
  <2> QED
    BY <2>3 DEF mqp
<1>5. (a + b) % m = s
  BY <1>4, DivModOnly
<1> QED
  BY <1>1, <1>2, <1>5

\* Two numbers beside each other differ where they wrap, too.
LEMMA ModNext ==
  ASSUME NEW m \in Nat, m > 1, NEW a \in Nat
  PROVE  (a + 1) % m # a % m
<1>0. m > 0
  OBVIOUS
<1>1. PICK q \in Nat, r \in 0..m - 1 : a = m * q + r /\ a % m = r
  BY DivMod
<1>2. CASE r + 1 < m
  <2>1. a + 1 \in Nat /\ r + 1 \in 0..m - 1 /\ a + 1 = m * q + (r + 1)
    BY <1>1, <1>2
  <2>2. (a + 1) % m = r + 1
    <3> DEFINE x == a + 1
               y == r + 1
    <3>1. x \in Nat /\ y \in 0..m - 1 /\ x = m * q + y
      BY <2>1
    <3> HIDE DEF x, y
    <3>2. x % m = y
      BY <1>0, <3>1, DivModOnly
    <3> QED
      BY <3>2 DEF x, y
  <2> QED
    BY <1>1, <2>2
<1>3. CASE r + 1 = m
  <2>1. m * (q + 1) = m * q + m
    OBVIOUS
  <2>2. a + 1 \in Nat /\ 0 \in 0..m - 1 /\ a + 1 = m * (q + 1) + 0 /\ q + 1 \in Nat
    BY <1>1, <1>3, <2>1
  <2>3. (a + 1) % m = 0
    <3> DEFINE x == a + 1
               p == q + 1
    <3>1. x \in Nat /\ p \in Nat /\ 0 \in 0..m - 1 /\ x = m * p + 0
      BY <2>2
    <3> HIDE DEF x, p
    <3>2. x % m = 0
      BY <1>0, <3>1, DivModOnly
    <3> QED
      BY <3>2 DEF x
  <2> QED
    BY <1>1, <1>3, <2>3
<1> QED
  BY <1>2, <1>3

\* n is an even number of bytes: where they end, the places begin again.
LEMMA Even ==
  ASSUME NEW h \in Nat, NEW i \in Nat
  PROVE  (2 * h + i) % 2 = i % 2 /\ (2 * h + i) \div 2 = h + (i \div 2)
<1>1. PICK q \in Nat, r \in 0..1 : i = 2 * q + r /\ i % 2 = r /\ i \div 2 = q
  BY DivMod
<1>2. 2 * h + i \in Nat /\ h + q \in Nat /\ 2 * h + i = 2 * (h + q) + r /\ r \in 0..2 - 1
  BY <1>1
<1> QED
  BY <1>1, <1>2, DivModOnly

CounterRange == [upper : 0..HalfRange - 1, lower : 0..HalfRange - 1]

LEMMA Sizes == HalfRange \in Nat /\ MaxContent \in Nat /\ 4 + MaxContent < 2 * HalfRange - 2 /\ HalfRange > 3
BY StreamsAssumption DEF BlockSize, ChecksumSize

LEMMA RangeIs == Range128 \in Nat /\ Range128 > 1
<1>1. \A r \in Nat : r > 3 => r * r \in Nat /\ r * r > 1
  <2> SUFFICES ASSUME NEW r \in Nat, r > 3
               PROVE  r * r \in Nat /\ r * r > 1
    OBVIOUS
  <2>1. PICK k \in Nat : r = k + 4
    <3>1. r - 4 \in Nat /\ r = r - 4 + 4
      OBVIOUS
    <3> QED
      BY <3>1
  <2> QED
    BY <2>1
<1> QED
  BY <1>1, Sizes DEF Range128

LEMMA ValueRange == \A c \in CounterRange : Value(c) \in 0..Range128 - 1
<1> SUFFICES ASSUME NEW c \in CounterRange
             PROVE  Value(c) \in 0..Range128 - 1
  OBVIOUS
<1>1. \A r \in Nat : \A u, l \in 0..r - 1 : u * r + l \in 0..r * r - 1
  <2> SUFFICES ASSUME NEW r \in Nat, NEW u \in 0..r - 1, NEW l \in 0..r - 1
               PROVE  u * r + l \in 0..r * r - 1
    OBVIOUS
  <2>1. PICK k \in Nat : r = u + 1 + k
    <3>1. r - u - 1 \in Nat /\ r = u + 1 + (r - u - 1)
      OBVIOUS
    <3> QED
      BY <3>1
  <2>2. r * r = u * r + r + k * r /\ k * r \in Nat /\ u * r \in Nat
    <3>1. (u + 1 + k) * r = u * r + r + k * r
      OBVIOUS
    <3> QED
      BY <2>1, <3>1
  <2> QED
    BY <2>2
<1> QED
  BY <1>1, Sizes DEF Value, Range128, CounterRange

\* The two halves count on as one number does.  (incrementCounter)
LEMMA Counts ==
  ASSUME NEW c \in CounterRange, NEW n \in Nat, n < HalfRange
  PROVE  Incremented(c, n) \in CounterRange /\ Value(Incremented(c, n)) = (Value(c) + n) % Range128
<1> DEFINE r == HalfRange
           u == c.upper
           l == c.lower
           next == (l + n) % r
           ur == u * r
           rr == r * r
<1>1. /\ r \in Nat /\ r > 3 /\ u \in 0..r - 1 /\ l \in 0..r - 1 /\ Value(c) = ur + l /\ Range128 = rr
      /\ Value(c) \in 0..rr - 1
  BY Sizes, ValueRange DEF CounterRange, Value, Range128
<1>2. ur \in Nat /\ rr \in Nat /\ rr > 1 /\ (u + 1 < r => ur + r + r <= rr) /\ (u + 1 = r => ur + r = rr)
      /\ (u + 1) * r = ur + r /\ 0 * r = 0 /\ ur + r <= rr
  <2>1. PICK k \in Nat : r = u + 1 + k
    <3>1. r - u - 1 \in Nat /\ r = u + 1 + (r - u - 1)
      BY <1>1
    <3> QED
      BY <3>1
  <2>2. r * r = ur + r + k * r /\ (u + 1) * r = ur + r /\ 0 * r = 0 /\ ur \in Nat /\ k * r \in Nat
    <3>1. (u + 1 + k) * r = u * r + r + k * r /\ (u + 1) * r = u * r + r /\ 0 * r = 0 /\ u * r \in Nat /\ k * r \in Nat
      BY <1>1
    <3> QED
      BY <2>1, <3>1
  <2>3. (k >= 1 => k * r >= r) /\ (k = 0 => k * r = 0)
    <3>1. CASE k = 0
      BY <1>1, <3>1
    <3>2. CASE k >= 1
      <4>1. PICK j \in Nat : k = j + 1
        <5>1. k - 1 \in Nat /\ k = k - 1 + 1
          BY <3>2
        <5> QED
          BY <5>1
      <4>2. (j + 1) * r = j * r + r /\ j * r \in Nat
        BY <1>1
      <4> QED
        BY <1>1, <3>2, <4>1, <4>2
    <3> QED
      BY <3>1, <3>2
  <2>4. rr = ur + r + k * r
    BY <2>2
  <2> DEFINE kr == k * r
  <2>5. rr = ur + r + kr /\ kr \in Nat /\ (k >= 1 => kr >= r) /\ (k = 0 => kr = 0)
    BY <2>2, <2>3, <2>4
  <2> HIDE DEF kr, rr, ur
  <2> QED
    <3>1. k >= 1 => ur + r + r <= rr
      BY <1>1, <2>2, <2>5
    <3>2. k = 0 => ur + r = rr
      BY <1>1, <2>2, <2>5
    <3>3. (u + 1 < r => k >= 1) /\ (u + 1 = r => k = 0)
      BY <1>1, <2>1
    <3>4. rr \in Nat /\ ur + r <= rr /\ rr > 1
      BY <1>1, <2>2, <2>5
    <3> QED
      BY <2>2, <3>1, <3>2, <3>3, <3>4
<1>3. Incremented(c, n) = [lower |-> next, upper |-> IF next < l THEN (u + 1) % r ELSE u]
  BY DEF Incremented
<1> HIDE DEF r, u, l, ur, rr, next
<1>4. ASSUME NEW x \in 0..rr - 1 PROVE x % rr = x
  BY <1>2
<1>5. CASE l + n < r
  <2>1. next = l + n
    <3>1. l + n \in 0..r - 1 /\ l + n \in Nat
      BY <1>1, <1>5
    <3> QED
      BY <1>1, <3>1 DEF next
  <2>2. ~(next < l)
    BY <1>1, <2>1
  <2>3. Incremented(c, n) = [lower |-> l + n, upper |-> u]
    BY <1>3, <2>1, <2>2
  <2>4. Incremented(c, n) \in CounterRange
    BY <1>1, <1>5, <2>3 DEF CounterRange, r
  <2>5. Value(Incremented(c, n)) = ur + (l + n)
    BY <2>3 DEF Value, ur, r
  <2>6. ur + l + n \in 0..rr - 1
    BY <1>1, <1>2, <1>5
  <2>7. ur + (l + n) = ur + l + n
    BY <1>1, <1>2
  <2> QED
    BY <1>1, <1>4, <2>4, <2>5, <2>6, <2>7
<1>6. CASE l + n >= r
  <2>1. next = l + n - r
    <3>1. l + n \in Nat /\ l + n - r \in 0..r - 1 /\ l + n = r * 1 + (l + n - r)
      BY <1>1, <1>6 DEF r
    <3>2. (l + n) % r = l + n - r
      BY <1>1, <3>1, DivModOnly
    <3> QED
      BY <3>2 DEF next
  <2>2. next < l /\ next \in 0..r - 1
    BY <1>1, <1>6, <2>1 DEF r
  <2>3. CASE u + 1 < r
    <3>1. (u + 1) % r = u + 1
      <4>1. u + 1 \in 0..r - 1
        BY <1>1, <2>3
      <4> QED
        BY <1>1, <4>1
    <3>2. Incremented(c, n) = [lower |-> next, upper |-> u + 1]
      BY <1>3, <2>2, <3>1
    <3>3. Incremented(c, n) \in CounterRange
      <4>1. u + 1 \in 0..r - 1
        BY <1>1, <2>3
      <4> QED
        BY <2>2, <3>2, <4>1 DEF CounterRange, r
    <3>4. Value(Incremented(c, n)) = (u + 1) * r + next
      BY <3>2 DEF Value, r
    <3>5. (u + 1) * r + next = ur + l + n
      <4>1. (u + 1) * r = ur + r
        BY <1>2
      <4>2. ur + r + next = ur + l + n
        BY <1>1, <1>2, <2>1
      <4> QED
        BY <4>1, <4>2
    <3>6. ur + l + n \in 0..rr - 1
      BY <1>1, <1>2, <2>1, <2>2, <2>3
    <3> QED
      BY <1>1, <1>4, <3>3, <3>4, <3>5, <3>6
  <2>4. CASE u + 1 = r
    <3>1. (u + 1) % r = 0
      <4>1. u + 1 = r * 1 + 0 /\ 0 \in 0..r - 1 /\ u + 1 \in Nat
        BY <1>1, <2>4
      <4> QED
        BY <1>1, <4>1, DivModOnly
    <3>2. Incremented(c, n) = [lower |-> next, upper |-> 0]
      BY <1>3, <2>2, <3>1
    <3>3. Incremented(c, n) \in CounterRange
      <4>1. 0 \in 0..r - 1
        BY <1>1
      <4> QED
        BY <2>2, <3>2, <4>1 DEF CounterRange, r
    <3>4. Value(Incremented(c, n)) = 0 * r + next
      BY <3>2 DEF Value, r
    <3>5. Value(Incremented(c, n)) = next
      <4>1. 0 * r = 0
        BY <1>2
      <4>2. 0 + next = next
        BY <2>2
      <4> QED
        BY <3>4, <4>1, <4>2
    <3>6. ur + l + n = rr * 1 + next /\ ur + l + n \in Nat /\ next \in 0..rr - 1
      BY <1>1, <1>2, <2>1, <2>2, <2>4
    <3>7. (ur + l + n) % rr = next
      BY <1>2, <3>6, DivModOnly
    <3> QED
      BY <1>1, <3>3, <3>5, <3>7
  <2> QED
    BY <1>1, <2>3, <2>4
<1> QED
  BY <1>1, <1>5, <1>6

-----------------------------------------------------------------------------
(* What a download has to make of the file *)

\* A block of the IV that is not as it was sent shifts the counter by one, and no byte is right.
Shifted(d) == d.corrupted \in 1..BlockSize
Clear(d) == [i \in 1..ChecksumSize + d.size |-> IF Shifted(d) \/ d.corrupted = BlockSize + i THEN 0 ELSE i]
FirstValue(d) == Value(d.counter) + (IF Shifted(d) THEN 1 ELSE 0)

DownloadRecords ==
  [size : Nat, counter : CounterRange, corrupted : Nat, arrived : Nat,
   leftover : Seq(Nat), begun : BOOLEAN, position : CounterRange, unaligned : Seq(Nat),
   checksum : Seq(Nat), delivered : Seq(Nat), state : {"open", "done", "failed"}]
FileKnown(d) ==
  /\ d \in DownloadRecords /\ d.size <= MaxContent
  /\ d.corrupted <= BlockSize + ChecksumSize + d.size /\ d.arrived <= BlockSize + ChecksumSize + d.size
SameFile(d, e) == d.size = e.size /\ d.counter = e.counter /\ d.corrupted = e.corrupted

\* n bytes are decrypted, and the counter has counted h blocks.
Output(d, n) ==
  /\ Span(d.checksum, Clear(d), 0, Least(ChecksumSize, n))
  /\ Span(d.delivered, Clear(d), Least(ChecksumSize, n), n)
Position(d, h) == Value(d.position) = (FirstValue(d) + h) % Range128

LEMMA FileIs ==
  ASSUME NEW d, FileKnown(d)
  PROVE  /\ File(d) \in Seq(Nat) /\ Len(File(d)) = 2 + 4 + d.size
         /\ \A i \in 1..2 + 4 + d.size : File(d)[i] = IF i = d.corrupted THEN 0 ELSE i
<1>1. d.size \in Nat
  BY DEF FileKnown, DownloadRecords
<1>2. \A n \in Nat : [i \in 1..n |-> IF i = d.corrupted THEN 0 ELSE i] \in Seq(Nat)
  BY SeqDef
<1>3. 2 + 4 + d.size \in Nat
  BY <1>1
<1>4. File(d) = [i \in 1..2 + 4 + d.size |-> IF i = d.corrupted THEN 0 ELSE i]
  BY DEF File, BlockSize, ChecksumSize
<1>5. File(d) \in Seq(Nat) /\ DOMAIN File(d) = 1..2 + 4 + d.size
  BY <1>2, <1>3, <1>4
<1> QED
  BY <1>3, <1>4, <1>5, LenProperties

LEMMA ClearIs ==
  ASSUME NEW d, FileKnown(d)
  PROVE  /\ Clear(d) \in Seq(Nat) /\ Len(Clear(d)) = 4 + d.size
         /\ \A i \in 1..4 + d.size : Clear(d)[i] = IF Shifted(d) \/ d.corrupted = 2 + i THEN 0 ELSE i
<1>1. d.size \in Nat
  BY DEF FileKnown, DownloadRecords
<1>2. \A n \in Nat : [i \in 1..n |-> IF Shifted(d) \/ d.corrupted = 2 + i THEN 0 ELSE i] \in Seq(Nat)
  BY SeqDef
<1>3. 4 + d.size \in Nat
  BY <1>1
<1>4. Clear(d) = [i \in 1..4 + d.size |-> IF Shifted(d) \/ d.corrupted = 2 + i THEN 0 ELSE i]
  BY DEF Clear, BlockSize, ChecksumSize
<1>5. Clear(d) \in Seq(Nat) /\ DOMAIN Clear(d) = 1..4 + d.size
  BY <1>2, <1>3, <1>4
<1> QED
  BY <1>3, <1>4, <1>5, LenProperties

LEMMA FirstValueIs ==
  ASSUME NEW d, FileKnown(d)
  PROVE  Value(d.counter) \in Nat /\ FirstValue(d) \in Nat /\ Range128 \in Nat /\ Range128 > 0
<1>1. d.counter \in CounterRange
  BY DEF FileKnown, DownloadRecords
<1> QED
  BY <1>1, ValueRange, RangeIs DEF FirstValue

\* The key that meets a byte is the byte's own, except when the counter was shifted.
LEMMA KeyMeets ==
  ASSUME NEW d, FileKnown(d), NEW h \in Nat, Position(d, h), NEW i \in Nat, i >= 1
  PROVE  LET key == <<(Value(d.position) + ((i - 1) \div 2)) % Range128, (i - 1) % 2>>
         IN key = KeyAt(d, 2 * h + i) <=> ~Shifted(d)
<1> DEFINE v == Value(d.counter)
           m == Range128
           k == (i - 1) \div 2
           x == v + (h + k)
<1>1. v \in Nat /\ m \in Nat /\ m > 1 /\ i - 1 \in Nat /\ k \in Nat
  BY FirstValueIs, RangeIs
<1>2. KeyAt(d, 2 * h + i) = <<x % m, (i - 1) % 2>>
  <2>1. 2 * h + i - 1 = 2 * h + (i - 1)
    OBVIOUS
  <2>2. (2 * h + (i - 1)) % 2 = (i - 1) % 2 /\ (2 * h + (i - 1)) \div 2 = h + k
    BY <1>1, Even
  <2> HIDE DEF k
  <2> QED
    BY <2>1, <2>2 DEF KeyAt, BlockSize
<1>3. Value(d.position) = (FirstValue(d) + h) % m
  BY DEF Position
<1> HIDE DEF v, m, k
<1>4. (((FirstValue(d) + h) % m) + k) % m = (FirstValue(d) + h + k) % m
  <2>1. FirstValue(d) + h \in Nat /\ m > 0
    BY <1>1, FirstValueIs
  <2> QED
    BY <1>1, <2>1, ModSum
<1>5. CASE Shifted(d)
  <2>1. FirstValue(d) + h + k = x + 1
    <3>1. FirstValue(d) = v + 1
      BY <1>5 DEF FirstValue, v
    <3> QED
      BY <1>1, <3>1
  <2>2. (x + 1) % m # x % m
    <3>1. x \in Nat
      BY <1>1
    <3> HIDE DEF x
    <3> QED
      BY <1>1, <3>1, ModNext
  <2> QED
    BY <1>2, <1>3, <1>4, <1>5, <2>1, <2>2 DEF k, m
<1>6. CASE ~Shifted(d)
  <2>1. FirstValue(d) + h + k = x
    <3>1. FirstValue(d) = v
      BY <1>1, <1>6 DEF FirstValue, v
    <3> QED
      BY <1>1, <3>1
  <2> QED
    BY <1>2, <1>3, <1>4, <1>6, <2>1 DEF k, m
<1> QED
  BY <1>5, <1>6

\* What stands at a place of the file is decrypted to what has to be there.
LEMMA DecryptSpan ==
  ASSUME NEW d, FileKnown(d), NEW h \in Nat, Position(d, h), NEW n \in Nat, NEW buffer,
         Span(buffer, File(d), 2 + 2 * h, 2 + n)
  PROVE  Span(Decrypt(d, buffer), Clear(d), 2 * h, n)
<1> DEFINE plain == Decrypt(d, buffer)
<1>1. /\ File(d) \in Seq(Nat) /\ Len(File(d)) = 2 + 4 + d.size /\ d.size \in Nat
      /\ \A i \in 1..2 + 4 + d.size : File(d)[i] = IF i = d.corrupted THEN 0 ELSE i
  BY FileIs DEF FileKnown, DownloadRecords
<1>2. /\ Clear(d) \in Seq(Nat) /\ Len(Clear(d)) = 4 + d.size
      /\ \A i \in 1..4 + d.size : Clear(d)[i] = IF Shifted(d) \/ d.corrupted = 2 + i THEN 0 ELSE i
  BY ClearIs
<1>3. /\ buffer \in Seq(Nat) /\ Len(buffer) = 2 + n - (2 + 2 * h) /\ 2 + 2 * h <= 2 + n /\ 2 + n <= 2 + 4 + d.size
      /\ \A i \in 1..2 + n - (2 + 2 * h) : buffer[i] = File(d)[2 + 2 * h + i]
  <2> DEFINE a == 2 + 2 * h
             b == 2 + n
  <2>1. Span(buffer, File(d), a, b)
    OBVIOUS
  <2> HIDE DEF a, b
  <2>2. buffer \in Seq(Nat) /\ Len(buffer) = b - a /\ a <= b /\ b <= Len(File(d)) /\ \A i \in 1..b - a : buffer[i] = File(d)[a + i]
    <3>1. File(d) \in Seq(Nat)
      BY <1>1
    <3> QED
      BY <2>1, <3>1, SpanIs
  <2> QED
    BY <1>1, <2>2 DEF a, b
<1> DEFINE m == n - 2 * h
<1>4. m \in Nat /\ Len(buffer) = m /\ 2 * h + m = n /\ 2 * h \in 0..4 + d.size /\ n \in 2 * h..4 + d.size
  <2>1. \A l, z \in Nat : l = 2 + n - (2 + 2 * h) /\ 2 + 2 * h <= 2 + n /\ 2 + n <= 2 + 4 + z
          => n - 2 * h \in Nat /\ l = n - 2 * h /\ 2 * h + (n - 2 * h) = n /\ 2 * h \in 0..4 + z /\ n \in 2 * h..4 + z
    OBVIOUS
  <2>2. Len(buffer) \in Nat /\ d.size \in Nat
    BY <1>1, <1>3
  <2>3. Len(buffer) = 2 + n - (2 + 2 * h) /\ 2 + 2 * h <= 2 + n /\ 2 + n <= 2 + 4 + d.size
    BY <1>3
  <2> QED
    BY <2>1, <2>2, <2>3
<1>5. DOMAIN buffer = 1..m /\ \A i \in 1..m : buffer[i] = File(d)[2 + 2 * h + i]
  <2>1. 2 + n - (2 + 2 * h) = m
    OBVIOUS
  <2> QED
    BY <1>3, <1>4, <2>1, LenProperties
<1> HIDE DEF m
<1>6. plain = [i \in 1..m |->
                 IF buffer[i] > 2 /\ <<(Value(d.position) + ((i - 1) \div 2)) % Range128, (i - 1) % 2>> = KeyAt(d, buffer[i] - 2)
                 THEN buffer[i] - 2 ELSE 0]
  BY <1>5 DEF Decrypt, BlockSize
<1>7. ASSUME NEW i \in 1..m
      PROVE  plain[i] = Clear(d)[2 * h + i]
  <2>1. /\ 2 * h + i \in 1..4 + d.size /\ 2 + 2 * h + i \in 1..2 + 4 + d.size /\ i \in Nat /\ i >= 1
        /\ 2 + 2 * h + i = 2 + (2 * h + i) /\ 2 + 2 * h + i - 2 = 2 * h + i /\ 2 + 2 * h + i > 2
    <3>1. d.size \in Nat /\ m \in Nat /\ 2 * h + m = n /\ n <= 4 + d.size
      BY <1>1, <1>4
    <3> QED
      BY <3>1
  <2>2. buffer[i] = IF 2 + 2 * h + i = d.corrupted THEN 0 ELSE 2 + 2 * h + i
    BY <1>1, <1>5, <2>1
  <2>3. <<(Value(d.position) + ((i - 1) \div 2)) % Range128, (i - 1) % 2>> = KeyAt(d, 2 * h + i) <=> ~Shifted(d)
    BY <2>1, KeyMeets
  <2>4. plain[i] = IF buffer[i] > 2 /\ <<(Value(d.position) + ((i - 1) \div 2)) % Range128, (i - 1) % 2>> = KeyAt(d, buffer[i] - 2)
                   THEN buffer[i] - 2 ELSE 0
    BY <1>6
  <2>5. Clear(d)[2 * h + i] = IF Shifted(d) \/ d.corrupted = 2 + (2 * h + i) THEN 0 ELSE 2 * h + i
    BY <1>2, <2>1
  <2> HIDE DEF plain
  <2>6. CASE 2 + 2 * h + i = d.corrupted
    <3>1. ~(buffer[i] > 2)
      BY <2>2, <2>6
    <3> QED
      BY <2>1, <2>4, <2>5, <2>6, <3>1
  <2>7. CASE 2 + 2 * h + i # d.corrupted
    <3>1. buffer[i] > 2 /\ buffer[i] - 2 = 2 * h + i
      BY <2>1, <2>2, <2>7
    <3> QED
      BY <2>1, <2>3, <2>4, <2>5, <2>7, <3>1
  <2> QED
    BY <2>6, <2>7
<1>8. \A i \in 1..m : Clear(d)[2 * h + i] \in Nat
  <2> SUFFICES ASSUME NEW i \in 1..m
               PROVE  Clear(d)[2 * h + i] \in Nat
    OBVIOUS
  <2>1. 2 * h + i \in 1..4 + d.size
    BY <1>1, <1>4
  <2> QED
    BY <1>2, <2>1, ElementOfSeq
<1>9. plain \in Seq(Nat) /\ Len(plain) = m
  <2>1. DOMAIN plain = 1..m
    BY <1>6
  <2>2. plain \in [1..m -> Nat]
    <3>1. \A i \in 1..m : plain[i] \in Nat
      BY <1>7, <1>8
    <3> QED
      BY <1>6, <3>1
  <2> HIDE DEF plain
  <2>3. plain \in Seq(Nat)
    BY <1>4, <2>2, SeqDef
  <2> QED
    BY <1>4, <2>1, <2>3, LenProperties
<1>10. /\ SubSeq(Clear(d), 2 * h + 1, n) \in Seq(Nat) /\ Len(SubSeq(Clear(d), 2 * h + 1, n)) = n - 2 * h
       /\ \A i \in 1..n - 2 * h : SubSeq(Clear(d), 2 * h + 1, n)[i] = Clear(d)[2 * h + i]
  <2> DEFINE a == 2 * h
  <2>1. a \in 0..Len(Clear(d)) /\ n \in a..Len(Clear(d))
    BY <1>2, <1>4
  <2> HIDE DEF a
  <2>2. /\ SubSeq(Clear(d), a + 1, n) \in Seq(Nat) /\ Len(SubSeq(Clear(d), a + 1, n)) = n - a
        /\ \A i \in 1..n - a : SubSeq(Clear(d), a + 1, n)[i] = Clear(d)[a + i]
    BY <1>2, <2>1, Slice
  <2> QED
    BY <2>2 DEF a
<1>11. plain = SubSeq(Clear(d), 2 * h + 1, n)
  <2> DEFINE t == SubSeq(Clear(d), 2 * h + 1, n)
  <2>1. t \in Seq(Nat) /\ Len(t) = m /\ \A i \in 1..m : t[i] = plain[i]
    BY <1>7, <1>10 DEF m
  <2> HIDE DEF t, plain
  <2>2. plain = t
    BY <1>9, <2>1, SeqEqual
  <2> QED
    BY <2>2 DEF t
<1> QED
  BY <1>2, <1>4, <1>11 DEF Span

-----------------------------------------------------------------------------
(* The steps of a download *)

\* The next bytes: the checksum first, then the content.
LEMMA OutputGrows ==
  ASSUME NEW d, FileKnown(d), NEW a \in Nat, Output(d, a), NEW b \in Nat, NEW plain, Span(plain, Clear(d), a, b)
  PROVE  LET missing == ChecksumSize - Len(d.checksum)
         IN /\ Span(d.checksum \o Start(plain, missing), Clear(d), 0, Least(ChecksumSize, b))
            /\ Span(d.delivered \o After(plain, missing), Clear(d), Least(ChecksumSize, b), b)
<1> DEFINE missing == ChecksumSize - Len(d.checksum)
           cut == Least(a + missing, b)
<1>1. Clear(d) \in Seq(Nat) /\ Span(d.checksum, Clear(d), 0, Least(4, a)) /\ Span(d.delivered, Clear(d), Least(4, a), a)
  BY ClearIs DEF Output, ChecksumSize
<1>2. Len(d.checksum) = Least(4, a) - 0 /\ d.checksum \in Seq(Nat) /\ d.delivered \in Seq(Nat) /\ Len(d.delivered) = a - Least(4, a)
  BY <1>1, SpanIs
<1>3. a <= b
  BY <1>1, SpanIs
<1>4. missing = 4 - Least(4, a) /\ missing \in Nat
  BY <1>2 DEF Least, ChecksumSize
<1>5. /\ cut \in a..b /\ Span(Start(plain, missing), Clear(d), a, cut) /\ Span(After(plain, missing), Clear(d), cut, b)
  <2> HIDE DEF missing
  <2> QED
    BY <1>1, <1>4, SpanTake
<1>6. plain \in Seq(Nat) /\ Len(plain) = b - a
  BY <1>1, SpanIs
<1>7. CASE a < 4
  <2>1. Least(4, a) = a /\ cut = Least(4, b)
    BY <1>3, <1>4, <1>7 DEF Least
  <2> HIDE DEF missing, cut
  <2>2. Span(d.checksum \o Start(plain, missing), Clear(d), 0, cut)
    BY <1>1, <1>5, <2>1, SpanJoin
  <2>3. d.delivered = <<>>
    <3>1. Len(d.delivered) = 0
      BY <1>2, <2>1
    <3> QED
      BY <1>2, <3>1, EmptySeq
  <2>4. After(plain, missing) \in Seq(Nat)
    BY <1>1, <1>5, SpanIs
  <2>5. d.delivered \o After(plain, missing) = After(plain, missing)
    BY <2>3, <2>4, ConcatEmptySeq
  <2> QED
    BY <1>5, <2>1, <2>2, <2>5 DEF missing, ChecksumSize
<1>8. CASE a >= 4
  <2>1. Least(4, a) = 4 /\ Least(4, b) = 4 /\ missing = 0 /\ cut = a
    BY <1>3, <1>4, <1>8 DEF Least
  <2> HIDE DEF missing, cut
  <2>2. Start(plain, missing) = <<>>
    <3>1. Start(plain, missing) \in Seq(Nat) /\ Len(Start(plain, missing)) = cut - a
      <4>1. Clear(d) \in Seq(Nat)
        BY <1>1
      <4>2. Span(Start(plain, missing), Clear(d), a, cut)
        BY <1>5
      <4> QED
        BY <4>1, <4>2, SpanIs
    <3>2. Len(Start(plain, missing)) = 0
      BY <2>1, <3>1
    <3> QED
      BY <3>1, <3>2, EmptySeq
  <2>3. d.checksum \o Start(plain, missing) = d.checksum
    BY <1>2, <2>2, ConcatEmptySeq
  <2>4. Span(d.delivered \o After(plain, missing), Clear(d), 4, b)
    BY <1>1, <1>5, <2>1, SpanJoin
  <2> QED
    BY <1>1, <2>1, <2>3, <2>4 DEF missing, ChecksumSize
<1> QED
  BY <1>7, <1>8

LEMMA BlocksFew ==
  ASSUME NEW buffer, Len(buffer) \in Nat, Len(buffer) <= 4 + MaxContent
  PROVE  Blocks(buffer) \in Nat /\ Blocks(buffer) < HalfRange
<1>1. Len(buffer) + 2 - 1 \in Nat
  OBVIOUS
<1>2. PICK q \in Nat, r \in 0..1 : Len(buffer) + 2 - 1 = 2 * q + r /\ (Len(buffer) + 2 - 1) \div 2 = q
  BY <1>1, DivMod
<1>3. Blocks(buffer) = q
  BY <1>2 DEF Blocks, BlockSize
<1> QED
  BY <1>2, <1>3, Sizes

LEMMA BlocksOfEven == ASSUME NEW buffer, NEW j \in Nat, Len(buffer) = 2 * j PROVE Blocks(buffer) = j
<1>1. 2 * j + 2 - 1 = 2 * j + 1 /\ 2 * j + 1 \in Nat /\ 1 \in 0..2 - 1
  OBVIOUS
<1>2. (2 * j + 1) \div 2 = j
  BY <1>1, DivModOnly
<1> QED
  BY <1>1, <1>2 DEF Blocks, BlockSize

LEMMA ProcessedSound ==
  ASSUME NEW d, FileKnown(d), NEW h \in Nat, Position(d, h), Output(d, 2 * h),
         NEW n \in Nat, NEW buffer, Span(buffer, File(d), 2 + 2 * h, 2 + n)
  PROVE  LET e == Processed(d, buffer)
         IN /\ e \in DownloadRecords /\ SameFile(d, e) /\ e.arrived = d.arrived /\ e.leftover = d.leftover
            /\ e.begun = d.begun /\ e.unaligned = d.unaligned /\ e.state = d.state
            /\ Output(e, n)
            /\ \A j \in Nat : n = 2 * h + 2 * j => Position(e, h + j)
<1> DEFINE e == Processed(d, buffer)
           plain == Decrypt(d, buffer)
           missing == ChecksumSize - Len(d.checksum)
           checksum == d.checksum \o Start(plain, missing)
           delivered == d.delivered \o After(plain, missing)
<1>1. d \in DownloadRecords /\ d.size \in Nat /\ d.size <= MaxContent /\ d.position \in CounterRange
  BY DEF FileKnown, DownloadRecords
<1>2. Span(plain, Clear(d), 2 * h, n)
  BY DecryptSpan
<1>3. Clear(d) \in Seq(Nat)
  BY ClearIs
<1> HIDE DEF plain
<1>4. /\ Span(checksum, Clear(d), 0, Least(ChecksumSize, n)) /\ Span(delivered, Clear(d), Least(ChecksumSize, n), n)
  <2>1. 2 * h \in Nat
    OBVIOUS
  <2> QED
    BY <1>2, <2>1, OutputGrows
<1> HIDE DEF missing, checksum, delivered
<1>5. checksum \in Seq(Nat) /\ delivered \in Seq(Nat)
  BY <1>3, <1>4, SpanIs
<1>6. Len(buffer) = n - 2 * h /\ 2 * h <= n /\ n <= 4 + d.size
  <2> DEFINE a == 2 + 2 * h
             b == 2 + n
  <2>1. Span(buffer, File(d), a, b)
    OBVIOUS
  <2> HIDE DEF a, b
  <2>2. File(d) \in Seq(Nat) /\ Len(File(d)) = 2 + 4 + d.size
    BY FileIs
  <2>3. Len(buffer) = b - a /\ a <= b /\ b <= Len(File(d))
    <3>1. File(d) \in Seq(Nat)
      BY <2>2
    <3> QED
      BY <2>1, <3>1, SpanIs
  <2> QED
    BY <1>1, <2>2, <2>3 DEF a, b
<1>7. Blocks(buffer) \in Nat /\ Blocks(buffer) < HalfRange
  <2>1. Len(buffer) \in Nat /\ Len(buffer) <= 4 + MaxContent
    BY <1>1, <1>6, Sizes
  <2> QED
    BY <2>1, BlocksFew
<1>8. /\ Incremented(d.position, Blocks(buffer)) \in CounterRange
      /\ Value(Incremented(d.position, Blocks(buffer))) = (Value(d.position) + Blocks(buffer)) % Range128
  BY <1>1, <1>7, Counts
<1>9. e = [d EXCEPT !.position = Incremented(d.position, Blocks(buffer)), !.checksum = checksum, !.delivered = delivered]
  BY <1>1 DEF Processed, plain, missing, checksum, delivered, DownloadRecords
<1>10. e \in DownloadRecords
  BY <1>1, <1>5, <1>8, <1>9 DEF DownloadRecords
<1>11. /\ e.size = d.size /\ e.counter = d.counter /\ e.corrupted = d.corrupted /\ e.arrived = d.arrived /\ e.leftover = d.leftover
       /\ e.begun = d.begun /\ e.unaligned = d.unaligned /\ e.state = d.state
       /\ e.checksum = checksum /\ e.delivered = delivered /\ e.position = Incremented(d.position, Blocks(buffer))
  BY <1>1, <1>9 DEF DownloadRecords
<1> HIDE DEF e
<1>12. SameFile(d, e) /\ Clear(e) = Clear(d) /\ FirstValue(e) = FirstValue(d)
  BY <1>11 DEF SameFile, Clear, FirstValue, Shifted
<1>13. Output(e, n)
  BY <1>4, <1>11, <1>12 DEF Output
<1>14. ASSUME NEW j \in Nat, n = 2 * h + 2 * j
       PROVE  Position(e, h + j)
  <2>1. Blocks(buffer) = j
    <3>1. Len(buffer) = 2 * j
      BY <1>6, <1>14
    <3> QED
      BY <3>1, BlocksOfEven
  <2>2. Value(d.position) = (FirstValue(d) + h) % Range128
    BY DEF Position
  <2>3. Value(e.position) = (((FirstValue(d) + h) % Range128) + j) % Range128
    BY <1>8, <1>11, <2>1, <2>2
  <2>4. FirstValue(d) + h \in Nat /\ Range128 \in Nat /\ Range128 > 0 /\ FirstValue(d) \in Nat
    BY FirstValueIs
  <2>5. (((FirstValue(d) + h) % Range128) + j) % Range128 = (FirstValue(d) + h + j) % Range128
    <3> DEFINE x == FirstValue(d) + h
    <3> HIDE DEF x
    <3>1. ((x % Range128) + j) % Range128 = (x + j) % Range128
      BY <2>4, ModSum DEF x
    <3> QED
      BY <3>1 DEF x
  <2>6. FirstValue(d) + h + j = FirstValue(d) + (h + j)
    BY <2>4
  <2> QED
    BY <1>12, <2>3, <2>5, <2>6 DEF Position
<1> QED
  BY <1>10, <1>11, <1>12, <1>13, <1>14 DEF e

\* Of the first a bytes: not yet a whole IV, or h whole blocks behind it and less than another.
WaitingIn(d, a) ==
  /\ ~d.begun /\ Span(d.leftover, File(d), 0, a) /\ a < BlockSize
  /\ d.unaligned = <<>> /\ d.checksum = <<>> /\ d.delivered = <<>>
Reached(d, h, a) ==
  /\ d.begun /\ d.leftover = <<>>
  /\ Span(d.unaligned, File(d), BlockSize + BlockSize * h, a) /\ a < BlockSize + BlockSize * h + BlockSize
  /\ Output(d, BlockSize * h) /\ Position(d, h)
Reading(d, a) == WaitingIn(d, a) \/ \E h \in Nat : Reached(d, h, a)

LEMMA SameIs ==
  ASSUME NEW d, NEW e, SameFile(d, e)
  PROVE  File(e) = File(d) /\ Clear(e) = Clear(d) /\ FirstValue(e) = FirstValue(d) /\ Content(e) = Content(d)
BY DEF SameFile, File, Clear, FirstValue, Shifted, Content

LEMMA AlignedSound ==
  ASSUME NEW d, FileKnown(d), d.begun, d.leftover = <<>>, NEW h \in Nat, Position(d, h), Output(d, 2 * h),
         NEW a, NEW b, NEW chunk, Span(d.unaligned, File(d), 2 + 2 * h, a), Span(chunk, File(d), a, b)
  PROVE  LET e == Aligned(d, chunk)
         IN /\ e \in DownloadRecords /\ SameFile(d, e) /\ e.arrived = d.arrived /\ e.state = d.state
            /\ \E k \in Nat : Reached(e, k, b)
<1> DEFINE e == Aligned(d, chunk)
           buffer == d.unaligned \o chunk
           from == 2 + 2 * h
<1>1. File(d) \in Seq(Nat)
  BY FileIs
<1>2. Span(buffer, File(d), from, b)
  <2>1. Span(d.unaligned, File(d), from, a)
    OBVIOUS
  <2> HIDE DEF from
  <2> QED
    BY <1>1, <2>1, SpanJoin
<1> HIDE DEF buffer, from
<1>3. buffer \in Seq(Nat) /\ Len(buffer) = b - from /\ from \in Nat /\ b \in Nat /\ from <= b
  BY <1>1, <1>2, SpanIs
<1>4. PICK j \in Nat, r \in 0..1 : Len(buffer) = 2 * j + r /\ Len(buffer) % 2 = r
  <2>1. Len(buffer) \in Nat
    BY <1>3
  <2> QED
    BY <2>1, DivMod
<1> DEFINE length == Len(buffer) - (Len(buffer) % 2)
           rest == [d EXCEPT !.unaligned = After(buffer, length)]
           to == from + 2 * j
<1>5. length = 2 * j
  BY <1>4
<1> HIDE DEF length
<1>6. to \in Nat /\ to <= b /\ b < to + 2 /\ Least(from + length, b) = to /\ length \in Nat
  <2>1. \A x, y, z, s \in Nat : z - x = y + s /\ x <= z /\ s <= 1 => x + y \in Nat /\ x + y <= z /\ z < x + y + 2 /\ Least(x + y, z) = x + y
    BY DEF Least
  <2>2. b - from = 2 * j + r /\ r \in Nat /\ r <= 1 /\ 2 * j \in Nat
    BY <1>3, <1>4
  <2> QED
    BY <1>3, <1>5, <2>1, <2>2
<1>7. Span(Start(buffer, length), File(d), from, to) /\ Span(After(buffer, length), File(d), to, b)
  <2> HIDE DEF to
  <2>1. LET cut == Least(from + length, b)
        IN cut \in from..b /\ Span(Start(buffer, length), File(d), from, cut) /\ Span(After(buffer, length), File(d), cut, b)
    BY <1>1, <1>2, <1>6, SpanTake
  <2> QED
    BY <1>6, <2>1
<1>8. d \in DownloadRecords
  BY DEF FileKnown
<1>9. After(buffer, length) \in Seq(Nat)
  <2> HIDE DEF to
  <2> QED
    BY <1>1, <1>7, SpanIs
<1>10. rest \in DownloadRecords
  BY <1>8, <1>9 DEF DownloadRecords
<1>11. /\ rest.size = d.size /\ rest.counter = d.counter /\ rest.corrupted = d.corrupted /\ rest.arrived = d.arrived
       /\ rest.leftover = d.leftover /\ rest.begun = d.begun /\ rest.position = d.position /\ rest.state = d.state
       /\ rest.checksum = d.checksum /\ rest.delivered = d.delivered /\ rest.unaligned = After(buffer, length)
  BY <1>8 DEF DownloadRecords
<1>12. e = IF length = 0 THEN rest ELSE Processed(rest, Start(buffer, length))
  BY DEF Aligned, BlockSize, buffer, length
<1> HIDE DEF e, rest
<1>13. SameFile(d, rest) /\ FileKnown(rest)
  BY <1>10, <1>11 DEF SameFile, FileKnown
<1>14. File(rest) = File(d) /\ Clear(rest) = Clear(d) /\ FirstValue(rest) = FirstValue(d)
  BY <1>13, SameIs
<1>15. Position(rest, h) /\ Output(rest, 2 * h)
  BY <1>11, <1>14 DEF Position, Output
<1>16. to = 2 + 2 * (h + j) /\ h + j \in Nat
  BY <1>5 DEF from
<1>17. CASE length = 0
  <2>1. j = 0 /\ e = rest
    BY <1>5, <1>12, <1>17
  <2>2. to = 2 + 2 * h
    BY <1>16, <2>1
  <2>3. Reached(e, h, b)
    BY <1>6, <1>7, <1>11, <1>14, <1>15, <2>1, <2>2 DEF Reached, BlockSize
  <2> QED
    BY <1>10, <1>11, <1>13, <2>1, <2>3 DEF e
<1>18. CASE length # 0
  <2> DEFINE n == 2 * (h + j)
  <2>1. Span(Start(buffer, length), File(rest), 2 + 2 * h, 2 + n) /\ n \in Nat
    BY <1>7, <1>14, <1>16 DEF from
  <2>2. n = 2 * h + 2 * j
    OBVIOUS
  <2>3. e = Processed(rest, Start(buffer, length))
    BY <1>12, <1>18
  <2> HIDE DEF n
  <2>4. /\ e \in DownloadRecords /\ SameFile(rest, e) /\ e.arrived = rest.arrived /\ e.leftover = rest.leftover
        /\ e.begun = rest.begun /\ e.unaligned = rest.unaligned /\ e.state = rest.state
        /\ Output(e, n)
        /\ \A i \in Nat : n = 2 * h + 2 * i => Position(e, h + i)
    <3> DEFINE whole == Start(buffer, length)
    <3>1. FileKnown(rest) /\ Position(rest, h) /\ Output(rest, 2 * h) /\ n \in Nat /\ e = Processed(rest, whole)
      BY <1>13, <1>15, <2>1, <2>3
    <3>2. Span(whole, File(rest), 2 + 2 * h, 2 + n)
      BY <2>1
    <3> HIDE DEF whole
    <3>3. LET f == Processed(rest, whole)
          IN /\ f \in DownloadRecords /\ SameFile(rest, f) /\ f.arrived = rest.arrived /\ f.leftover = rest.leftover
             /\ f.begun = rest.begun /\ f.unaligned = rest.unaligned /\ f.state = rest.state
             /\ Output(f, n)
             /\ \A i \in Nat : n = 2 * h + 2 * i => Position(f, h + i)
      BY <3>1, <3>2, ProcessedSound
    <3> QED
      BY <3>1, <3>3
  <2>5. SameFile(d, e)
    BY <1>13, <2>4 DEF SameFile
  <2>6. File(e) = File(d)
    BY <2>5, SameIs
  <2>7. Reached(e, h + j, b)
    BY <1>6, <1>7, <1>11, <1>16, <2>2, <2>4, <2>6 DEF Reached, BlockSize, n
  <2> QED
    BY <1>11, <1>16, <2>4, <2>5, <2>7 DEF e
<1> QED
  BY <1>17, <1>18

\* A chunk takes the download on by as much as arrived.
LEMMA TransformSound ==
  ASSUME NEW d, FileKnown(d), NEW a, NEW b, Reading(d, a), NEW chunk, Span(chunk, File(d), a, b)
  PROVE  LET e == Transform(d, chunk)
         IN e \in DownloadRecords /\ SameFile(d, e) /\ e.arrived = d.arrived /\ e.state = d.state /\ Reading(e, b)
<1> DEFINE e == Transform(d, chunk)
           buffer == d.leftover \o chunk
<1>1. /\ File(d) \in Seq(Nat) /\ Len(File(d)) = 2 + 4 + d.size /\ d.size \in Nat
      /\ \A i \in 1..2 + 4 + d.size : File(d)[i] = IF i = d.corrupted THEN 0 ELSE i
  BY FileIs DEF FileKnown, DownloadRecords
<1>2. d \in DownloadRecords
  BY DEF FileKnown
<1>3. File(d) \in Seq(Nat)
  BY <1>1
<1>4. chunk \in Seq(Nat) /\ Len(chunk) = b - a /\ a \in Nat /\ b \in Nat /\ a <= b /\ b <= Len(File(d))
  BY <1>3, SpanIs
<1>5. CASE \E h \in Nat : Reached(d, h, a)
  <2>1. PICK h \in Nat : Reached(d, h, a)
    BY <1>5
  <2>2. /\ d.begun /\ d.leftover = <<>> /\ Span(d.unaligned, File(d), 2 + 2 * h, a) /\ a < 2 + 2 * h + 2
        /\ Output(d, 2 * h) /\ Position(d, h)
    BY <2>1 DEF Reached, BlockSize
  <2>3. buffer = chunk
    BY <1>4, <2>2, ConcatEmptySeq
  <2>4. [d EXCEPT !.leftover = <<>>, !.begun = TRUE, !.position = d.position] = d
    BY <1>2, <2>2 DEF DownloadRecords
  <2>5. e = IF chunk = <<>> THEN d ELSE Aligned(d, chunk)
    <3> HIDE DEF buffer
    <3> QED
      BY <1>2, <2>2, <2>3, <2>4 DEF Transform, buffer, DownloadRecords
  <2> HIDE DEF e
  <2>6. CASE chunk = <<>>
    <3>1. Len(chunk) = 0
      BY <2>6, EmptySeq
    <3>2. b = a
      BY <1>4, <3>1
    <3> QED
      BY <1>2, <1>5, <2>5, <2>6, <3>2 DEF SameFile, Reading, e
  <2>7. CASE chunk # <<>>
    <3>1. e = Aligned(d, chunk)
      BY <2>5, <2>7
    <3>2. /\ e \in DownloadRecords /\ SameFile(d, e) /\ e.arrived = d.arrived /\ e.state = d.state
          /\ \E k \in Nat : Reached(e, k, b)
      BY <2>2, <3>1, AlignedSound
    <3> QED
      BY <3>2 DEF Reading, e
  <2> QED
    BY <2>6, <2>7
<1>6. CASE WaitingIn(d, a)
  <2>1. /\ ~d.begun /\ Span(d.leftover, File(d), 0, a) /\ a < 2
        /\ d.unaligned = <<>> /\ d.checksum = <<>> /\ d.delivered = <<>>
    BY <1>6 DEF WaitingIn, BlockSize
  <2>2. Span(buffer, File(d), 0, b)
    BY <1>3, <2>1, SpanJoin
  <2> HIDE DEF buffer
  <2>3. buffer \in Seq(Nat) /\ Len(buffer) = b - 0
    BY <1>3, <2>2, SpanIs
  <2>4. CASE Len(buffer) < 2
    <3>1. e = [d EXCEPT !.leftover = buffer]
      BY <2>1, <2>4 DEF Transform, buffer, BlockSize
    <3> HIDE DEF e
    <3>2. e \in DownloadRecords
      BY <1>2, <2>3, <3>1 DEF DownloadRecords
    <3>3. /\ e.leftover = buffer /\ e.begun = d.begun /\ e.unaligned = d.unaligned /\ e.checksum = d.checksum
          /\ e.delivered = d.delivered /\ e.arrived = d.arrived /\ e.state = d.state /\ SameFile(d, e)
      BY <1>2, <3>1 DEF DownloadRecords, SameFile
    <3>4. File(e) = File(d)
      BY <3>3, SameIs
    <3>5. WaitingIn(e, b)
      BY <1>4, <2>1, <2>2, <2>3, <2>4, <3>3, <3>4 DEF WaitingIn, BlockSize
    <3> QED
      BY <3>2, <3>3, <3>5 DEF Reading, e
  <2>5. CASE Len(buffer) >= 2
    <3> DEFINE iv == Start(buffer, 2)
               payload == After(buffer, 2)
               first == InitialCounter(d, iv)
               read == [d EXCEPT !.leftover = <<>>, !.begun = TRUE, !.position = first]
    <3>1. e = IF payload = <<>> THEN read ELSE Aligned(read, payload)
      BY <2>1, <2>3, <2>5 DEF Transform, buffer, BlockSize
    <3>2. Span(iv, File(d), 0, 2) /\ Span(payload, File(d), 2, b)
      <4>1. Least(0 + 2, b) = 2
        BY <1>4, <2>3, <2>5 DEF Least
      <4> QED
        BY <1>3, <2>2, <4>1, SpanTake
    <3> HIDE DEF iv, payload, e
    <3>3. first \in CounterRange /\ Value(first) = FirstValue(d) % Range128
      <4>1. iv \in Seq(Nat) /\ Len(iv) = 2 - 0 /\ \A i \in 1..2 - 0 : iv[i] = File(d)[0 + i]
        <5> DEFINE from == 0
                   to == 2
        <5>1. Span(iv, File(d), from, to)
          BY <3>2
        <5> HIDE DEF from, to
        <5>2. iv \in Seq(Nat) /\ Len(iv) = to - from /\ \A i \in 1..to - from : iv[i] = File(d)[from + i]
          BY <1>3, <5>1, SpanIs
        <5> QED
          BY <5>2 DEF from, to
      <4>2. 1 \in 1..2 + 4 + d.size /\ 2 \in 1..2 + 4 + d.size
        BY <1>1
      <4>3. File(d)[1] = (IF 1 = d.corrupted THEN 0 ELSE 1) /\ File(d)[2] = (IF 2 = d.corrupted THEN 0 ELSE 2)
        BY <1>1, <4>2
      <4>4. iv[1] = (IF 1 = d.corrupted THEN 0 ELSE 1) /\ iv[2] = (IF 2 = d.corrupted THEN 0 ELSE 2)
        BY <4>1, <4>3
      <4>5. DOMAIN iv = {1, 2}
        BY <4>1, LenProperties
      <4>6. 0 \in {iv[i] : i \in DOMAIN iv} <=> d.corrupted = 1 \/ d.corrupted = 2
        BY <4>4, <4>5
      <4>7. Shifted(d) <=> d.corrupted = 1 \/ d.corrupted = 2
        BY <1>2 DEF Shifted, BlockSize, DownloadRecords
      <4>8. d.counter \in CounterRange
        BY <1>2 DEF DownloadRecords
      <4>9. CASE Shifted(d)
        <5>1. first = Incremented(d.counter, 1) /\ FirstValue(d) = Value(d.counter) + 1
          BY <4>6, <4>7, <4>9 DEF InitialCounter, FirstValue
        <5>2. 1 \in Nat /\ 1 < HalfRange
          BY Sizes
        <5> HIDE DEF first
        <5> QED
          BY <4>8, <5>1, <5>2, Counts
      <4>10. CASE ~Shifted(d)
        <5>1. first = d.counter /\ FirstValue(d) = Value(d.counter)
          <6>1. Value(d.counter) \in Nat
            BY FirstValueIs
          <6> QED
            BY <4>6, <4>7, <4>10, <6>1 DEF InitialCounter, FirstValue
        <5>2. Value(d.counter) \in 0..Range128 - 1 /\ Range128 \in Nat
          BY <4>8, ValueRange, RangeIs
        <5>3. Value(d.counter) % Range128 = Value(d.counter)
          BY <5>2
        <5> QED
          BY <4>8, <5>1, <5>3
      <4> QED
        BY <4>9, <4>10
    <3> HIDE DEF first
    <3>4. read \in DownloadRecords
      <4>1. first \in CounterRange /\ <<>> \in Seq(Nat)
        BY <3>3
      <4> QED
        BY <1>2, <4>1 DEF DownloadRecords
    <3>5. /\ read.leftover = <<>> /\ read.begun /\ read.position = first /\ read.unaligned = <<>> /\ read.checksum = <<>>
          /\ read.delivered = <<>> /\ read.arrived = d.arrived /\ read.state = d.state
          /\ read.size = d.size /\ read.counter = d.counter /\ read.corrupted = d.corrupted
      BY <1>2, <2>1 DEF DownloadRecords
    <3> HIDE DEF read
    <3>6. SameFile(d, read) /\ FileKnown(read)
      BY <3>4, <3>5 DEF SameFile, FileKnown
    <3>7. File(read) = File(d) /\ Clear(read) = Clear(d) /\ FirstValue(read) = FirstValue(d)
      BY <3>6, SameIs
    <3>8. Output(read, 2 * 0)
      <4>1. Clear(d) \in Seq(Nat) /\ Len(Clear(d)) = 4 + d.size
        BY ClearIs
      <4>2. Span(<<>>, Clear(d), 0, 0)
        <5>1. SubSeq(Clear(d), 0 + 1, 0) = <<>>
          BY SubSeqEmpty
        <5> QED
          BY <1>1, <4>1, <5>1 DEF Span
      <4>3. Least(4, 2 * 0) = 0 /\ 2 * 0 = 0
        BY DEF Least
      <4> QED
        BY <3>5, <3>7, <4>2, <4>3 DEF Output, ChecksumSize
    <3>9. Position(read, 0)
      <4>1. FirstValue(d) + 0 = FirstValue(d)
        BY FirstValueIs
      <4> QED
        BY <3>3, <3>5, <3>7, <4>1 DEF Position
    <3>10. Span(read.unaligned, File(read), 2 + 2 * 0, 2)
      <4>1. SubSeq(File(d), 2 + 1, 2) = <<>>
        BY SubSeqEmpty
      <4>2. 2 \in 0..Len(File(d)) /\ 2 \in 2..Len(File(d)) /\ 2 + 2 * 0 = 2
        BY <1>1
      <4> QED
        BY <3>5, <3>7, <4>1, <4>2 DEF Span
    <3>11. CASE payload = <<>>
      <4>1. b = 2
        <5>1. Len(payload) = b - 2
          BY <1>3, <3>2, SpanIs
        <5>2. Len(payload) = 0
          BY <3>11, EmptySeq
        <5> QED
          BY <1>4, <5>1, <5>2
      <4>2. Reached(read, 0, b)
        BY <3>5, <3>8, <3>9, <3>10, <4>1 DEF Reached, BlockSize
      <4> QED
        BY <3>1, <3>4, <3>5, <3>6, <3>11, <4>2 DEF Reading, e
    <3>12. CASE payload # <<>>
      <4>1. e = Aligned(read, payload)
        BY <3>1, <3>12
      <4>2. Span(payload, File(read), 2, b)
        BY <3>2, <3>7
      <4>3. /\ e \in DownloadRecords /\ SameFile(read, e) /\ e.arrived = read.arrived /\ e.state = read.state
            /\ \E k \in Nat : Reached(e, k, b)
        <5>1. 0 \in Nat
          OBVIOUS
        <5> QED
          BY <3>5, <3>6, <3>8, <3>9, <3>10, <4>1, <4>2, <5>1, AlignedSound
      <4>4. SameFile(d, e)
        BY <3>6, <4>3 DEF SameFile
      <4> QED
        BY <3>5, <4>3, <4>4 DEF Reading, e
    <3> QED
      BY <3>11, <3>12
  <2>6. Len(buffer) < 2 \/ Len(buffer) >= 2
    BY <1>4, <2>3
  <2> QED
    BY <2>4, <2>5, <2>6
<1> QED
  BY <1>5, <1>6 DEF Reading

\* The end of the stream decrypts what does not fill a block.
LEMMA FlushSound ==
  ASSUME NEW d, FileKnown(d), NEW h \in Nat, Reached(d, h, d.arrived)
  PROVE  LET e == AlignedFlush(d)
         IN /\ e \in DownloadRecords /\ SameFile(d, e) /\ e.arrived = d.arrived
            /\ \E n \in Nat : d.arrived = 2 + n /\ Output(e, n)
<1> DEFINE e == AlignedFlush(d)
           n == d.arrived - 2
           from == 2 + 2 * h
<1>1. /\ d.begun /\ d.leftover = <<>> /\ Span(d.unaligned, File(d), from, d.arrived) /\ Output(d, 2 * h) /\ Position(d, h)
  BY DEF Reached, BlockSize
<1>2. d \in DownloadRecords /\ d.arrived \in Nat
  BY DEF FileKnown, DownloadRecords
<1>3. File(d) \in Seq(Nat)
  BY FileIs
<1> HIDE DEF from
<1>4. Len(d.unaligned) = d.arrived - from /\ from <= d.arrived
  BY <1>1, <1>3, SpanIs
<1>5. n \in Nat /\ d.arrived = 2 + n
  BY <1>2, <1>4 DEF from
<1>6. CASE d.unaligned = <<>>
  <2>1. e = d
    BY <1>6 DEF AlignedFlush
  <2>2. n = 2 * h
    <3>1. Len(d.unaligned) = 0
      BY <1>6, EmptySeq
    <3>2. d.arrived = from
      BY <1>2, <1>4, <3>1 DEF from
    <3> QED
      BY <3>2 DEF from
  <2> HIDE DEF e, n
  <2>3. SameFile(d, d)
    BY DEF SameFile
  <2> QED
    BY <1>1, <1>2, <1>5, <2>1, <2>2, <2>3 DEF e
<1>7. CASE d.unaligned # <<>>
  <2> DEFINE rest == [d EXCEPT !.unaligned = <<>>]
             buffer == d.unaligned
  <2>1. e = Processed(rest, buffer)
    BY <1>7 DEF AlignedFlush
  <2>2. rest \in DownloadRecords
    <3>1. <<>> \in Seq(Nat)
      OBVIOUS
    <3> QED
      BY <1>2, <3>1 DEF DownloadRecords
  <2>3. /\ rest.size = d.size /\ rest.counter = d.counter /\ rest.corrupted = d.corrupted /\ rest.arrived = d.arrived
        /\ rest.position = d.position /\ rest.checksum = d.checksum /\ rest.delivered = d.delivered
    BY <1>2 DEF DownloadRecords
  <2>4. Span(buffer, File(d), 2 + 2 * h, 2 + n)
    <3>1. d.arrived = 2 + n
      BY <1>5
    <3> HIDE DEF n
    <3> QED
      BY <1>1, <3>1 DEF from
  <2> HIDE DEF rest, e, n, buffer
  <2>5. SameFile(d, rest) /\ FileKnown(rest)
    BY <2>2, <2>3 DEF SameFile, FileKnown
  <2>6. File(rest) = File(d) /\ Clear(rest) = Clear(d) /\ FirstValue(rest) = FirstValue(d)
    BY <2>5, SameIs
  <2>7. Position(rest, h) /\ Output(rest, 2 * h) /\ Span(buffer, File(rest), 2 + 2 * h, 2 + n)
    BY <1>1, <2>3, <2>4, <2>6 DEF Position, Output
  <2>8. LET f == Processed(rest, buffer)
        IN /\ f \in DownloadRecords /\ SameFile(rest, f) /\ f.arrived = rest.arrived /\ f.leftover = rest.leftover
           /\ f.begun = rest.begun /\ f.unaligned = rest.unaligned /\ f.state = rest.state
           /\ Output(f, n)
           /\ \A i \in Nat : n = 2 * h + 2 * i => Position(f, h + i)
    BY <1>5, <2>5, <2>7, ProcessedSound
  <2>9. e \in DownloadRecords /\ SameFile(rest, e) /\ e.arrived = rest.arrived /\ Output(e, n)
    BY <2>1, <2>8
  <2>10. SameFile(d, e)
    BY <2>5, <2>9 DEF SameFile
  <2> QED
    BY <1>5, <2>3, <2>9, <2>10 DEF e
<1> QED
  BY <1>6, <1>7

\* What was decrypted is right where nothing was corrupted; and only the whole content of a
\* sound file has its checksum.
LEMMA OutputRight ==
  ASSUME NEW d, FileKnown(d), NEW n \in Nat, Output(d, n)
  PROVE  /\ Matches(d) => n = 4 + d.size /\ d.corrupted = 0
         /\ d.corrupted = 0 => d.delivered = Start(Content(d), Len(d.delivered))
         /\ d.corrupted = 0 /\ n = 4 + d.size => Matches(d)
<1> DEFINE t == Least(4, n)
           m == n - t
<1>1. d.size \in Nat /\ d.corrupted \in Nat /\ d.corrupted <= 2 + 4 + d.size
  BY DEF FileKnown, DownloadRecords, BlockSize, ChecksumSize
<1>2. /\ Clear(d) \in Seq(Nat) /\ Len(Clear(d)) = 4 + d.size
      /\ \A i \in 1..4 + d.size : Clear(d)[i] = IF Shifted(d) \/ d.corrupted = 2 + i THEN 0 ELSE i
  BY ClearIs
<1>0. Clear(d) \in Seq(Nat)
  BY <1>2
<1>3. Span(d.checksum, Clear(d), 0, t) /\ Span(d.delivered, Clear(d), t, n)
  BY DEF Output, ChecksumSize
<1>4. t \in Nat /\ t <= 4 /\ t <= n /\ (n >= 4 => t = 4) /\ (n < 4 => t = n)
  BY DEF Least
<1> HIDE DEF t
<1>5. /\ d.checksum \in Seq(Nat) /\ Len(d.checksum) = t - 0 /\ \A i \in 1..t - 0 : d.checksum[i] = Clear(d)[0 + i]
  <2> DEFINE from == 0
  <2>1. Span(d.checksum, Clear(d), from, t)
    BY <1>3
  <2> HIDE DEF from
  <2>2. /\ d.checksum \in Seq(Nat) /\ Len(d.checksum) = t - from /\ \A i \in 1..t - from : d.checksum[i] = Clear(d)[from + i]
    BY <1>0, <2>1, SpanIs
  <2> QED
    BY <2>2 DEF from
<1>6. d.delivered \in Seq(Nat) /\ Len(d.delivered) = n - t /\ n <= Len(Clear(d)) /\ \A i \in 1..n - t : d.delivered[i] = Clear(d)[t + i]
  <2>1. Span(d.delivered, Clear(d), t, n)
    BY <1>3
  <2> QED
    BY <1>0, <2>1, SpanIs
<1>7. m \in Nat /\ n <= 4 + d.size /\ m <= d.size /\ (m = d.size /\ t = 4 <=> n = 4 + d.size)
  <2>1. n <= 4 + d.size
    BY <1>2, <1>6
  <2> QED
    BY <1>1, <1>4, <2>1
<1>8. ASSUME NEW i \in 1..t PROVE d.checksum[i] = IF Shifted(d) \/ d.corrupted = 2 + i THEN 0 ELSE i
  <2>1. i \in 1..t - 0 /\ 0 + i = i /\ i \in 1..4 + d.size
    BY <1>1, <1>4
  <2> QED
    BY <1>2, <1>5, <2>1
<1>9. ASSUME NEW i \in 1..m PROVE d.delivered[i] = IF Shifted(d) \/ d.corrupted = 2 + (t + i) THEN 0 ELSE t + i
  <2>1. t + i \in 1..4 + d.size
    BY <1>1, <1>4, <1>7
  <2> QED
    BY <1>2, <1>6, <2>1
<1> DEFINE content == Content(d)
           ids == [i \in 1..4 |-> i]
<1>10. content \in Seq(Nat) /\ Len(content) = d.size /\ \A i \in 1..d.size : content[i] = 4 + i
  <2>1. content = [i \in 1..d.size |-> 4 + i]
    BY DEF Content, ChecksumSize
  <2>2. \A k \in Nat : [i \in 1..k |-> 4 + i] \in Seq(Nat)
    BY SeqDef
  <2>3. content \in Seq(Nat) /\ DOMAIN content = 1..d.size
    BY <1>1, <2>1, <2>2
  <2> QED
    BY <1>1, <2>1, <2>3, LenProperties
<1>11. ids \in Seq(Nat) /\ Len(ids) = 4 /\ \A i \in 1..4 : ids[i] = i
  <2>1. \A k \in Nat : [i \in 1..k |-> i] \in Seq(Nat)
    BY SeqDef
  <2>2. ids \in Seq(Nat) /\ DOMAIN ids = 1..4
    BY <2>1
  <2> QED
    BY <2>2, LenProperties
<1>12. Matches(d) <=> d.checksum = ids /\ d.delivered = content
  BY DEF Matches, ChecksumSize
<1> HIDE DEF content, ids
<1>13. ASSUME d.corrupted = 0
       PROVE  ~Shifted(d) /\ (\A i \in 1..t : d.checksum[i] = i) /\ (\A i \in 1..m : d.delivered[i] = 4 + i)
  <2>1. ~Shifted(d)
    BY <1>13 DEF Shifted, BlockSize
  <2>2. \A i \in 1..t : d.checksum[i] = i
    BY <1>4, <1>8, <1>13, <2>1
  <2>3. ASSUME NEW i \in 1..m PROVE d.delivered[i] = 4 + i
    <3>1. d.delivered[i] = t + i
      BY <1>4, <1>7, <1>9, <1>13, <2>1
    <3>2. t = 4
      BY <1>4, <2>3
    <3> QED
      BY <3>1, <3>2
  <2> QED
    BY <2>1, <2>2, <2>3
<1>14. d.corrupted = 0 => d.delivered = Start(content, Len(d.delivered))
  <2> SUFFICES ASSUME d.corrupted = 0
               PROVE  d.delivered = Start(content, Len(d.delivered))
    OBVIOUS
  <2>1. Start(content, m) = SubSeq(content, 0 + 1, m)
    BY <1>7, <1>10 DEF Start, Least
  <2> DEFINE from == 0
             s == SubSeq(content, from + 1, m)
  <2>2. s \in Seq(Nat) /\ Len(s) = m /\ \A i \in 1..m : s[i] = content[i]
    <3>1. from \in 0..Len(content) /\ m \in from..Len(content)
      BY <1>1, <1>7, <1>10
    <3>2. m - from = m /\ \A i \in 1..m : from + i = i
      BY <1>7
    <3> HIDE DEF from, m
    <3>3. s \in Seq(Nat) /\ Len(s) = m - from /\ \A i \in 1..m - from : s[i] = content[from + i]
      BY <1>10, <3>1, Slice
    <3> QED
      BY <3>2, <3>3
  <2>3. Start(content, m) = s
    BY <2>1
  <2> HIDE DEF s
  <2>4. \A i \in 1..m : s[i] = d.delivered[i]
    <3> SUFFICES ASSUME NEW i \in 1..m
                 PROVE  s[i] = d.delivered[i]
      OBVIOUS
    <3>1. i \in 1..d.size
      BY <1>1, <1>7
    <3> QED
      BY <1>10, <1>13, <2>2, <3>1
  <2>5. Len(d.delivered) = m
    BY <1>6
  <2> HIDE DEF m
  <2>6. d.delivered = s
    BY <1>6, <2>2, <2>4, <2>5, SeqEqual
  <2> QED
    BY <2>3, <2>5, <2>6
<1>15. d.corrupted = 0 /\ n = 4 + d.size => Matches(d)
  <2> SUFFICES ASSUME d.corrupted = 0, n = 4 + d.size
               PROVE  d.checksum = ids /\ d.delivered = content
    BY <1>12
  <2>1. t = 4 /\ m = d.size
    BY <1>7
  <2> HIDE DEF m
  <2>2. d.checksum = ids
    <3>1. Len(d.checksum) = 4 /\ \A i \in 1..4 : d.checksum[i] = ids[i]
      BY <1>5, <1>11, <1>13, <2>1
    <3>2. d.checksum \in Seq(Nat) /\ ids \in Seq(Nat) /\ Len(ids) = 4
      BY <1>5, <1>11
    <3> QED
      BY <3>1, <3>2, SeqEqual
  <2>3. d.delivered = content
    <3>1. Len(d.delivered) = d.size /\ \A i \in 1..d.size : d.delivered[i] = content[i]
      BY <1>6, <1>10, <1>13, <2>1 DEF m
    <3> QED
      BY <1>6, <1>10, <3>1, SeqEqual
  <2> QED
    BY <2>2, <2>3
<1>16. Matches(d) => n = 4 + d.size /\ d.corrupted = 0
  <2> SUFFICES ASSUME d.checksum = ids, d.delivered = content
               PROVE  n = 4 + d.size /\ d.corrupted = 0
    BY <1>12
  <2>1. t = 4 /\ m = d.size
    <3>1. Len(d.checksum) = t
      BY <1>4, <1>5
    <3>2. Len(d.checksum) = 4 /\ Len(d.delivered) = d.size
      BY <1>10, <1>11
    <3>3. Len(d.delivered) = m
      BY <1>6
    <3> QED
      BY <3>1, <3>2, <3>3
  <2>2. n = 4 + d.size
    BY <1>7, <2>1
  <2>3. \A i \in 1..4 : ~Shifted(d) /\ d.corrupted # 2 + i
    <3> SUFFICES ASSUME NEW i \in 1..4
                 PROVE  ~Shifted(d) /\ d.corrupted # 2 + i
      OBVIOUS
    <3>1. d.checksum[i] = i /\ i # 0
      BY <1>11
    <3>2. i \in 1..t
      BY <2>1
    <3> QED
      BY <1>8, <3>1, <3>2
  <2>4. \A i \in 1..d.size : d.corrupted # 2 + (4 + i)
    <3> SUFFICES ASSUME NEW i \in 1..d.size
                 PROVE  d.corrupted # 2 + (4 + i)
      OBVIOUS
    <3>1. d.delivered[i] = 4 + i /\ 4 + i # 0
      BY <1>1, <1>10
    <3>2. i \in 1..m
      BY <2>1
    <3> HIDE DEF m
    <3>3. d.delivered[i] = IF Shifted(d) \/ d.corrupted = 2 + (4 + i) THEN 0 ELSE 4 + i
      BY <1>9, <2>1, <3>2
    <3> QED
      BY <3>1, <3>3
  <2>5. ~Shifted(d) /\ \A i \in 1..4 : d.corrupted # 2 + i
    BY <2>3
  <2>6. d.corrupted = 0
    <3>1. ~(d.corrupted \in 1..2)
      BY <2>5 DEF Shifted, BlockSize
    <3>2. ~(d.corrupted \in 3..6)
      <4> SUFFICES ASSUME d.corrupted \in 3..6
                   PROVE  FALSE
        OBVIOUS
      <4>1. d.corrupted - 2 \in 1..4 /\ 2 + (d.corrupted - 2) = d.corrupted
        OBVIOUS
      <4> QED
        BY <2>5, <4>1
    <3>3. ~(d.corrupted >= 7)
      <4> SUFFICES ASSUME d.corrupted >= 7
                   PROVE  FALSE
        OBVIOUS
      <4>1. d.corrupted - 6 \in 1..d.size /\ 2 + (4 + (d.corrupted - 6)) = d.corrupted
        BY <1>1
      <4> QED
        BY <2>4, <4>1
    <3> QED
      BY <1>1, <3>1, <3>2, <3>3
  <2> QED
    BY <2>2, <2>6
<1> QED
  BY <1>14, <1>15, <1>16 DEF content

-----------------------------------------------------------------------------
(* The download *)

FaithfulOf(d) ==
  LET all == BlockSize + ChecksumSize + d.size
  IN /\ d.state = "done" => d.delivered = Content(d) /\ d.arrived = all /\ d.corrupted = 0
     /\ d.state = "failed" => d.corrupted # 0 \/ d.arrived < all
     /\ d.corrupted = 0 => d.delivered = Start(Content(d), Len(d.delivered))
DownloadInv ==
  /\ FileKnown(download) /\ FaithfulOf(download)
  /\ download.state = "open" => Reading(download, download.arrived)

LEMMA NothingRight == ASSUME NEW d, FileKnown(d) PROVE <<>> = Start(Content(d), 0)
<1>1. Content(d) = [i \in 1..d.size |-> 4 + i] /\ d.size \in Nat
  BY DEF Content, ChecksumSize, FileKnown, DownloadRecords
<1>2. \A k \in Nat : [i \in 1..k |-> 4 + i] \in Seq(Nat)
  BY SeqDef
<1>3. Content(d) \in Seq(Nat)
  BY <1>1, <1>2
<1>4. Least(0, Len(Content(d))) = 0
  BY <1>3 DEF Least
<1>5. SubSeq(Content(d), 1, 0) = <<>>
  BY SubSeqEmpty
<1> QED
  BY <1>4, <1>5 DEF Start

LEMMA ReadingRight ==
  ASSUME NEW d, FileKnown(d), NEW a, Reading(d, a), d.corrupted = 0
  PROVE  d.delivered = Start(Content(d), Len(d.delivered))
<1>1. CASE WaitingIn(d, a)
  <2>1. d.delivered = <<>> /\ Len(d.delivered) = 0
    BY <1>1, EmptySeq DEF WaitingIn
  <2> QED
    BY <2>1, NothingRight
<1>2. CASE \E h \in Nat : Reached(d, h, a)
  <2>1. PICK h \in Nat : Reached(d, h, a)
    BY <1>2
  <2> DEFINE n == 2 * h
  <2>2. n \in Nat /\ Output(d, n)
    BY <2>1 DEF Reached, BlockSize
  <2> HIDE DEF n
  <2> QED
    BY <2>2, OutputRight
<1> QED
  BY <1>1, <1>2 DEF Reading

LEMMA DownloadInitial == DownloadInit => DownloadInv
<1> SUFFICES ASSUME DownloadInit
             PROVE  DownloadInv
  OBVIOUS
<1>0. PICK size \in 0..MaxContent, counter \in Counters :
        \E corrupted \in 0..BlockSize + ChecksumSize + size : download = NewDownload(size, counter, corrupted)
  BY DEF DownloadInit
<1>1. PICK corrupted \in 0..BlockSize + ChecksumSize + size : download = NewDownload(size, counter, corrupted)
  BY <1>0
<1>2. counter \in CounterRange /\ MaxContent \in Nat /\ <<>> \in Seq(Nat) /\ size \in Nat
  BY StreamsAssumption DEF CounterRange
<1>3. download \in DownloadRecords
  <2>1. corrupted \in Nat
    BY <1>2 DEF BlockSize, ChecksumSize
  <2> QED
    BY <1>1, <1>2, <2>1 DEF NewDownload, DownloadRecords
<1>4. /\ download.size = size /\ download.corrupted = corrupted /\ download.arrived = 0 /\ download.leftover = <<>>
      /\ ~download.begun /\ download.unaligned = <<>> /\ download.checksum = <<>> /\ download.delivered = <<>>
      /\ download.state = "open"
  BY <1>1 DEF NewDownload
<1>5. FileKnown(download)
  BY <1>2, <1>3, <1>4 DEF FileKnown, BlockSize, ChecksumSize
<1>6. Span(<<>>, File(download), 0, 0)
  <2>1. File(download) \in Seq(Nat) /\ Len(File(download)) \in Nat
    BY <1>5, FileIs
  <2>2. SubSeq(File(download), 0 + 1, 0) = <<>>
    BY SubSeqEmpty
  <2> QED
    BY <2>1, <2>2 DEF Span
<1>7. Reading(download, download.arrived)
  BY <1>4, <1>6 DEF Reading, WaitingIn, BlockSize
<1>8. FaithfulOf(download)
  <2>1. download.corrupted = 0 => download.delivered = Start(Content(download), Len(download.delivered))
    BY <1>5, <1>7, ReadingRight
  <2> QED
    BY <1>4, <2>1 DEF FaithfulOf
<1> QED
  BY <1>5, <1>7, <1>8 DEF DownloadInv

LEMMA FileChunkSound == ASSUME NEW n \in Nat PROVE DownloadInv /\ FileChunk(n) => DownloadInv'
<1> SUFFICES ASSUME DownloadInv, FileChunk(n)
             PROVE  DownloadInv'
  OBVIOUS
<1> DEFINE d == download
           a == d.arrived
           b == a + n
           chunk == SubSeq(File(d), a + 1, b)
           e == Transform(d, chunk)
           f == [e EXCEPT !.arrived = e.arrived + n]
<1>1. FileKnown(d) /\ Reading(d, a) /\ d.state = "open" /\ b <= Len(File(d)) /\ download' = [e EXCEPT !.arrived = @ + n]
  BY DEF DownloadInv, FileChunk
<1>2. d \in DownloadRecords /\ a \in Nat /\ d.size \in Nat
  BY <1>1 DEF FileKnown, DownloadRecords
<1>3. Len(File(d)) = 2 + 4 + d.size
  BY <1>1, FileIs
<1>4. Span(chunk, File(d), a, b)
  BY <1>1, <1>2, <1>3 DEF Span
<1> HIDE DEF d, a, chunk
<1>5. e \in DownloadRecords /\ SameFile(d, e) /\ e.arrived = d.arrived /\ e.state = d.state /\ Reading(e, b)
  <2> HIDE DEF b
  <2> QED
    BY <1>1, <1>4, TransformSound
<1> HIDE DEF e
<1>6. download' = f
  BY <1>1, <1>5 DEF DownloadRecords
<1>7. f \in DownloadRecords
  <2>1. e.arrived + n \in Nat
    BY <1>2, <1>5 DEF a
  <2> QED
    BY <1>5, <2>1 DEF DownloadRecords
<1>8. /\ f.size = e.size /\ f.counter = e.counter /\ f.corrupted = e.corrupted /\ f.arrived = b /\ f.leftover = e.leftover
      /\ f.begun = e.begun /\ f.position = e.position /\ f.unaligned = e.unaligned /\ f.checksum = e.checksum
      /\ f.delivered = e.delivered /\ f.state = "open"
  BY <1>1, <1>5 DEF DownloadRecords, a
<1> HIDE DEF f
<1>9. SameFile(d, f) /\ SameFile(e, f)
  BY <1>5, <1>8 DEF SameFile
<1>10. FileKnown(f)
  BY <1>1, <1>3, <1>7, <1>8, <1>9 DEF FileKnown, SameFile, BlockSize, ChecksumSize
<1>11. File(f) = File(e) /\ Clear(f) = Clear(e) /\ FirstValue(f) = FirstValue(e)
  BY <1>9, SameIs
<1>12. Reading(f, b)
  BY <1>5, <1>8, <1>11 DEF Reading, WaitingIn, Reached, Output, Position
<1>13. FaithfulOf(f)
  <2>1. f.corrupted = 0 => f.delivered = Start(Content(f), Len(f.delivered))
    <3> HIDE DEF b
    <3> QED
      BY <1>10, <1>12, ReadingRight
  <2> QED
    BY <1>8, <2>1 DEF FaithfulOf
<1> QED
  BY <1>6, <1>8, <1>10, <1>12, <1>13 DEF DownloadInv

LEMMA FileEndsSound == DownloadInv /\ FileEnds => DownloadInv'
<1> SUFFICES ASSUME DownloadInv, FileEnds
             PROVE  DownloadInv'
  OBVIOUS
<1> DEFINE d == download
           last == AlignedFlush(d)
           e == Flushed(d)
<1>1. FileKnown(d) /\ Reading(d, d.arrived) /\ d.state = "open" /\ download' = e
  BY DEF DownloadInv, FileEnds
<1>2. d \in DownloadRecords /\ d.arrived \in Nat /\ d.size \in Nat
  BY <1>1 DEF FileKnown, DownloadRecords
<1> HIDE DEF d
<1>3. CASE WaitingIn(d, d.arrived)
  <2>1. ~d.begun /\ d.delivered = <<>> /\ d.arrived < 2
    BY <1>3 DEF WaitingIn, BlockSize
  <2>2. e = [d EXCEPT !.state = "failed"]
    BY <2>1 DEF Flushed
  <2> HIDE DEF e
  <2>3. e \in DownloadRecords
    BY <1>2, <2>2 DEF DownloadRecords
  <2>4. /\ e.size = d.size /\ e.corrupted = d.corrupted /\ e.arrived = d.arrived /\ e.delivered = <<>> /\ e.state = "failed"
    BY <1>2, <2>1, <2>2 DEF DownloadRecords
  <2>5. FileKnown(e)
    BY <1>1, <2>3, <2>4 DEF FileKnown
  <2>6. e.arrived < BlockSize + ChecksumSize + e.size
    BY <1>2, <2>1, <2>4 DEF BlockSize, ChecksumSize
  <2>7. e.delivered = Start(Content(e), Len(e.delivered))
    <3>1. Len(e.delivered) = 0
      BY <2>4, EmptySeq
    <3> QED
      BY <2>4, <2>5, <3>1, NothingRight
  <2>8. FaithfulOf(e)
    BY <2>4, <2>6, <2>7 DEF FaithfulOf
  <2> QED
    BY <1>1, <2>4, <2>5, <2>8 DEF DownloadInv
<1>4. CASE \E h \in Nat : Reached(d, h, d.arrived)
  <2>1. PICK h \in Nat : Reached(d, h, d.arrived)
    BY <1>4
  <2>2. d.begun /\ d.leftover = <<>>
    BY <2>1 DEF Reached
  <2>3. /\ last \in DownloadRecords /\ SameFile(d, last) /\ last.arrived = d.arrived
        /\ \E n \in Nat : d.arrived = 2 + n /\ Output(last, n)
    BY <1>1, <2>1, FlushSound
  <2>4. e = [last EXCEPT !.state = IF Matches(last) THEN "done" ELSE "failed"]
    BY <2>2 DEF Flushed
  <2> HIDE DEF last, e
  <2>5. PICK n \in Nat : d.arrived = 2 + n /\ Output(last, n)
    BY <2>3
  <2>6. FileKnown(last)
    BY <1>1, <2>3 DEF FileKnown, SameFile
  <2>7. /\ Matches(last) => n = 4 + last.size /\ last.corrupted = 0
        /\ last.corrupted = 0 => last.delivered = Start(Content(last), Len(last.delivered))
        /\ last.corrupted = 0 /\ n = 4 + last.size => Matches(last)
    BY <2>5, <2>6, OutputRight
  <2>8. e \in DownloadRecords
    BY <2>3, <2>4 DEF DownloadRecords
  <2>9. /\ e.size = last.size /\ e.counter = last.counter /\ e.corrupted = last.corrupted /\ e.arrived = last.arrived
        /\ e.delivered = last.delivered /\ e.state = IF Matches(last) THEN "done" ELSE "failed"
    BY <2>3, <2>4 DEF DownloadRecords
  <2>10. SameFile(last, e) /\ FileKnown(e)
    BY <2>6, <2>8, <2>9 DEF SameFile, FileKnown
  <2>11. Content(e) = Content(last)
    BY <2>10, SameIs
  <2>12. CASE Matches(last)
    <3>1. last.delivered = Content(last)
      BY <2>12 DEF Matches
    <3>2. e.arrived = BlockSize + ChecksumSize + e.size
      <4>1. e.arrived = 2 + n /\ n = 4 + e.size
        BY <2>3, <2>5, <2>7, <2>9, <2>12
      <4>2. e.size \in Nat
        BY <2>8 DEF DownloadRecords
      <4> QED
        BY <4>1, <4>2 DEF BlockSize, ChecksumSize
    <3>3. FaithfulOf(e)
      BY <2>7, <2>9, <2>11, <2>12, <3>1, <3>2 DEF FaithfulOf
    <3> QED
      BY <1>1, <2>9, <2>10, <2>12, <3>3 DEF DownloadInv
  <2>13. CASE ~Matches(last)
    <3>1. e.corrupted # 0 \/ n # 4 + e.size
      BY <2>7, <2>9, <2>13
    <3>2. e.arrived = 2 + n /\ e.arrived <= 2 + 4 + e.size /\ e.size \in Nat
      BY <2>3, <2>5, <2>9, <2>10 DEF FileKnown, BlockSize, ChecksumSize, DownloadRecords
    <3>3. e.corrupted # 0 \/ e.arrived < BlockSize + ChecksumSize + e.size
      BY <3>1, <3>2 DEF BlockSize, ChecksumSize
    <3>4. FaithfulOf(e)
      BY <2>7, <2>9, <2>11, <2>13, <3>3 DEF FaithfulOf
    <3> QED
      BY <1>1, <2>9, <2>10, <2>13, <3>4 DEF DownloadInv
  <2> QED
    BY <2>12, <2>13
<1> QED
  BY <1>1, <1>3, <1>4 DEF Reading

LEMMA DownloadStep == DownloadInv /\ [FileNext]_download => DownloadInv'
<1> SUFFICES ASSUME DownloadInv, [FileNext]_download
             PROVE  DownloadInv'
  OBVIOUS
<1>1. CASE FileEnds
  BY <1>1, FileEndsSound
<1>2. CASE \E n \in 1..BlockSize + ChecksumSize + MaxContent : FileChunk(n)
  <2>1. PICK n \in 1..BlockSize + ChecksumSize + MaxContent : FileChunk(n)
    BY <1>2
  <2>2. n \in Nat
    OBVIOUS
  <2> QED
    BY <2>1, <2>2, FileChunkSound
<1>3. CASE UNCHANGED download
  BY <1>3 DEF DownloadInv
<1> QED
  BY <1>1, <1>2, <1>3 DEF FileNext

\* Neither decoder depends on how its stream is cut into chunks: for every stream, every size of
\* a message, every file and every counter that it starts with, wherever one of its halves wraps.
THEOREM ChunksNeverMatter == StreamsSpec => []ChunksDoNotMatter
<1> DEFINE Inv == FramesInv /\ DownloadInv
<1>1. StreamsInit => Inv
  BY FramesInitial, DownloadInitial DEF StreamsInit
<1>2. Inv /\ [StreamsNext]_streamVars => Inv'
  <2> SUFFICES ASSUME Inv, [StreamsNext]_streamVars
               PROVE  Inv'
    OBVIOUS
  <2>1. CASE FramesNext
    <3>1. UNCHANGED download
      BY <2>1 DEF FramesNext, FrameChunk, HeaderTurn, PayloadTurn, FramesEnd, FramesClose
    <3> QED
      BY <2>1, <3>1, FramesStep, DownloadStep
  <2>2. CASE FileNext
    <3>1. UNCHANGED framed
      BY <2>2 DEF FileNext, FileChunk, FileEnds
    <3> QED
      BY <2>2, <3>1, FramesStep, DownloadStep
  <2>3. CASE UNCHANGED streamVars
    BY <2>3, FramesStep, DownloadStep DEF streamVars
  <2> QED
    BY <2>1, <2>2, <2>3 DEF StreamsNext
<1>3. Inv => ChunksDoNotMatter
  BY FramesAreWhole DEF DownloadInv, FaithfulOf, DownloadFaithful, ChunksDoNotMatter
<1> QED
  BY <1>1, <1>2, <1>3, PTL DEF StreamsSpec
=============================================================================
