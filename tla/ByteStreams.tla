---------------------------- MODULE ByteStreams -----------------------------
(* The two decoders that read a byte stream in chunks of any size: the frames of a    *)
(* WebTTY session over WebTransport (webtty/src/transport-frames.ts, readLoop of      *)
(* webtty.ts), and a shared file (utils/src/file-sharing.ts), which is an IV, then    *)
(* AES-CTR over a checksum and the content.                                           *)
(*                                                                                    *)
(* Sizes are scaled down: a byte of a header has one bit, a header and an AES block   *)
(* two bytes, a checksum four, and a half of the counter HalfRange values.            *)
EXTENDS Naturals, Sequences

CONSTANTS MaxMessageSize,  \* maxMessageSize
          MaxStream,       \* bytes of a framed stream
          MaxContent,      \* bytes of a file
          HalfRange,       \* 2^64
          Counters         \* initial values of the counter, in two halves

HeaderSize == 2
BlockSize == 2
ChecksumSize == 4

\* A file has fewer blocks than a half of the counter counts.
ASSUME StreamsAssumption ==
  /\ {MaxMessageSize, MaxStream, MaxContent, HalfRange} \subseteq Nat
  /\ BlockSize + ChecksumSize + MaxContent < HalfRange * BlockSize
  /\ Counters \subseteq [upper : 0..HalfRange - 1, lower : 0..HalfRange - 1]

VARIABLES
  framed,    \* a framed stream, how much of it has arrived, its decoder and what that yielded
  download   \* a file, how much of it has arrived, and its FileSharingDownloadStream

streamVars == <<framed, download>>

Least(m, n) == IF m < n THEN m ELSE n
Start(s, n) == SubSeq(s, 1, Least(n, Len(s)))
After(s, n) == SubSeq(s, n + 1, Len(s))

-----------------------------------------------------------------------------
(* WebTTYFrameDecoder.  push() is a generator: it runs until it has a message, and    *)
(* goes on when the session has handled that one.                                     *)

NoSize == HeaderSize * HeaderSize   \* payload is null
NewStream(input) ==
  [input |-> input, arrived |-> 0, state |-> "reading",
   header |-> <<>>, size |-> NoSize, payload |-> <<>>,
   chunk |-> <<>>,    \* what push() has not read of its chunk
   out |-> <<>>]      \* the messages, and where in the stream each ended

SizeOf(header) == 2 * header[1] + header[2]   \* getUint32
Incomplete(f) == f.header # <<>> \/ f.size # NoSize

Yield(f, message, rest) ==
  [f EXCEPT !.header = <<>>, !.size = NoSize, !.payload = <<>>, !.chunk = rest,
            !.out = Append(@, [message |-> message, end |-> f.arrived - Len(rest)])]

\* The next n bytes.
FrameChunk(n) ==
  /\ framed.state = "reading" /\ framed.chunk = <<>> /\ framed.arrived + n <= Len(framed.input)
  /\ framed' = [framed EXCEPT !.arrived = @ + n, !.chunk = SubSeq(framed.input, framed.arrived + 1, framed.arrived + n)]
  /\ UNCHANGED download

\* One turn of push() that begins with the header, and one that goes on with a payload.
HeaderTurn ==
  LET missing == HeaderSize - Len(framed.header)
      header == framed.header \o Start(framed.chunk, missing)
      rest == After(framed.chunk, missing)
      size == SizeOf(header)
  IN /\ framed.state = "reading" /\ framed.chunk # <<>> /\ framed.size = NoSize
     /\ \/ /\ Len(header) < HeaderSize
           /\ framed' = [framed EXCEPT !.header = header, !.chunk = <<>>]
        \/ /\ Len(header) = HeaderSize /\ size > MaxMessageSize
           /\ framed' = [framed EXCEPT !.header = header, !.chunk = <<>>, !.state = "oversized"]
        \/ /\ Len(header) = HeaderSize /\ size <= MaxMessageSize /\ Len(rest) >= size
           /\ framed' = Yield(framed, Start(rest, size), After(rest, size))
        \/ /\ Len(header) = HeaderSize /\ size <= MaxMessageSize /\ Len(rest) < size
           /\ framed' = [framed EXCEPT !.header = <<>>, !.size = size, !.payload = rest, !.chunk = <<>>]
     /\ UNCHANGED download

PayloadTurn ==
  LET missing == framed.size - Len(framed.payload)
      payload == framed.payload \o Start(framed.chunk, missing)
  IN /\ framed.state = "reading" /\ framed.chunk # <<>> /\ framed.size # NoSize
     /\ \/ /\ Len(payload) = framed.size
           /\ framed' = Yield(framed, payload, After(framed.chunk, missing))
        \/ /\ Len(payload) < framed.size
           /\ framed' = [framed EXCEPT !.payload = payload, !.chunk = <<>>]
     /\ UNCHANGED download

\* The peer ends the stream, perhaps too early.
FramesEnd ==
  /\ framed.state = "reading" /\ framed.chunk = <<>>
  /\ framed' = [framed EXCEPT !.state = IF Incomplete(framed) THEN "cut" ELSE "ended"]
  /\ UNCHANGED download

\* close(), also between two messages of one chunk: reset(), and the loop returns.
FramesClose ==
  /\ framed.state # "closed"
  /\ framed' = [framed EXCEPT !.state = "closed", !.header = <<>>, !.size = NoSize, !.payload = <<>>, !.chunk = <<>>]
  /\ UNCHANGED download

FramesNext == HeaderTurn \/ PayloadTurn \/ FramesEnd \/ FramesClose \/ \E n \in 1..MaxStream : FrameChunk(n)

-----------------------------------------------------------------------------
(* FileSharingDownloadStream *)

\* A byte of the file is its place there, and one that is not as sent is 0.  So is a byte
\* that was decrypted, with its place in the checksum and the content.
File(d) == [i \in 1..BlockSize + ChecksumSize + d.size |-> IF i = d.corrupted THEN 0 ELSE i]

NewDownload(size, counter, corrupted) ==
  [size |-> size, counter |-> counter, corrupted |-> corrupted, arrived |-> 0,
   leftover |-> <<>>,       \* bytes of the IV
   begun |-> FALSE,         \* the IV is there, and this.lower
   position |-> counter,    \* the counter of AesCtrDecryptStream
   unaligned |-> <<>>,      \* its leftover
   checksum |-> <<>>,
   delivered |-> <<>>,      \* to the reader, and to the digest
   state |-> "open"]

Value(counter) == counter.upper * HalfRange + counter.lower
Range128 == HalfRange * HalfRange

CounterWithoutCarry(counter, blocks) == [counter EXCEPT !.lower = (@ + blocks) % HalfRange]
\* incrementCounter: the lower half wraps, and carries into the upper one.
Incremented(counter, blocks) ==
  LET next == (counter.lower + blocks) % HalfRange
  IN [lower |-> next,
      upper |-> IF next < counter.lower THEN (counter.upper + 1) % HalfRange ELSE counter.upper]

\* AesCtrDecryptStream.process: AES-CTR counts on within the buffer, and a byte is what it was
\* where that is the block and the place in it that it was encrypted with.
KeyAt(d, place) == <<(Value(d.counter) + ((place - 1) \div BlockSize)) % Range128, (place - 1) % BlockSize>>
Decrypt(d, buffer) ==
  LET key(i) == <<(Value(d.position) + ((i - 1) \div BlockSize)) % Range128, (i - 1) % BlockSize>>
  IN [i \in DOMAIN buffer |->
        IF buffer[i] > BlockSize /\ key(i) = KeyAt(d, buffer[i] - BlockSize) THEN buffer[i] - BlockSize ELSE 0]
Blocks(buffer) == (Len(buffer) + BlockSize - 1) \div BlockSize

\* process() and consumeDecrypted(): the checksum first, then the content.
Processed(d, buffer) ==
  LET plain == Decrypt(d, buffer)
      missing == ChecksumSize - Len(d.checksum)
  IN [d EXCEPT !.position = Incremented(@, Blocks(buffer)),
               !.checksum = @ \o Start(plain, missing),
               !.delivered = @ \o After(plain, missing)]

\* transform() of AesCtrAlignedDecryptStream keeps what does not fill a block.
Aligned(d, chunk) ==
  LET buffer == d.unaligned \o chunk
      length == Len(buffer) - (Len(buffer) % BlockSize)
      rest == [d EXCEPT !.unaligned = After(buffer, length)]
  IN IF length = 0 THEN rest ELSE Processed(rest, Start(buffer, length))
AlignedFlush(d) == IF d.unaligned = <<>> THEN d ELSE Processed([d EXCEPT !.unaligned = <<>>], d.unaligned)

\* transform() of FileSharingDownloadStream: the first block is the IV.
InitialCounter(d, iv) ==
  IF 0 \in {iv[i] : i \in DOMAIN iv} THEN Incremented(d.counter, 1) ELSE d.counter
Transform(d, chunk) ==
  LET buffer == d.leftover \o chunk
      payload == IF d.begun THEN buffer ELSE After(buffer, BlockSize)
      read == [d EXCEPT !.leftover = <<>>, !.begun = TRUE,
                        !.position = IF d.begun THEN @ ELSE InitialCounter(d, Start(buffer, BlockSize))]
  IN IF ~d.begun /\ Len(buffer) < BlockSize THEN [d EXCEPT !.leftover = buffer]
     ELSE IF payload = <<>> THEN read ELSE Aligned(read, payload)

\* flush(): the rest of the last block, then the checks.  The checksum is the digest of the
\* whole content and of nothing else.
Content(d) == [i \in 1..d.size |-> ChecksumSize + i]
Matches(d) == d.checksum = [i \in 1..ChecksumSize |-> i] /\ d.delivered = Content(d)
Flushed(d) ==
  LET last == AlignedFlush(d)
  IN IF d.leftover # <<>> \/ ~d.begun THEN [d EXCEPT !.state = "failed"]
     ELSE [last EXCEPT !.state = IF Matches(last) THEN "done" ELSE "failed"]

\* The next n bytes of the file.
FileChunk(n) ==
  LET chunk == SubSeq(File(download), download.arrived + 1, download.arrived + n)
  IN /\ download.state = "open" /\ download.arrived + n <= Len(File(download))
     /\ download' = [Transform(download, chunk) EXCEPT !.arrived = @ + n]
     /\ UNCHANGED framed

\* The stream of the file ends, perhaps too early.
FileEnds ==
  /\ download.state = "open"
  /\ download' = Flushed(download)
  /\ UNCHANGED framed

FileNext == FileEnds \/ \E n \in 1..BlockSize + ChecksumSize + MaxContent : FileChunk(n)

-----------------------------------------------------------------------------
(* Both *)

FramesInit == \E n \in 0..MaxStream : \E input \in [1..n -> {0, 1}] : framed = NewStream(input)
DownloadInit ==
  \E size \in 0..MaxContent, counter \in Counters :
    \E corrupted \in 0..BlockSize + ChecksumSize + size :
      download = NewDownload(size, counter, corrupted)

StreamsInit == FramesInit /\ DownloadInit
StreamsNext == FramesNext \/ FileNext
StreamsSpec == StreamsInit /\ [][StreamsNext]_streamVars

-----------------------------------------------------------------------------
(* Properties *)

\* Where the first k messages end, and the size that the stream announces there.
EndOf(f, k) == IF k = 0 THEN 0 ELSE f.out[k].end
Announced(f, k) == SizeOf(SubSeq(f.input, EndOf(f, k) + 1, EndOf(f, k) + HeaderSize))

\* However a stream is cut into chunks, the messages are those it is framed into, one after
\* the other from its beginning, and none above the limit; what is waited for is not complete,
\* and Incomplete tells whether more was begun; the stream fails because of a size above the
\* limit or an end within a frame, and ends well after a whole one.
\* (WebTTYFrameDecoder.push, incomplete; readLoop)
FramesWhole ==
  LET f == framed
      whole == Len(f.out)
      end == EndOf(f, whole)
  IN /\ \A k \in 1..whole :
          /\ EndOf(f, k) = EndOf(f, k - 1) + HeaderSize + Announced(f, k - 1) /\ EndOf(f, k) <= f.arrived
          /\ Announced(f, k - 1) <= MaxMessageSize
          /\ f.out[k].message = SubSeq(f.input, EndOf(f, k - 1) + HeaderSize + 1, EndOf(f, k))
     /\ f.state \in {"reading", "cut", "ended"} /\ f.chunk = <<>> =>
          /\ Incomplete(f) <=> f.arrived > end
          /\ f.arrived >= end + HeaderSize =>
               Announced(f, whole) <= MaxMessageSize /\ f.arrived < end + HeaderSize + Announced(f, whole)
     /\ f.state = "oversized" => f.arrived >= end + HeaderSize /\ Announced(f, whole) > MaxMessageSize
     /\ f.state = "cut" => f.arrived > end
     /\ f.state = "ended" => f.arrived = end

\* However a file is cut into chunks and wherever its counter wraps, the download that ends
\* well delivered the content, one that fails was corrupted or cut short, and a sound one never
\* delivers a wrong byte.  (incrementCounter, AesCtrAlignedDecryptStream, FileSharingDownloadStream)
DownloadFaithful ==
  LET all == BlockSize + ChecksumSize + download.size
  IN /\ download.state = "done" =>
          download.delivered = Content(download) /\ download.arrived = all /\ download.corrupted = 0
     /\ download.state = "failed" => download.corrupted # 0 \/ download.arrived < all
     /\ download.corrupted = 0 => download.delivered = Start(Content(download), Len(download.delivered))

\* Neither decoder depends on how its stream is cut into chunks.
ChunksDoNotMatter == FramesWhole /\ DownloadFaithful
=============================================================================
