------------------------------- MODULE Uploads ------------------------------
(* Guarded changes of remote files (filesystem/src/uploads.ts, webdav.ts): an upload  *)
(* with an identity, the receipt of an attempt whose response was lost, and a removal *)
(* of one revision.  Requests and responses may be lost, the client never repeats one.*)
(*                                                                                    *)
(* The owner of the files is outside this repository: it publishes an attempt at most *)
(* once, and a crash interrupts it.  What answers may also be an older owner, or      *)
(* something between that has the receipt of another attempt or a broken one.         *)

CONSTANTS FileCalls,     \* of upload(), getUploadReceipt() and removeIfRevision()
          Ids,       \* of uploads
          Paths,
          Contents   \* a content stands for its digest, size and revision

Nothing == "nothing"
ASSUME UploadsAssumption == Nothing \notin Ids \union Paths \union Contents

VARIABLES
  fileCall,     \* the calls
  attempt,  \* of each id, at the owner
  file,     \* the content at each path
  done      \* what the owner has published and removed

uploadVars == <<fileCall, attempt, file, done>>

Terminal == {"committed", "rejected", "interrupted", "uncertain"}
AttemptStates == {"receiving", "prepared"} \union Terminal
Maybe(S) == S \union {Nothing}

UploadsTypeOK ==
  /\ fileCall \in [FileCalls ->
       [stage : {"idle", "sent", "received", "confirmed", "unconfirmed", "returned", "threw"},
        operation : {"upload", "lookup", "remove"},
        id : Maybe(Ids), path : Maybe(Paths), content : Maybe(Contents),
        expected : Maybe(Contents),                \* expectedRevision
        outcome : Maybe(AttemptStates \union {"removed"}),
        receipt : Maybe(Contents)]]                \* its sha256 and sizeBytes
  /\ attempt \in [Ids -> [path : Maybe(Paths), content : Maybe(Contents), expected : Maybe(Contents),
                          state : Maybe(AttemptStates)]]
  /\ file \in [Paths -> Maybe(Contents)]
  /\ done \in [published : SUBSET [id : Ids, path : Paths, content : Contents],
              removed : SUBSET [by : FileCalls, content : Contents]]

NoCalls ==
  /\ fileCall = [c \in FileCalls |-> [stage |-> "idle", operation |-> "lookup", id |-> Nothing, path |-> Nothing,
                              content |-> Nothing, expected |-> Nothing, outcome |-> Nothing, receipt |-> Nothing]]
  /\ attempt = [id \in Ids |-> [path |-> Nothing, content |-> Nothing, expected |-> Nothing, state |-> Nothing]]
  /\ done = [published |-> {}, removed |-> {}]

UploadsInit == NoCalls /\ file \in [Paths -> Maybe(Contents)]

-----------------------------------------------------------------------------
(* Requests *)

Sends(c, request) ==
  /\ fileCall[c].stage = "idle"
  /\ fileCall' = [fileCall EXCEPT ![c] = [request EXCEPT !.stage = "sent"]]
  /\ UNCHANGED <<attempt, file, done>>

\* upload(): with the id, the content and the condition in its headers.
Upload(c, id, path, content, expected) ==
  Sends(c, [fileCall[c] EXCEPT !.operation = "upload", !.id = id, !.path = path, !.content = content,
                               !.expected = expected])

GetUploadReceipt(c, id, path) ==
  Sends(c, [fileCall[c] EXCEPT !.operation = "lookup", !.id = id, !.path = path])

RemoveIfRevision(c, path, expected) ==
  Sends(c, [fileCall[c] EXCEPT !.operation = "remove", !.path = path, !.expected = expected])

-----------------------------------------------------------------------------
(* The owner *)

\* A request reaches it; a new id begins an attempt, a known one does nothing.
OwnerReceives(c) ==
  /\ fileCall[c].stage = "sent"
  /\ fileCall' = [fileCall EXCEPT ![c].stage = "received"]
  /\ attempt' = IF fileCall[c].operation = "upload" /\ attempt[fileCall[c].id].state = Nothing
                THEN [attempt EXCEPT ![fileCall[c].id] =
                        [path |-> fileCall[c].path, content |-> fileCall[c].content, expected |-> fileCall[c].expected,
                         state |-> "receiving"]]
                ELSE attempt
  /\ UNCHANGED <<file, done>>

\* An attempt goes on: it is validated, published if the path has what was expected, or ends
\* otherwise.  It goes on also when its client has gone.
OwnerWorks(id) ==
  /\ UNCHANGED fileCall
  /\ \/ /\ attempt[id].state = "receiving"
        /\ \E state \in {"prepared", "rejected", "interrupted"} : attempt' = [attempt EXCEPT ![id].state = state]
        /\ UNCHANGED <<file, done>>
     \/ /\ attempt[id].state = "prepared"
        /\ \E state \in {"rejected", "interrupted", "uncertain"} : attempt' = [attempt EXCEPT ![id].state = state]
        /\ UNCHANGED <<file, done>>
     \/ /\ attempt[id].state = "prepared" /\ file[attempt[id].path] = attempt[id].expected
        /\ attempt' = [attempt EXCEPT ![id].state = "committed"]
        /\ file' = [file EXCEPT ![attempt[id].path] = attempt[id].content]
        /\ done' = [done EXCEPT !.published =
                      @ \union {[id |-> id, path |-> attempt[id].path, content |-> attempt[id].content]}]

-----------------------------------------------------------------------------
(* Responses *)

\* A receipt: whose attempt it is of, and whether status, times and revision agree with its state.
Receipt(id, state, consistent) ==
  [id |-> id, path |-> attempt[id].path, content |-> attempt[id].content, state |-> state,
   consistent |-> consistent, protocol |-> "durable-v1"]

\* What may be answered with status 200: the receipt of an attempt, one without the header of
\* the protocol, or one that claims what is not so.
ReceiptsSent ==
  LET known == {id \in Ids : attempt[id].state # Nothing}
      sound == {Receipt(id, attempt[id].state, TRUE) : id \in known}
  IN sound \union {[r EXCEPT !.protocol = Nothing] : r \in sound}
           \union {Receipt(id, "committed", FALSE) : id \in known}

Returns(c, outcome, receipt) ==
  fileCall' = [fileCall EXCEPT ![c].stage = "returned", ![c].outcome = outcome, ![c].receipt = receipt]
Throws(c) == fileCall' = [fileCall EXCEPT ![c].stage = "threw"]

\* readUploadReceipt(): the header, the schema, and the binding to id and path.
ReadWithoutPath(c, r) == r.protocol = "durable-v1" /\ r.consistent /\ r.id = fileCall[c].id
ReadReceipt(c, r) == r.protocol = "durable-v1" /\ r.consistent /\ r.id = fileCall[c].id /\ r.path = fileCall[c].path

\* upload() also compares the content.
Accepts(c, r) == ReadReceipt(c, r) /\ (fileCall[c].operation = "upload" => r.content = fileCall[c].content)

\* The response to upload() or getUploadReceipt() arrives.
ReceiptAnswered(c, r) ==
  /\ fileCall[c].stage = "received" /\ fileCall[c].operation # "remove"
  /\ IF Accepts(c, r) THEN Returns(c, r.state, r.content) ELSE Throws(c)
  /\ UNCHANGED <<attempt, file, done>>

\* A removal is done if the path has the expected revision; an older owner would not look.
OwnerRemoves(c) ==
  /\ fileCall[c].stage = "received" /\ fileCall[c].operation = "remove"
  /\ \E stage \in {"confirmed", "unconfirmed"} :
       /\ stage = "confirmed" => file[fileCall[c].path] = fileCall[c].expected
       /\ fileCall' = [fileCall EXCEPT ![c].stage = stage]
  /\ file' = [file EXCEPT ![fileCall[c].path] = Nothing]
  /\ done' = [done EXCEPT !.removed = IF file[fileCall[c].path] = Nothing THEN @
                                      ELSE @ \union {[by |-> c, content |-> file[fileCall[c].path]]}]
  /\ UNCHANGED attempt

\* The response to removeIfRevision() arrives, which has to name a protocol.
RemovalConfirmed(stage) == stage = "confirmed"
RemoveAnswered(c) ==
  /\ fileCall[c].stage \in {"confirmed", "unconfirmed"}
  /\ IF RemovalConfirmed(fileCall[c].stage) THEN Returns(c, "removed", Nothing) ELSE Throws(c)
  /\ UNCHANGED <<attempt, file, done>>

\* The request or the response is lost, the call is aborted, or the answer is an error.
Lost(c) ==
  /\ fileCall[c].stage \in {"sent", "received", "confirmed", "unconfirmed"}
  /\ Throws(c)
  /\ UNCHANGED <<attempt, file, done>>

UploadsNext ==
  \/ \E c \in FileCalls :
       \/ \E id \in Ids, path \in Paths, content \in Contents, expected \in Maybe(Contents) :
            Upload(c, id, path, content, expected)
       \/ \E id \in Ids, path \in Paths : GetUploadReceipt(c, id, path)
       \/ \E path \in Paths, expected \in Contents : RemoveIfRevision(c, path, expected)
       \/ OwnerReceives(c) \/ OwnerRemoves(c) \/ RemoveAnswered(c) \/ Lost(c)
       \/ \E r \in ReceiptsSent : ReceiptAnswered(c, r)
  \/ \E id \in Ids : OwnerWorks(id)

UploadsSpec == UploadsInit /\ [][UploadsNext]_uploadVars

-----------------------------------------------------------------------------
(* Properties *)

\* A receipt that says committed is evidence: the attempt with this id published at this path,
\* exactly the content that upload() was given; and a removal that returns removed the expected
\* revision and nothing else.  (readUploadReceipt, upload, removeIfRevision)
ReceiptsAreEvidence ==
  \A c \in FileCalls : fileCall[c].stage = "returned" =>
    /\ fileCall[c].outcome = "committed" =>
         [id |-> fileCall[c].id, path |-> fileCall[c].path, content |-> fileCall[c].receipt] \in done.published
    /\ fileCall[c].operation = "upload" => fileCall[c].receipt = fileCall[c].content
    /\ fileCall[c].outcome = "removed" =>
         {d.content : d \in {x \in done.removed : x.by = c}} = {fileCall[c].expected}
=============================================================================
