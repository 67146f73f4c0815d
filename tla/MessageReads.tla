---------------------------- MODULE MessageReads ----------------------------
(***************************************************************************)
(* The read loops of one session, byte by byte: authenticateClient reads    *)
(* the challenge response and processRequest each request, in pieces of at  *)
(* most MAX_READ bytes, into a zeroed buffer of MAX_BUFF + 1, until strstr() *)
(* finds the END line, the client is gone or the buffer is nearly full.     *)
(* TCP keeps no message boundaries: a read may return a part of a message,  *)
(* or the end of one and the beginning of the next.                         *)
(*                                                                         *)
(* The stream is the numbers of bytes written and read; the END line of a   *)
(* message is at its end.  TransportService has these loops as the actions  *)
(* ReadResponse (with Leftovers) and ReadRequest.                           *)
(***************************************************************************)
EXTENDS Integers

CONSTANTS
  MAX_READ, MAX_BUFF,
  EndLen,        \* bytes of an END line
  ResponseLens,  \* lengths of responses, with what is left of a credential
  RequestLens,   \* lengths of requests
  MaxRequests    \* bound: requests the client sends

ASSUME BufferAssumption ==
  MAX_READ \in Nat \ {0} /\ MAX_BUFF \in Nat /\ MAX_READ <= MAX_BUFF
ASSUME LengthAssumption ==
  /\ EndLen \in Nat \ {0} /\ MaxRequests \in Nat
  /\ \A l \in ResponseLens \cup RequestLens : l \in Nat /\ l >= EndLen

\* A message the loops can read to its end; the code limits no message to this.
Fits(l) == l + MAX_READ <= MAX_BUFF

VARIABLES
  respLen,             \* the length of this client's response
  sent, ends,          \* bytes written; where in the stream END lines end
  requests, closed,    \* requests written; the client has gone
  fits,                \* history: all messages written so far fit the buffer
  pc,                  \* the session
  base, taken,         \* bytes read before the current buffer, and by now
  bytesRead, numRead,  \* the variables of the loops
  replies              \* replies written

clientVars == <<respLen, sent, ends, requests, closed, fits>>
loopVars   == <<bytesRead, numRead>>
vars == <<clientVars, pc, base, taken, loopVars, replies>>

Init ==
  /\ respLen \in ResponseLens /\ fits = Fits(respLen)
  /\ sent = 0 /\ ends = {} /\ requests = 0 /\ closed = FALSE
  /\ pc = "response"
  /\ base = 0 /\ taken = 0 /\ bytesRead = 0 /\ numRead = 0
  /\ replies = 0

TypeOK ==
  /\ respLen \in ResponseLens /\ sent \in Nat /\ ends \subseteq Nat
  /\ requests \in 0 .. MaxRequests /\ closed \in BOOLEAN /\ fits \in BOOLEAN
  /\ pc \in {"response", "auth", "request", "dispatch", "ended"}
  /\ base \in Nat /\ taken \in Nat
  /\ bytesRead \in -1 .. MAX_BUFF /\ numRead \in -1 .. MAX_READ
  /\ replies \in Nat

-----------------------------------------------------------------------------
(* The client: it sends its first request without an answer to its response, *)
(* and each further one when it has its reply.                             *)

SendResponse ==
  /\ sent = 0 /\ ~closed
  /\ sent' = respLen
  /\ UNCHANGED <<respLen, ends, requests, closed, fits, pc, base, taken,
                 loopVars, replies>>

SendRequest ==
  /\ sent > 0 /\ ~closed
  /\ requests < MaxRequests /\ replies >= requests
  /\ \E l \in RequestLens : sent' = sent + l /\ fits' = (fits /\ Fits(l))
  /\ ends' = ends \cup {sent'}
  /\ requests' = requests + 1
  /\ UNCHANGED <<respLen, closed, pc, base, taken, loopVars, replies>>

Close ==
  /\ ~closed
  /\ closed' = TRUE
  /\ UNCHANGED <<respLen, sent, ends, requests, fits, pc, base, taken, loopVars,
                 replies>>

Client == SendResponse \/ SendRequest \/ Close

-----------------------------------------------------------------------------
(* The server                                                              *)

\* Mutant: read(clientSocketId, pos, MAX_BUFF)
WholeBufferReads ==
  {n \in 1 .. MAX_BUFF : n <= sent - taken}
    \cup (IF closed THEN {-1} ELSE {})
    \cup (IF closed /\ taken = sent THEN {0} ELSE {})

\* What read() may return: some of the bytes there are, 0 at the end of the
\* stream, -1 when the connection was reset.
ReadResults ==
  {n \in 1 .. MAX_READ : n <= sent - taken}
    \cup (IF closed THEN {-1} ELSE {})
    \cup (IF closed /\ taken = sent THEN {0} ELSE {})

\* Mutant: the END line is looked for in the last piece of a request.
FoundInPiece(hi) ==
  IF pc = "response" THEN respLen <= hi
                     ELSE \E e \in ends : taken <= e - EndLen /\ e <= hi

\* Mutant: both loops look for END_CLIENT_REQUEST_S.
FoundRequest(hi) == \E e \in ends : base <= e - EndLen /\ e <= hi

\* strstr(msgBuff, END_..._S) once the buffer holds the stream up to hi.
Found(hi) ==
  IF pc = "response" THEN respLen <= hi
                     ELSE \E e \in ends : base <= e - EndLen /\ e <= hi

\* Mutant: the size of the next read is forgotten.
GoesOnToBrim(b, n) == b < MAX_BUFF /\ n > 0

\* Mutant: one read is taken for the whole message.
GoesOnce(b, n) == FALSE

\* while(bytesRead + MAX_READ < MAX_BUFF && numRead > 0)
GoesOn(b, n) == b + MAX_READ < MAX_BUFF /\ n > 0

\* One iteration of the loop of authenticateClient or of processRequest.
ReadPiece ==
  /\ pc \in {"response", "request"}
  /\ \E n \in ReadResults :
       /\ taken' = IF n > 0 THEN taken + n ELSE taken
       /\ bytesRead' = bytesRead + n
       /\ numRead' = IF Found(taken') THEN 0 ELSE n
       /\ pc' = IF GoesOn(bytesRead', numRead') THEN pc
                ELSE IF pc = "response" THEN "auth" ELSE "dispatch"
  /\ UNCHANGED <<clientVars, base, replies>>

\* The next call has a buffer and counters of its own, and the bytes behind the
\* END line are gone with the old one.
NewBuffer == base' = taken /\ bytesRead' = 0 /\ numRead' = 0

\* verifySig() of what was read.  It refuses the empty response; any other,
\* cut short or not, may pass: one that lacks its END line only, and every one
\* when the key cannot be read.  The failed reads that follow a refusal end
\* the session.
Authenticate ==
  /\ pc = "auth"
  /\ NewBuffer
  /\ pc' \in {"ended"} \cup (IF taken > 0 THEN {"request"} ELSE {})
  /\ UNCHANGED <<clientVars, taken, replies>>

\* Mutant: an empty request is read again.
DispatchEmpty ==
  /\ pc = "dispatch"
  /\ NewBuffer
  /\ replies' = IF taken > base THEN replies + 1 ELSE replies
  /\ pc' = "request"
  /\ UNCHANGED <<clientVars, taken>>

\* The rest of processRequest: an empty request, or one that says exit, ends the
\* session; any other is answered, granted or denied.
Dispatch ==
  /\ pc = "dispatch"
  /\ NewBuffer
  /\ \/ /\ taken > base
        /\ replies' = replies + 1
        /\ pc' = "request"
     \/ pc' = "ended" /\ UNCHANGED replies
  /\ UNCHANGED <<clientVars, taken>>

Server == ReadPiece \/ Authenticate \/ Dispatch

Next == Client \/ Server

Spec == Init /\ [][Next]_vars

\* The session's process is scheduled; nothing is assumed of the client.
FairSpec == Spec /\ WF_vars(Server)

-----------------------------------------------------------------------------
(* Properties                                                              *)

\* Every read() has room for MAX_READ bytes in front of the buffer's last byte,
\* the 0 that strstr() stops at, after failed reads, too (msgBuff + bytesRead).
InBuffer ==
  pc \in {"response", "request"} =>
    0 <= bytesRead /\ bytesRead + MAX_READ <= MAX_BUFF

\* The reads that look for END_RESPONSE_S take less than MAX_READ bytes of the
\* requests that follow: that is all that can be lost with authenticateClient's
\* buffer (TransportService's Leftovers).  They leave a part of the response
\* behind only when the client goes or the response fills the buffer.
OverrunBounded ==
  pc \in {"request", "dispatch"} /\ replies = 0 =>
    /\ base < respLen + MAX_READ
    /\ base < respLen => closed \/ base + MAX_READ >= MAX_BUFF

\* As long as the messages fit the buffer, the loops fall into step again after
\* such a loss: once a request has been answered, the next buffer begins where
\* the client's next request does, and no request is answered twice, however
\* the stream was cut into pieces.
InStep ==
  fits /\ ~closed /\ replies > 0 =>
    /\ replies <= requests
    /\ pc = "request" /\ replies = requests => base = sent

\* Whatever the messages' lengths, every answer the client did not ask for has
\* been paid for with a full buffer: processRequest answers nothing else while
\* its client is there.
ExtraAnswersPaid ==
  ~closed => (replies - requests) * (MAX_BUFF - MAX_READ) <= base

\* A request of which nothing was lost is read to its end and taken up.
WholeRequestTaken ==
  (pc = "request" /\ base < sent /\ \E e \in ends : base <= e - EndLen)
    ~> pc \in {"dispatch", "ended"}

\* Wherever the session is when its client goes away, its reads come to an end.
GoneMeansEnded == closed ~> pc = "ended"

=============================================================================
