------------------------- MODULE MessageReadsProofs -------------------------
(***************************************************************************)
(* Proofs about the read loops, for every size of the buffer and of a read, *)
(* every length of a message and every way the stream is cut into pieces.   *)
(***************************************************************************)
EXTENDS MessageReads, TLAPS

\* Where the buffers and the stream are in each phase of the session.
LoopInv ==
  /\ base <= taken /\ taken <= sent
  /\ fits => respLen + MAX_READ <= MAX_BUFF
  /\ pc = "response" =>
       base = 0 /\ taken < respLen /\ replies = 0 /\ bytesRead = taken
  /\ pc = "auth" =>
       /\ taken < respLen + MAX_READ /\ replies = 0
       /\ taken < respLen => closed \/ taken + MAX_READ >= MAX_BUFF

\* As long as the client is there and its messages fit: at most one request is
\* not answered.  With none, the next buffer begins at the end of the stream;
\* with one, it holds the only END line from the buffer on, at the end of the
\* stream, and what is left of it fits into the buffer.
StepInv ==
  /\ replies <= requests /\ requests <= replies + 1
  /\ requests > 0 => sent > 0
  /\ \A e \in ends : e <= sent
  /\ pc \in {"response", "auth"} =>
       /\ \A e \in ends : e = sent
       /\ requests = 0 => ends = {} /\ sent \in {0, respLen}
       /\ requests > 0 => sent - respLen + MAX_READ <= MAX_BUFF
  /\ pc \in {"request", "dispatch"} =>
       /\ respLen <= base
       /\ requests = replies => base = sent
       /\ requests > replies =>
            /\ sent - base + MAX_READ <= MAX_BUFF
            /\ \A e \in ends : e = sent \/ e - EndLen < base
  /\ pc = "request" => bytesRead = taken - base
  /\ pc = "dispatch" => taken = sent /\ requests = replies + 1

ReadInv ==
  /\ TypeOK /\ LoopInv /\ InBuffer /\ OverrunBounded
  /\ ~closed /\ fits => StepInv

-----------------------------------------------------------------------------
(* The constants                                                           *)

LEMMA Lens ==
  /\ \A l \in ResponseLens : l \in Nat /\ l > 0
  /\ \A l \in RequestLens : l \in Nat /\ l > 0
  /\ MAX_READ \in Nat /\ MAX_READ > 0 /\ MAX_BUFF \in Nat
  /\ MAX_READ <= MAX_BUFF /\ EndLen \in Nat /\ EndLen > 0 /\ MaxRequests \in Nat
BY BufferAssumption, LengthAssumption

-----------------------------------------------------------------------------
(* Init and the client                                                     *)

LEMMA ReadInvInit == Init => ReadInv
<1> SUFFICES ASSUME Init PROVE ReadInv OBVIOUS
<1>1. TypeOK
  <2>1. /\ requests \in 0 .. MaxRequests /\ bytesRead \in -1 .. MAX_BUFF
        /\ numRead \in -1 .. MAX_READ
    BY Lens DEF Init
  <2>2. /\ sent \in Nat /\ base \in Nat /\ taken \in Nat /\ replies \in Nat
        /\ fits \in BOOLEAN
    BY DEF Init, Fits
  <2> QED BY <2>1, <2>2 DEF Init, TypeOK
<1>2. LoopInv
  <2>1. fits => respLen + MAX_READ <= MAX_BUFF BY Zenon DEF Init, Fits
  <2>2. respLen > 0 /\ respLen \in Nat BY Lens DEF Init
  <2> QED BY <2>1, <2>2 DEF Init, LoopInv
<1>3. InBuffer /\ OverrunBounded BY Lens DEF Init, InBuffer, OverrunBounded
<1>4. StepInv BY Lens DEF Init, StepInv
<1> QED BY <1>1, <1>2, <1>3, <1>4 DEF ReadInv

\* The client writes at the end of the stream and touches no buffer.
LEMMA ClientStep == ASSUME ReadInv, Client PROVE ReadInv'
<1>t. TypeOK /\ LoopInv /\ InBuffer /\ OverrunBounded BY DEF ReadInv
<1>u. /\ UNCHANGED <<respLen, pc, base, taken, bytesRead, numRead, replies>>
      /\ respLen \in Nat /\ respLen > 0
  BY <1>t, Lens
     DEF Client, SendResponse, SendRequest, Close, TypeOK, loopVars
<1>1. CASE SendResponse
  <2>1. TypeOK' BY <1>1, <1>t, <1>u DEF SendResponse, TypeOK
  <2>2. LoopInv' BY <1>1, <1>t, <1>u DEF SendResponse, LoopInv, TypeOK
  <2>3. InBuffer' /\ OverrunBounded'
    BY <1>1, <1>t, <1>u DEF SendResponse, InBuffer, OverrunBounded
  <2>4. ASSUME fits' PROVE StepInv'
    <3>1. StepInv /\ sent = 0 /\ sent' = respLen /\ UNCHANGED <<ends, requests>>
      BY <1>1, <2>4 DEF SendResponse, ReadInv
    <3>2. base = 0 /\ taken = 0 /\ pc \notin {"request", "dispatch"}
      BY <3>1, <1>t, <1>u DEF LoopInv, StepInv, TypeOK
    <3>3. pc \in {"response", "auth"} => requests = 0 /\ ends = {}
      BY <3>1, <1>t DEF StepInv, TypeOK
    <3>4. \A e \in ends : e <= sent'
      BY <3>1, <1>t, <1>u DEF StepInv, TypeOK
    <3> QED BY <3>1, <3>2, <3>3, <3>4, <1>t, <1>u DEF StepInv, TypeOK
  <2> QED BY <2>1, <2>2, <2>3, <2>4 DEF ReadInv
<1>2. CASE SendRequest
  <2>1. PICK l \in RequestLens : sent' = sent + l /\ fits' = (fits /\ Fits(l))
    BY <1>2 DEF SendRequest
  <2>l. l \in Nat /\ l > 0 BY <2>1, Lens
  <2>2. TypeOK'
    <3>1. sent' \in Nat /\ ends' \subseteq Nat
      BY <1>2, <1>t, <2>1, <2>l DEF SendRequest, TypeOK
    <3>2. requests' \in 0 .. MaxRequests /\ UNCHANGED closed
      BY <1>2, <1>t, Lens DEF SendRequest, TypeOK
    <3>3. fits' \in BOOLEAN BY <2>1
    <3> QED BY <3>1, <3>2, <3>3, <1>t, <1>u DEF TypeOK
  <2>3. LoopInv'
    BY <1>2, <1>t, <1>u, <2>1, <2>l DEF SendRequest, LoopInv, TypeOK
  <2>4. InBuffer' /\ OverrunBounded'
    BY <1>2, <1>t, <1>u DEF SendRequest, InBuffer, OverrunBounded
  <2>5. ASSUME fits' PROVE StepInv'
    <3>0. fits /\ l + MAX_READ <= MAX_BUFF BY <2>1, <2>5 DEF Fits
    <3>1. /\ StepInv /\ sent > 0 /\ requests = replies
          /\ requests' = requests + 1 /\ ends' = ends \cup {sent'}
      BY <1>2, <1>t, <3>0 DEF SendRequest, ReadInv, StepInv, TypeOK
    <3>2. \A e \in ends : e \in Nat /\ e <= sent
      BY <3>1, <1>t DEF StepInv, TypeOK
    <3>3. \A e \in ends' : e <= sent'
      BY <3>1, <3>2, <2>1, <2>l, <1>t DEF TypeOK
    <3>4. ASSUME pc \in {"response", "auth"}
          PROVE  /\ \A e \in ends' : e = sent'
                 /\ sent' - respLen + MAX_READ <= MAX_BUFF
      <4>1. requests = 0
        BY <3>4, <3>1, <1>t DEF LoopInv
      <4>2. ends = {} /\ sent = respLen BY <3>4, <4>1, <3>1 DEF StepInv
      <4> QED BY <4>2, <3>0, <3>1, <2>1, <2>l, <1>u, Lens
    <3>5. ASSUME pc \in {"request", "dispatch"}
          PROVE  /\ respLen <= base
                 /\ sent' - base + MAX_READ <= MAX_BUFF
                 /\ \A e \in ends' : e = sent' \/ e - EndLen < base
      <4>1. respLen <= base /\ base = sent BY <3>5, <3>1 DEF StepInv
      <4>2. sent' - base + MAX_READ <= MAX_BUFF
        BY <4>1, <3>0, <2>1, <2>l, <1>t, Lens DEF TypeOK
      <4>3. \A e \in ends : e - EndLen < base
        BY <4>1, <3>2, <1>t, Lens DEF TypeOK
      <4> QED BY <4>1, <4>2, <4>3, <3>1
    <3>6. pc # "dispatch" BY <3>1, <1>t DEF StepInv, TypeOK
    <3>7. pc = "request" => bytesRead = taken - base BY <3>1 DEF StepInv
    <3>8. replies <= requests' /\ requests' <= replies + 1 /\ requests' > replies
          /\ sent' > 0
      BY <3>1, <2>1, <2>l, <1>t DEF TypeOK
    <3> QED BY <3>3, <3>4, <3>5, <3>6, <3>7, <3>8, <1>u, <1>t DEF StepInv, TypeOK
  <2> QED BY <2>2, <2>3, <2>4, <2>5 DEF ReadInv
<1>3. CASE Close
  <2>1. UNCHANGED <<sent, ends, requests, fits>> /\ closed' = TRUE
    BY <1>3 DEF Close
  <2>2. TypeOK' BY <1>t, <1>u, <2>1 DEF TypeOK
  <2>3. LoopInv' /\ InBuffer' /\ OverrunBounded'
    BY <1>t, <1>u, <2>1 DEF LoopInv, InBuffer, OverrunBounded
  <2> QED BY <2>1, <2>2, <2>3 DEF ReadInv
<1> QED BY <1>1, <1>2, <1>3 DEF Client

-----------------------------------------------------------------------------
(* The server                                                              *)

\* A loop that ends with bytes read has filled its buffer; when what is left of
\* the request fits into the buffer, it was read to the end of the stream.
LEMMA FullMeansRead ==
  ASSUME NEW b \in Int, NEW n \in Int, n > 0, ~GoesOn(b, n),
         NEW hi \in Nat, NEW lo \in Nat, b = hi - lo,
         NEW top \in Nat, hi <= top, top - lo + MAX_READ <= MAX_BUFF
  PROVE  hi = top
<1>1. b + MAX_READ >= MAX_BUFF BY Lens DEF GoesOn
<1> QED BY <1>1, Lens

\* One iteration of a read loop.
LEMMA ReadPieceStep == ASSUME ReadInv, ReadPiece PROVE ReadInv'
<1>t. TypeOK /\ LoopInv /\ InBuffer /\ OverrunBounded BY DEF ReadInv
<1>u. /\ UNCHANGED <<respLen, sent, ends, requests, closed, fits, base, replies>>
      /\ pc \in {"response", "request"} /\ respLen \in Nat /\ respLen > 0
  BY <1>t, Lens DEF ReadPiece, clientVars, TypeOK
<1>1. PICK n \in ReadResults :
        /\ taken' = IF n > 0 THEN taken + n ELSE taken
        /\ bytesRead' = bytesRead + n
        /\ numRead' = IF Found(taken') THEN 0 ELSE n
        /\ pc' = IF GoesOn(bytesRead', numRead') THEN pc
                 ELSE IF pc = "response" THEN "auth" ELSE "dispatch"
  BY DEF ReadPiece
<1>2. /\ n \in -1 .. MAX_READ /\ (n > 0 => n <= sent - taken)
      /\ ~closed => n > 0
  BY Lens DEF ReadResults
<1>3. /\ sent \in Nat /\ base \in Nat /\ taken \in Nat /\ replies \in Nat
      /\ bytesRead \in Int /\ 0 <= bytesRead /\ bytesRead + MAX_READ <= MAX_BUFF
      /\ base <= taken /\ taken <= sent /\ requests \in Nat
  BY <1>t, <1>u, Lens DEF TypeOK, InBuffer, LoopInv
<1>4. /\ taken' \in Nat /\ taken <= taken' /\ taken' <= sent
      /\ taken' <= taken + MAX_READ
      /\ n > 0 => taken' = taken + n
  BY <1>1, <1>2, <1>3, Lens
<1>5. /\ bytesRead' \in -1 .. MAX_BUFF /\ numRead' \in -1 .. MAX_READ
      /\ numRead' = 0 \/ numRead' = n
  <2>1. bytesRead' \in -1 .. MAX_BUFF BY <1>1, <1>2, <1>3, Lens
  <2>2. numRead' = 0 \/ numRead' = n BY <1>1
  <2> QED BY <2>1, <2>2, <1>2, Lens
<1>6. /\ GoesOn(bytesRead', numRead') => pc' = pc
      /\ ~GoesOn(bytesRead', numRead') =>
           pc' = IF pc = "response" THEN "auth" ELSE "dispatch"
  BY <1>1, <1>u
<1>7. GoesOn(bytesRead', numRead') =>
        n > 0 /\ ~Found(taken') /\ bytesRead' + MAX_READ < MAX_BUFF
  BY <1>1, <1>2 DEF GoesOn
<1>8. TypeOK'
  BY <1>t, <1>u, <1>4, <1>5, <1>6 DEF TypeOK
<1>9. LoopInv'
  <2>1. CASE pc = "response"
    <3>1. base = 0 /\ taken < respLen /\ replies = 0 /\ bytesRead = taken
      BY <2>1, <1>t DEF LoopInv
    <3>2. GoesOn(bytesRead', numRead') => taken' < respLen
      BY <2>1, <1>7, <1>4, <1>u DEF Found
    <3>3. taken' < respLen + MAX_READ BY <3>1, <1>4, <1>3, <1>u, Lens
    <3>4. GoesOn(bytesRead', numRead') => bytesRead' = taken'
      BY <3>1, <1>1, <1>4, <1>7
    <3>5. ~GoesOn(bytesRead', numRead') /\ taken' < respLen =>
            closed \/ taken' + MAX_READ >= MAX_BUFF
      <4> SUFFICES ASSUME ~GoesOn(bytesRead', numRead'), taken' < respLen, ~closed
                   PROVE  taken' + MAX_READ >= MAX_BUFF
        OBVIOUS
      <4>1. n > 0 /\ bytesRead' = taken' BY <3>1, <1>1, <1>2, <1>4
      <4>2. ~Found(taken') BY <2>1, <1>4, <1>u DEF Found
      <4>3. numRead' = n BY <4>2, <1>1
      <4> QED BY <4>1, <4>3, <1>4, Lens DEF GoesOn
    <3>6. fits' => respLen' + MAX_READ <= MAX_BUFF BY <1>t, <1>u DEF LoopInv
    <3> QED
      BY <2>1, <3>1, <3>2, <3>3, <3>4, <3>5, <3>6, <1>3, <1>4, <1>6, <1>u
      DEF LoopInv
  <2>2. CASE pc = "request"
    BY <2>2, <1>3, <1>4, <1>6, <1>t, <1>u DEF LoopInv
  <2> QED BY <2>1, <2>2, <1>u
<1>10. InBuffer'
  <2>1. CASE GoesOn(bytesRead', numRead')
    BY <2>1, <1>1, <1>2, <1>3, <1>7, Lens DEF InBuffer
  <2>2. CASE ~GoesOn(bytesRead', numRead')
    BY <2>2, <1>6 DEF InBuffer
  <2> QED BY <2>1, <2>2
<1>11. OverrunBounded' BY <1>t, <1>u, <1>6 DEF OverrunBounded
<1>12. ASSUME ~closed', fits' PROVE StepInv'
  <2>1. StepInv /\ n > 0 /\ taken' = taken + n
    BY <1>12, <1>u, <1>2, <1>4 DEF ReadInv
  <2>2. CASE pc = "response"
    BY <2>1, <2>2, <1>u, <1>6 DEF StepInv
  <2>3. CASE pc = "request"
    <3>1. bytesRead' = taken' - base
      BY <2>1, <2>3, <1>1, <1>2, <1>3 DEF StepInv
    <3>2. requests = replies + 1
      <4>1. base # sent BY <2>1, <1>2, <1>3
      <4> QED BY <4>1, <2>1, <2>3, <1>3 DEF StepInv
    <3>3. /\ sent - base + MAX_READ <= MAX_BUFF
          /\ \A e \in ends : e = sent \/ e - EndLen < base
      BY <3>2, <2>1, <2>3, <1>3 DEF StepInv
    <3>4. ASSUME ~GoesOn(bytesRead', numRead') PROVE taken' = sent
      <4>1. CASE Found(taken')
        <5>1. PICK e \in ends : base <= e - EndLen /\ e <= taken'
          BY <4>1, <2>3, <1>u DEF Found
        <5>2. e \in Nat BY <1>t DEF TypeOK
        <5>3. e = sent BY <5>1, <5>2, <3>3, <1>3, Lens
        <5> QED BY <5>1, <5>3, <1>3, <1>4
      <4>2. CASE ~Found(taken')
        <5>1. numRead' = n BY <4>2, <1>1
        <5>2. ~GoesOn(bytesRead', n) BY <5>1, <3>4
        <5>3. bytesRead' \in Int /\ n \in Int BY <1>5, <1>2
        <5>4. sent - base + MAX_READ <= MAX_BUFF BY <3>3
        <5> HIDE DEF GoesOn
        <5> QED BY <5>2, <5>3, <5>4, <3>1, <2>1, <1>3, <1>4, FullMeansRead
      <4> QED BY <4>1, <4>2
    <3>5. pc' \in {"request", "dispatch"} /\ (pc' = "dispatch" => taken' = sent)
      BY <3>4, <2>3, <1>6
    <3> QED BY <3>1, <3>2, <3>3, <3>5, <2>1, <2>3, <1>u DEF StepInv
  <2> QED BY <2>2, <2>3, <1>u
<1> QED BY <1>8, <1>9, <1>10, <1>11, <1>12 DEF ReadInv

\* The end of authenticateClient.
LEMMA AuthenticateStep == ASSUME ReadInv, Authenticate PROVE ReadInv'
<1>t. TypeOK /\ LoopInv /\ InBuffer /\ OverrunBounded BY DEF ReadInv
<1>u. /\ UNCHANGED <<respLen, sent, ends, requests, closed, taken, replies>>
      /\ base' = taken /\ bytesRead' = 0 /\ numRead' = 0
      /\ pc = "auth" /\ pc' \in {"ended", "request"}
      /\ UNCHANGED fits
      /\ respLen \in Nat /\ respLen > 0
  BY <1>t, Lens DEF Authenticate, NewBuffer, clientVars, TypeOK
<1>3. /\ sent \in Nat /\ taken \in Nat /\ taken <= sent /\ requests \in Nat
      /\ taken < respLen + MAX_READ /\ replies = 0
      /\ taken < respLen => closed \/ taken + MAX_READ >= MAX_BUFF
      /\ fits => respLen + MAX_READ <= MAX_BUFF
  BY <1>t, <1>u, Lens DEF TypeOK, LoopInv
<1>4. bytesRead' \in -1 .. MAX_BUFF /\ numRead' \in -1 .. MAX_READ
  BY <1>u, Lens
<1>5. TypeOK' BY <1>t, <1>u, <1>3, <1>4 DEF TypeOK
<1>6. LoopInv' BY <1>u, <1>3 DEF LoopInv
<1>7. InBuffer' BY <1>u, Lens DEF InBuffer
<1>8. OverrunBounded' BY <1>u, <1>3, Lens DEF OverrunBounded
<1>9. ASSUME ~closed', fits' PROVE StepInv'
  <2>1. StepInv BY <1>9, <1>u DEF ReadInv
  <2>r. respLen <= taken BY <1>9, <1>u, <1>3, Lens
  <2>2. CASE pc' = "ended" BY <2>1, <2>2, <1>u DEF StepInv
  <2>3. CASE pc' = "request"
    <3>1. requests = 0 => sent = respLen
      BY <2>1, <2>r, <1>u, <1>3 DEF StepInv
    <3>2. requests = 0 => base' = sent' BY <3>1, <2>r, <1>u, <1>3
    <3>3. requests > 0 => sent - taken + MAX_READ <= MAX_BUFF
      <4>1. requests > 0 => sent - respLen + MAX_READ <= MAX_BUFF
        BY <2>1, <1>u DEF StepInv
      <4> QED BY <4>1, <2>r, <1>u, <1>3, Lens
    <3>4. \A e \in ends : e = sent BY <2>1, <1>u DEF StepInv
    <3>5. bytesRead' = taken' - base' BY <1>u, <1>3
    <3> QED BY <3>2, <3>3, <3>4, <3>5, <2>1, <2>3, <2>r, <1>u, <1>3 DEF StepInv
  <2> QED BY <2>2, <2>3, <1>u
<1> QED BY <1>5, <1>6, <1>7, <1>8, <1>9 DEF ReadInv

\* The end of processRequest.
LEMMA DispatchStep == ASSUME ReadInv, Dispatch PROVE ReadInv'
<1>t. TypeOK /\ LoopInv /\ InBuffer /\ OverrunBounded BY DEF ReadInv
<1>u. /\ UNCHANGED <<respLen, sent, ends, requests, closed, fits, taken>>
      /\ base' = taken /\ bytesRead' = 0 /\ numRead' = 0
      /\ pc = "dispatch"
      /\ \/ pc' = "request" /\ replies' = replies + 1
         \/ pc' = "ended" /\ replies' = replies
  BY DEF Dispatch, NewBuffer, clientVars
<1>3. /\ sent \in Nat /\ taken \in Nat /\ taken <= sent /\ requests \in Nat
      /\ replies \in Nat /\ base \in Nat /\ base <= taken /\ respLen \in Nat
      /\ fits => respLen + MAX_READ <= MAX_BUFF
  BY <1>t, Lens DEF TypeOK, LoopInv
<1>4. /\ bytesRead' \in -1 .. MAX_BUFF /\ numRead' \in -1 .. MAX_READ
      /\ replies' \in Nat
  BY <1>u, <1>3, Lens
<1>5. TypeOK' BY <1>t, <1>u, <1>3, <1>4 DEF TypeOK
<1>6. LoopInv' BY <1>u, <1>3 DEF LoopInv
<1>7. InBuffer' BY <1>u, Lens DEF InBuffer
<1>8. OverrunBounded' BY <1>u, <1>3 DEF OverrunBounded
<1>9. ASSUME ~closed', fits' PROVE StepInv'
  <2>1. StepInv BY <1>9, <1>u DEF ReadInv
  <2>2. CASE pc' = "ended" BY <2>1, <2>2, <1>u DEF StepInv
  <2>3. CASE pc' = "request"
    <3>1. taken = sent /\ requests = replies + 1 /\ respLen <= base
      BY <2>1, <1>u DEF StepInv
    <3>2. bytesRead' = taken' - base' BY <1>u, <1>3
    <3>3. requests' = replies' /\ respLen' <= base' BY <2>3, <3>1, <1>u, <1>3
    <3> QED BY <3>1, <3>2, <3>3, <2>1, <2>3, <1>u, <1>3 DEF StepInv
  <2> QED BY <2>2, <2>3, <1>u
<1> QED BY <1>5, <1>6, <1>7, <1>8, <1>9 DEF ReadInv

LEMMA ReadInvStep == ReadInv /\ [Next]_vars => ReadInv'
<1> SUFFICES ASSUME ReadInv, [Next]_vars PROVE ReadInv' OBVIOUS
<1>1. CASE Client BY <1>1, ClientStep
<1>2. CASE ReadPiece BY <1>2, ReadPieceStep
<1>3. CASE Authenticate BY <1>3, AuthenticateStep
<1>4. CASE Dispatch BY <1>4, DispatchStep
<1>5. CASE UNCHANGED vars
  BY <1>5 DEF vars, clientVars, loopVars, ReadInv, TypeOK, LoopInv, InBuffer,
              OverrunBounded, StepInv
<1> QED BY <1>1, <1>2, <1>3, <1>4, <1>5 DEF Next, Server

\* The buffers, the stream and the session stay in step.
THEOREM ReadInvariant == Spec => []ReadInv
BY ReadInvInit, ReadInvStep, PTL DEF Spec

-----------------------------------------------------------------------------
(* What follows                                                            *)

\* Every variable of the read loops keeps its type; bytesRead and numRead stay
\* within -1 and the sizes the loops are written for.
THEOREM ReadsTypeOK == Spec => []TypeOK
<1>1. ReadInv => TypeOK BY DEF ReadInv
<1> QED BY <1>1, ReadInvariant, PTL

\* No read() of authenticateClient or processRequest is given less room than
\* MAX_READ in front of the terminating 0 of msgBuff.
THEOREM InBufferTheorem == Spec => []InBuffer
<1>1. ReadInv => InBuffer BY DEF ReadInv
<1> QED BY <1>1, ReadInvariant, PTL

\* authenticateClient reads less than MAX_READ bytes past END_RESPONSE_S, and
\* stops before it only when the client goes or the buffer is full.
THEOREM OverrunBoundedTheorem == Spec => []OverrunBounded
<1>1. ReadInv => OverrunBounded BY DEF ReadInv
<1> QED BY <1>1, ReadInvariant, PTL

\* After the first answer processRequest reads in step with a client whose
\* messages fit the buffer, and answers none of its requests twice.
THEOREM InStepTheorem == Spec => []InStep
<1>1. ReadInv => InStep BY DEF ReadInv, StepInv, InStep
<1> QED BY <1>1, ReadInvariant, PTL

=============================================================================
