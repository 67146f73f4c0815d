----------------------- MODULE TransportServiceProofs -----------------------
(***************************************************************************)
(* Proofs about the server, for every number of clients, processes,        *)
(* descriptors, requests and clauses.                                      *)
(***************************************************************************)
EXTENDS TransportService, TLAPS

\* The one-line operators the actions are put together from.
USE DEF EndOfFile, CountChild, Verified, AuthenticateClient, ServeRequests

-----------------------------------------------------------------------------
(* Sequences                                                               *)

LEMMA EmptyInSeq == ASSUME NEW S PROVE <<>> \in Seq(S)
OBVIOUS

LEMMA OneInSeq == ASSUME NEW S, NEW x \in S PROVE <<x>> \in Seq(S)
OBVIOUS

LEMMA OneElement ==
  ASSUME NEW x, NEW i \in 1 .. Len(<<x>>) PROVE i = 1 /\ <<x>>[1] = x
OBVIOUS

LEMMA HeadTailInSeq ==
  ASSUME NEW S, NEW s \in Seq(S), s # <<>>
  PROVE  /\ Head(s) \in S /\ Tail(s) \in Seq(S)
         /\ Head(s) = s[1] /\ 1 \in 1 .. Len(s)
OBVIOUS

LEMMA TailElement ==
  ASSUME NEW S, NEW s \in Seq(S), s # <<>>, NEW i \in 1 .. Len(Tail(s))
  PROVE  i + 1 \in 1 .. Len(s) /\ Tail(s)[i] = s[i + 1]
OBVIOUS

LEMMA AppendElement ==
  ASSUME NEW S, NEW s \in Seq(S), NEW x \in S, NEW i \in 1 .. Len(Append(s, x))
  PROVE  \/ i \in 1 .. Len(s) /\ Append(s, x)[i] = s[i]
         \/ i = Len(s) + 1 /\ Append(s, x)[i] = x
OBVIOUS

-----------------------------------------------------------------------------
(* Bounds                                                                  *)

LEMMA ElapsedBounds ==
  /\ 0 \in 0 .. TIME_OUT + 1
  /\ \A e \in 0 .. TIME_OUT + 1 : e <= TIME_OUT => e + 1 \in 0 .. TIME_OUT + 1
BY BoundAssumption

LEMMA LineBounds ==
  /\ 0 \in 0 .. NumClauses + 1
  /\ \A i \in Lines : /\ i + 1 \in 0 .. NumClauses + 1
                      /\ i # NumClauses => i + 1 \in Lines
BY BoundAssumption DEF Lines

-----------------------------------------------------------------------------
(* Type correctness                                                        *)

TypeInv == TypeOK /\ CountInv

LEMMA TypeInit == Init => TypeInv
<1> SUFFICES ASSUME Init PROVE TypeInv OBVIOUS
<1> USE ProcAssumption, BoundAssumption
<1>1. MainTypeOK
  <2>1. elapsed = 0 /\ mainPc = "accept" /\ clientSocketId = NoSocket
        /\ socketMsg = "" /\ backlog = <<>>
    BY DEF Init
  <2>2. backlog \in Seq(Clients) BY <2>1, EmptyInSeq
  <2>3. elapsed \in 0 .. TIME_OUT + 1 BY <2>1, ElapsedBounds, Zenon
  <2> QED BY <2>1, <2>2, <2>3 DEF MainTypeOK
<1>2. MemberTypeOK BY DEF Init, MemberTypeOK
<1>3. ChildTypeOK
  <2>1. off \in [Procs -> 0 .. NumClauses + 1]
    <3>1. off = [p \in Procs |-> 0] BY DEF Init
    <3> QED BY <3>1
  <2> QED BY <2>1 DEF Init, ChildTypeOK, Messages, Requests
<1>4. FileTypeOK BY DEF Init, FileTypeOK, EmptyFile, Line
<1>5. ClientTypeOK
  <2>1. sent \in [Clients -> 0 .. MaxRequests]
    <3>1. sent = [c \in Clients |-> 0] BY DEF Init
    <3> QED BY <3>1
  <2>2. toServer \in [Clients -> Seq(Messages)]
    <3>1. toServer = [c \in Clients |-> <<>>] BY DEF Init
    <3> QED BY <3>1, EmptyInSeq
  <2> QED BY <2>1, <2>2 DEF Init, ClientTypeOK, Credentials, Responses
<1>6. CountInv
  BY DEF Init, CountInv, MainNeverServes, Live, Processes
<1> QED BY <1>1, <1>2, <1>3, <1>4, <1>5, <1>6 DEF TypeInv, TypeOK

\* Every step of a client keeps the types.
LEMMA ClientTypeStep ==
  ASSUME TypeInv, NEW c \in Clients, Client(c)
  PROVE  TypeInv'
<1>1. UNCHANGED <<memberVars, childVars, fds, fileVars>>
  BY DEF Client, ClientConnect, ClientSendCredential, ClientSendResponse,
         ClientSendRequest, ClientReadReply, ClientClose
<1>2. MemberTypeOK' /\ ChildTypeOK' /\ FileTypeOK' /\ CountInv'
  BY <1>1 DEF TypeInv, TypeOK, MemberTypeOK, ChildTypeOK, FileTypeOK, CountInv,
              MainNeverServes, memberVars, childVars, fileVars
<1>3. MainTypeOK'
  <2>1. CASE ClientConnect(c)
    <3>1. backlog' \in Seq(Clients)
      <4>1. backlog \in Seq(Clients) BY DEF TypeInv, TypeOK, MainTypeOK
      <4>2. backlog' = Append(backlog, c) BY <2>1 DEF ClientConnect
      <4> QED BY <4>1, <4>2
    <3> QED BY <2>1, <3>1 DEF ClientConnect, TypeInv, TypeOK, MainTypeOK
  <2>2. CASE ~ClientConnect(c)
    <3>1. UNCHANGED mainVars
      BY <2>2 DEF Client, ClientSendCredential, ClientSendResponse,
                  ClientSendRequest, ClientReadReply, ClientClose
    <3> QED BY <3>1 DEF mainVars, TypeInv, TypeOK, MainTypeOK
  <2> QED BY <2>1, <2>2
<1>4. ClientTypeOK'
  <2> USE DEF TypeInv, TypeOK, ClientTypeOK, clientVars, netVars
  <2>1. CASE ClientConnect(c) BY <2>1 DEF ClientConnect
  <2>2. CASE ClientSendCredential(c)
    <3>1. PICK k \in Credentials :
            /\ cred' = [cred EXCEPT ![c] = k]
            /\ toServer' = [toServer EXCEPT ![c] = Append(toServer[c], k)]
      BY <2>2, FirstMessagesAssumption DEF ClientSendCredential
    <3>2. phase' = [phase EXCEPT ![c] = "waitChallenge"]
          /\ UNCHANGED <<sig, sent, toClient, rest>>
      BY <2>2 DEF ClientSendCredential
    <3>3. k \in Messages BY <3>1 DEF Messages
    <3> QED BY <3>1, <3>2, <3>3
  <2>3. CASE ClientSendResponse(c)
    <3>1. PICK r \in Responses :
            /\ sig' = [sig EXCEPT ![c] = r]
            /\ toServer' = [toServer EXCEPT ![c] = Append(toServer[c], r)]
      BY <2>3 DEF ClientSendResponse, Responses
    <3>2. /\ phase' = [phase EXCEPT ![c] = "ready"]
          /\ toClient' = [toClient EXCEPT ![c] = "none"]
          /\ UNCHANGED <<cred, sent, rest>>
      BY <2>3 DEF ClientSendResponse
    <3>3. r \in Messages BY <3>1 DEF Messages
    <3> QED BY <3>1, <3>2, <3>3
  <2>4. CASE ClientSendRequest(c)
    BY <2>4, BoundAssumption DEF ClientSendRequest, Messages
  <2>5. CASE ClientReadReply(c) BY <2>5 DEF ClientReadReply
  <2>6. CASE ClientClose(c) BY <2>6 DEF ClientClose
  <2> QED BY <2>1, <2>2, <2>3, <2>4, <2>5, <2>6 DEF Client
<1> QED BY <1>2, <1>3, <1>4 DEF TypeInv, TypeOK

\* Every step of startListening, and of the clock, keeps the types.
LEMMA MainTypeStep ==
  ASSUME TypeInv, MainStep \/ Tick
  PROVE  TypeInv'
<1> USE ProcAssumption
     DEF TypeInv, TypeOK, mainVars, memberVars, childVars, fileVars, clientVars,
         netVars
<1>1. CASE Accept
  <2>1. Head(backlog) \in Clients /\ Tail(backlog) \in Seq(Clients)
    BY <1>1, HeadTailInSeq DEF Accept, MainTypeOK
  <2>2. MainTypeOK' BY <1>1, <2>1 DEF Accept, MainTypeOK
  <2>3. ChildTypeOK' BY <1>1, <2>1 DEF Accept, ChildTypeOK, Processes
  <2>4. MemberTypeOK' /\ FileTypeOK' /\ ClientTypeOK' /\ CountInv'
    BY <1>1 DEF Accept, MemberTypeOK, FileTypeOK, ClientTypeOK, CountInv,
                MainNeverServes
  <2> QED BY <2>2, <2>3, <2>4
<1>2. CASE AcceptFails
  <2>1. MainTypeOK' BY <1>2 DEF AcceptFails, MainTypeOK
  <2>2. MemberTypeOK' /\ ChildTypeOK' /\ FileTypeOK' /\ ClientTypeOK' /\ CountInv'
    BY <1>2 DEF AcceptFails, MemberTypeOK, ChildTypeOK, FileTypeOK, ClientTypeOK,
                CountInv, MainNeverServes
  <2> QED BY <2>1, <2>2
<1>3. CASE ReadFirstMessage
  <2>1. /\ MainTypeOK' /\ toServer' \in [Clients -> Seq(Messages)]
        /\ rest' \in [Clients -> BOOLEAN]
    <3>1. CASE clientSocketId = NoSocket
      BY <1>3, <3>1 DEF ReadFirstMessage, MainTypeOK, ClientTypeOK
    <3>2. CASE clientSocketId # NoSocket /\ toServer[clientSocketId] = <<>>
      BY <1>3, <3>2 DEF ReadFirstMessage, MainTypeOK, ClientTypeOK
    <3>3. CASE clientSocketId # NoSocket /\ toServer[clientSocketId] # <<>>
      <4>1. /\ clientSocketId \in Clients
            /\ toServer[clientSocketId] \in Seq(Messages)
        BY <3>3 DEF MainTypeOK, ClientTypeOK
      <4>2. /\ Head(toServer[clientSocketId]) \in Messages
            /\ Tail(toServer[clientSocketId]) \in Seq(Messages)
        BY <3>3, <4>1, HeadTailInSeq
      <4>3. "garbage" \in Messages BY DEF Messages, Credentials
      <4>4. PICK cut \in BOOLEAN :
              /\ socketMsg' \in FirstRead(Head(toServer[clientSocketId]), cut)
              /\ rest' = [rest EXCEPT ![clientSocketId] = cut]
        BY <1>3, <3>3 DEF ReadFirstMessage, EndOfFile
      <4>5. socketMsg' \in Messages
        BY <4>2, <4>3, <4>4 DEF FirstRead
      <4>6. socketMsg' \in Messages /\ rest' \in [Clients -> BOOLEAN]
        BY <4>1, <4>4, <4>5 DEF ClientTypeOK
      <4>7. toServer' \in [Clients -> Seq(Messages)]
        <5>1. toServer' = [toServer EXCEPT ![clientSocketId] =
                                             Tail(toServer[clientSocketId])]
          BY <1>3, <3>3 DEF ReadFirstMessage, EndOfFile
        <5> QED BY <4>2, <5>1 DEF ClientTypeOK
      <4>8. mainPc' = "fork" /\ UNCHANGED <<clientSocketId, elapsed, backlog>>
        BY <1>3 DEF ReadFirstMessage
      <4> QED BY <4>6, <4>7, <4>8 DEF MainTypeOK
    <3> QED BY <3>1, <3>2, <3>3
  <2>2. ClientTypeOK' BY <1>3, <2>1 DEF ReadFirstMessage, ClientTypeOK
  <2>3. MemberTypeOK' /\ ChildTypeOK' /\ FileTypeOK' /\ CountInv'
    BY <1>3 DEF ReadFirstMessage, MemberTypeOK, ChildTypeOK, FileTypeOK,
                CountInv, MainNeverServes
  <2> QED BY <2>1, <2>2, <2>3
<1>4. CASE \E p \in Procs : Fork(p)
  <2>1. PICK p \in Procs : Fork(p) BY <1>4
  <2> USE DEF Fork
  <2>2. MainTypeOK' BY <2>1 DEF MainTypeOK
  <2>3. socketListening' \in [Processes -> BOOLEAN]
    BY <2>1 DEF MemberTypeOK, Processes
  <2>4. /\ processingRequests' \in [Processes -> BOOLEAN]
        /\ clientAuthenticated' \in [Processes -> BOOLEAN]
    BY <2>1 DEF MemberTypeOK, Processes
  <2>5. children' \in [Processes -> Nat] /\ children'[p] = 1
    <3>1. children' = [children EXCEPT ![p] = children[Main] + 1] BY <2>1
    <3>2. children[Main] = 0 /\ children \in [Processes -> Nat]
      BY DEF MemberTypeOK, CountInv, MainNeverServes
    <3> QED BY <3>1, <3>2 DEF Processes
  <2>6. ChildTypeOK' BY <2>1 DEF ChildTypeOK, MainTypeOK, Live, Processes
  <2>7. FileTypeOK' /\ ClientTypeOK' BY <2>1 DEF FileTypeOK, ClientTypeOK
  <2>8. MainNeverServes'
    BY <2>1 DEF MemberTypeOK, CountInv, MainNeverServes, Processes
  <2>9. \A q \in Procs :
          /\ pc'[q] \in Live => children'[q] = 1
          /\ pc'[q] \in {"write", "writeGone"} => off'[q] \in Lines
    <3> TAKE q \in Procs
    <3>1. CASE q = p
      BY <2>1, <2>5, <3>1 DEF ChildTypeOK
    <3>2. CASE q # p
      BY <2>1, <3>2 DEF ChildTypeOK, MemberTypeOK, CountInv, Processes
    <3> QED BY <3>1, <3>2
  <2> QED
    BY <2>2, <2>3, <2>4, <2>5, <2>6, <2>7, <2>8, <2>9 DEF MemberTypeOK, CountInv
<1>5. CASE ForkFails
  BY <1>5 DEF ForkFails, MainTypeOK, MemberTypeOK, ChildTypeOK, FileTypeOK,
              ClientTypeOK, CountInv, MainNeverServes
<1>6. CASE CheckIdle
  <2>1. MainTypeOK'
    <3>1. elapsed' \in 0 .. TIME_OUT + 1
      <4>1. elapsed' = 0 \/ elapsed' = elapsed BY <1>6 DEF CheckIdle
      <4> QED BY <4>1, ElapsedBounds, Zenon DEF MainTypeOK
    <3> QED BY <1>6, <3>1 DEF CheckIdle, MainTypeOK
  <2>2. socketListening' \in [Processes -> BOOLEAN]
    <3>1. \/ socketListening' = [socketListening EXCEPT ![Main] = elapsed <= TIME_OUT]
          \/ socketListening' = socketListening
      BY <1>6 DEF CheckIdle
    <3>2. (elapsed <= TIME_OUT) \in BOOLEAN OBVIOUS
    <3> QED BY <3>1, <3>2, Zenon DEF MemberTypeOK
  <2>3. /\ UNCHANGED <<processingRequests, clientAuthenticated, children>>
        /\ UNCHANGED <<childVars, fds, fileVars, clientVars, netVars>>
    BY <1>6 DEF CheckIdle
  <2>4. MemberTypeOK' BY <2>2, <2>3 DEF MemberTypeOK
  <2>5. ChildTypeOK' /\ FileTypeOK' /\ ClientTypeOK' /\ CountInv'
    BY <2>3 DEF ChildTypeOK, FileTypeOK, ClientTypeOK, CountInv, MainNeverServes
  <2> QED BY <2>1, <2>4, <2>5
<1>7. CASE MainExit
  <2>1. MainTypeOK' /\ MemberTypeOK' /\ ClientTypeOK'
    BY <1>7 DEF MainExit, MainTypeOK, MemberTypeOK, ClientTypeOK
  <2>2. FileTypeOK' BY <1>7 DEF MainExit, FileTypeOK, EmptyFile, Line
  <2>3. ChildTypeOK' BY <1>7 DEF MainExit, ChildTypeOK, Live, Processes
  <2>4. CountInv'
    BY <1>7 DEF MainExit, ChildTypeOK, CountInv, MainNeverServes, Live
  <2> QED BY <2>1, <2>2, <2>3, <2>4
<1>8. CASE Tick
  <2>1. MainTypeOK'
    <3>1. elapsed' \in 0 .. TIME_OUT + 1
      <4>1. elapsed' = elapsed + 1 /\ elapsed <= TIME_OUT BY <1>8 DEF Tick
      <4> QED BY <4>1, ElapsedBounds, Zenon DEF MainTypeOK
    <3> QED BY <1>8, <3>1 DEF Tick, MainTypeOK
  <2>2. MemberTypeOK' /\ ChildTypeOK' /\ FileTypeOK' /\ ClientTypeOK' /\ CountInv'
    BY <1>8 DEF Tick, MemberTypeOK, ChildTypeOK, FileTypeOK, ClientTypeOK,
                CountInv, MainNeverServes
  <2> QED BY <2>1, <2>2
<1> QED BY <1>1, <1>2, <1>3, <1>4, <1>5, <1>6, <1>7, <1>8 DEF MainStep

\* A step of one child that leaves the counters of the others alone keeps
\* CountInv when it keeps that child's part of it.
LEMMA CountStep ==
  ASSUME TypeInv, NEW p \in Procs, MainNeverServes',
         \A q \in Procs \ {p} : pc'[q] = pc[q] /\ children'[q] = children[q]
                                /\ off'[q] = off[q],
         pc'[p] \in Live => children'[p] = 1,
         pc'[p] \in {"write", "writeGone"} => off'[p] \in Lines
  PROVE  CountInv'
<1> SUFFICES ASSUME NEW q \in Procs
             PROVE  /\ pc'[q] \in Live => children'[q] = 1
                    /\ pc'[q] \in {"write", "writeGone"} => off'[q] \in Lines
  BY DEF CountInv
<1>1. CASE q = p BY <1>1
<1>2. CASE q # p BY <1>2 DEF TypeInv, CountInv
<1> QED BY <1>1, <1>2

LEMMA CloseType ==
  ASSUME TypeInv, NEW p \in Procs, CloseSocket(p)
  PROVE  fds' \in [Processes -> SUBSET Clients] /\ fds'[Main] = fds[Main]
<1>1. fds \in [Processes -> SUBSET Clients] BY DEF TypeInv, TypeOK, ChildTypeOK
<1>2. fds' = [fds EXCEPT ![p] = fds[p] \ {sock[p]}] BY DEF CloseSocket
<1>3. p \in Processes /\ Main \in Processes /\ p # Main
  BY ProcAssumption DEF Processes
<1>4. fds[p] \ {sock[p]} \in SUBSET Clients BY <1>1, <1>3
<1> QED BY <1>1, <1>2, <1>3, <1>4

LEMMA LeftoverType ==
  ASSUME NEW r \in Messages, NEW l \in Leftovers(r)
  PROVE  l \in Seq(Messages)
<1>1. {"malformed", "fragment", "unlisted", "allow"} \subseteq Messages
  BY DEF Messages, Requests
<1>2. l \in {<<>>, <<r>>, <<"malformed">>, <<"fragment">>, <<"unlisted">>,
              <<"allow">>}
  BY DEF Leftovers
<1>3. CASE l = <<>> BY <1>3, EmptyInSeq
<1>4. CASE l = <<r>> BY <1>4, OneInSeq
<1>5. CASE l \in {<<"malformed">>, <<"fragment">>, <<"unlisted">>, <<"allow">>}
  BY <1>1, <1>5, OneInSeq, Zenon
<1> QED BY <1>2, <1>3, <1>4, <1>5

\* What authenticateClient leaves in the socket.
LEMMA TakeResponseCases ==
  ASSUME TypeInv, NEW c \in Clients, TakeResponse(c)
  PROVE  \E l \in Seq(Messages) :
           /\ toServer' = [toServer EXCEPT ![c] = l]
           /\ \/ l = <<>>
              \/ Len(toServer[c]) > 1 /\ l \in Leftovers(toServer[c][2])
<1>1. toServer[c] \in Seq(Messages) BY DEF TypeInv, TypeOK, ClientTypeOK
<1>2. CASE Len(toServer[c]) > 1
  <2>1. toServer[c][2] \in Messages BY <1>1, <1>2
  <2>2. PICK l \in Leftovers(toServer[c][2]) :
          toServer' = [toServer EXCEPT ![c] = l]
    BY <1>2, Zenon DEF TakeResponse
  <2>3. l \in Seq(Messages) BY <2>1, <2>2, LeftoverType
  <2> QED BY <1>2, <2>2, <2>3
<1>3. CASE ~(Len(toServer[c]) > 1)
  <2>1. toServer' = [toServer EXCEPT ![c] = <<>>]
    BY <1>3, Zenon DEF TakeResponse
  <2> QED BY <2>1, EmptyInSeq
<1> QED BY <1>2, <1>3

\* A process that ends leaves the types, and the listening process, alone.
LEMMA ReleaseType ==
  ASSUME TypeInv, NEW p \in Procs, Release(p)
  PROVE  /\ fds' \in [Processes -> SUBSET Clients]
         /\ msg' \in [Procs -> Messages \cup {""}]
         /\ off' \in [Procs -> 0 .. NumClauses + 1]
         /\ req' \in [Procs -> Messages]
         /\ answer' \in [Procs -> BOOLEAN]
         /\ socketListening' \in [Processes -> BOOLEAN]
         /\ processingRequests' \in [Processes -> BOOLEAN]
         /\ clientAuthenticated' \in [Processes -> BOOLEAN]
         /\ fds'[Main] = fds[Main]
         /\ ~processingRequests'[Main] /\ ~clientAuthenticated'[Main]
         /\ \A q \in Procs \ {p} : off'[q] = off[q]
<1> USE DEF TypeInv, TypeOK, Release
<1>a. p \in Processes /\ Main \in Processes /\ p # Main
  BY ProcAssumption DEF Processes
<1>1. fds' \in [Processes -> SUBSET Clients] /\ fds'[Main] = fds[Main]
  BY <1>a DEF ChildTypeOK
<1>2. msg' \in [Procs -> Messages \cup {""}] BY DEF ChildTypeOK
<1>3. off' \in [Procs -> 0 .. NumClauses + 1] BY LineBounds DEF ChildTypeOK
<1>4. req' \in [Procs -> Messages] BY DEF ChildTypeOK, Messages, Requests
<1>5. answer' \in [Procs -> BOOLEAN] BY DEF ChildTypeOK
<1>6. /\ socketListening' \in [Processes -> BOOLEAN]
      /\ processingRequests' \in [Processes -> BOOLEAN]
      /\ clientAuthenticated' \in [Processes -> BOOLEAN]
  BY DEF MemberTypeOK
<1>7. ~processingRequests'[Main] /\ ~clientAuthenticated'[Main]
  BY <1>a DEF MemberTypeOK, CountInv, MainNeverServes
<1>8. \A q \in Procs \ {p} : off'[q] = off[q] BY DEF ChildTypeOK
<1> QED BY <1>1, <1>2, <1>3, <1>4, <1>5, <1>6, <1>7, <1>8

\* processRequest's return of false, and the end of the process.
LEMMA StopType ==
  ASSUME TypeInv, NEW p \in Procs, pc[p] \in Live, Stop(p), UNCHANGED sock
  PROVE  ChildTypeOK' /\ MemberTypeOK' /\ CountInv' /\ fds'[Main] = fds[Main]
<1>a. p \in Processes /\ Main \in Processes /\ p # Main
  BY ProcAssumption DEF Processes
<1>1. Release(p) /\ pc' = [pc EXCEPT ![p] = "exited"] BY DEF Stop
<1>2. ChildTypeOK'
  <2>1. pc' \in [Procs -> Live \cup {"free", "exited", "killed"}]
    BY <1>1 DEF TypeInv, TypeOK, ChildTypeOK
  <2>2. sock' \in [Procs -> Clients \cup {NoSocket}]
    BY DEF TypeInv, TypeOK, ChildTypeOK
  <2> QED BY <1>1, <2>1, <2>2, ReleaseType DEF ChildTypeOK
<1>3. /\ children' \in [Processes -> Nat] /\ children'[Main] = children[Main]
      /\ \A q \in Procs \ {p} : children'[q] = children[q]
  <2>1. children \in [Processes -> Nat] /\ children[p] = 1
    BY DEF TypeInv, TypeOK, MemberTypeOK, CountInv
  <2>2. children' = [children EXCEPT ![p] = children[p] - 1] BY DEF Stop
  <2> QED BY <1>a, <2>1, <2>2 DEF Processes
<1>4. MemberTypeOK' BY <1>1, <1>3, ReleaseType DEF MemberTypeOK
<1>5. MainNeverServes'
  BY <1>1, <1>3, ReleaseType DEF TypeInv, CountInv, MainNeverServes
<1>6. pc'[p] = "exited" /\ \A q \in Procs \ {p} : pc'[q] = pc[q]
  BY <1>1 DEF TypeInv, TypeOK, ChildTypeOK
<1>7. CountInv'
  BY <1>1, <1>3, <1>5, <1>6, CountStep, ReleaseType DEF Live
<1> QED BY <1>1, <1>2, <1>4, <1>7, ReleaseType

\* Every step of a child keeps the types: only an authenticated session, which
\* has a client, writes its client's clauses.
LEMMA ChildTypeStep ==
  ASSUME TypeInv, SessionInv, NEW p \in Procs, ChildStep(p)
  PROVE  TypeInv'
<1> USE ProcAssumption
     DEF TypeInv, TypeOK, mainVars, memberVars, childVars, fileVars, clientVars,
         netVars
<1>a. p \in Processes /\ p # Main /\ Main \in Processes BY DEF Processes
<1>b. MainNeverServes BY DEF CountInv
<1>1. CASE ProcessMsg(p)
  <2> USE <1>1 DEF ProcessMsg, CloseSocket
  <2>1. ChildTypeOK'
    <3>1. pc' \in [Procs -> Live \cup {"free", "exited", "killed"}]
      BY DEF ChildTypeOK, Live
    <3>2. fds' \in [Processes -> SUBSET Clients]
      <4>1. fds' = fds \/ CloseSocket(p) BY DEF CloseSocket
      <4> QED BY <4>1, CloseType DEF ChildTypeOK
    <3> QED BY <3>1, <3>2 DEF ChildTypeOK
  <2>2. MainTypeOK' /\ MemberTypeOK' /\ FileTypeOK' /\ ClientTypeOK'
    BY DEF MainTypeOK, MemberTypeOK, FileTypeOK, ClientTypeOK
  <2>3. CountInv'
    <3>1. MainNeverServes' BY <1>b DEF MainNeverServes
    <3>2. /\ pc'[p] \in {"challenge", "request"} /\ pc[p] \in Live
          /\ \A q \in Procs \ {p} : pc'[q] = pc[q]
      BY DEF ChildTypeOK, Live
    <3> QED BY <3>1, <3>2, CountStep DEF CountInv
  <2> QED BY <2>1, <2>2, <2>3
<1>2. CASE SendChallenge(p) \/ SendReply(p)
  <2> USE <1>2 DEF SendChallenge, SendReply, Send
  <2>1. ChildTypeOK'
    <3>1. pc' \in [Procs -> Live \cup {"free", "exited", "killed"}]
      BY DEF ChildTypeOK, Live
    <3>2. req' \in [Procs -> Messages] BY DEF ChildTypeOK, Messages, Requests
    <3>3. answer' \in [Procs -> BOOLEAN] BY Zenon DEF ChildTypeOK
    <3>4. UNCHANGED <<sock, msg, off, fds>> OBVIOUS
    <3> QED BY <3>1, <3>2, <3>3, <3>4 DEF ChildTypeOK
  <2>2. toClient' \in [Clients -> {"none", "challenge", "granted", "denied"}]
    BY DEF ClientTypeOK
  <2>3. MainTypeOK' /\ MemberTypeOK' /\ FileTypeOK' /\ ClientTypeOK'
    BY <2>2 DEF MainTypeOK, MemberTypeOK, FileTypeOK, ClientTypeOK
  <2>4. CountInv'
    <3>1. MainNeverServes' BY <1>b DEF MainNeverServes
    <3>2. /\ pc'[p] \in {"auth", "request"} /\ pc[p] \in Live
          /\ \A q \in Procs \ {p} : pc'[q] = pc[q]
      BY DEF ChildTypeOK, Live
    <3> QED BY <3>1, <3>2, CountStep DEF CountInv
  <2> QED BY <2>1, <2>3, <2>4
<1>3. CASE ReadResponse(p)
  <2> USE <1>3 DEF ReadResponse
  <2>1. ChildTypeOK'
    <3>1. pc' \in [Procs -> Live \cup {"free", "exited", "killed"}]
      BY DEF ChildTypeOK, Live
    <3>2. fds' \in [Processes -> SUBSET Clients]
      <4>1. fds' = fds \/ CloseSocket(p) OBVIOUS
      <4> QED BY <4>1, CloseType DEF ChildTypeOK
    <3> QED BY <3>1, <3>2 DEF ChildTypeOK
  <2>2. toServer' \in [Clients -> Seq(Messages)]
    <3>1. CASE toServer[sock[p]] = <<>> BY <3>1 DEF ClientTypeOK
    <3>2. CASE toServer[sock[p]] # <<>>
      <4>1. TakeResponse(sock[p]) BY <3>2
      <4>2. CASE sock[p] \in Clients
        <5>1. PICK l \in Seq(Messages) : toServer' = [toServer EXCEPT ![sock[p]] = l]
          BY <4>1, <4>2, TakeResponseCases, Zenon DEF TypeInv
        <5> QED BY <5>1 DEF ClientTypeOK
      <4>3. CASE sock[p] \notin Clients
        BY <4>1, <4>3 DEF TakeResponse, ClientTypeOK
      <4> QED BY <4>2, <4>3
    <3> QED BY <3>1, <3>2
  <2>3. MainTypeOK' /\ FileTypeOK' /\ ClientTypeOK'
    BY <2>2 DEF MainTypeOK, FileTypeOK, ClientTypeOK
  <2>4. MemberTypeOK'
    <3>1. \E b \in BOOLEAN :
            clientAuthenticated' = [clientAuthenticated EXCEPT ![p] = b]
      OBVIOUS
    <3> QED BY <3>1 DEF MemberTypeOK
  <2>5. CountInv'
    <3>1. MainNeverServes' BY <1>a, <1>b DEF MainNeverServes, MemberTypeOK
    <3>2. /\ pc'[p] \in {"open", "request"} /\ pc[p] \in Live
          /\ \A q \in Procs \ {p} : pc'[q] = pc[q]
      BY DEF ChildTypeOK, Live
    <3> QED BY <3>1, <3>2, CountStep DEF CountInv
  <2> QED BY <2>1, <2>3, <2>4, <2>5
<1>4. CASE OpenBinderFile(p) \/ OpenBinderFails(p)
  <2> USE <1>4 DEF OpenBinderFile, OpenBinderFails
  <2>1. ChildTypeOK'
    <3>1. pc' \in [Procs -> Live \cup {"free", "exited", "killed"}]
      BY DEF ChildTypeOK, Live
    <3>2. off' \in [Procs -> 0 .. NumClauses + 1]
      BY LineBounds DEF ChildTypeOK
    <3> QED BY <3>1, <3>2 DEF ChildTypeOK
  <2>2. FileTypeOK' BY DEF FileTypeOK, EmptyFile, Line
  <2>3. MainTypeOK' /\ MemberTypeOK' /\ ClientTypeOK'
    BY DEF MainTypeOK, MemberTypeOK, ClientTypeOK
  <2>4. CountInv'
    <3>1. MainNeverServes' BY <1>b DEF MainNeverServes
    <3>2. /\ pc[p] \in Live
          /\ pc'[p] = "request" \/ (pc'[p] = "write" /\ off'[p] = 0)
          /\ \A q \in Procs \ {p} : pc'[q] = pc[q] /\ off'[q] = off[q]
      BY DEF ChildTypeOK, Live
    <3>3. 0 \in Lines BY BoundAssumption DEF Lines
    <3> QED BY <3>1, <3>2, <3>3, CountStep DEF CountInv
  <2> QED BY <2>1, <2>2, <2>3, <2>4
<1>5. CASE WriteLine(p)
  <2> USE <1>5
  <2>0. off[p] \in Lines BY DEF WriteLine, CountInv
  <2>1. off' \in [Procs -> 0 .. NumClauses + 1]
    <3>1. off' = [off EXCEPT ![p] = off[p] + 1] BY DEF WriteLine
    <3>2. off[p] + 1 \in 0 .. NumClauses + 1 BY <2>0, LineBounds
    <3> QED BY <3>1, <3>2 DEF ChildTypeOK
  <2>2. pc' \in [Procs -> Live \cup {"free", "exited", "killed"}]
    BY DEF WriteLine, ChildTypeOK, Live
  <2>3. ChildTypeOK' BY <2>1, <2>2 DEF WriteLine, ChildTypeOK
  <2>4. file' \in [Lines -> Line]
    <3>1. \E x \in Line : file' = file \/ file' = [file EXCEPT ![off[p]] = x]
      <4>1. CASE pc[p] = "writeGone" BY <4>1 DEF WriteLine, Line
      <4>2. CASE pc[p] = "write" /\ off[p] = 0 BY <4>2 DEF WriteLine, Line
      <4>3. CASE pc[p] = "write" /\ off[p] # 0
        <5>1. file' = [file EXCEPT ![off[p]] = sock[p]] BY <4>3 DEF WriteLine
        <5>2. sock[p] \in Clients BY <4>3 DEF SessionInv, ChildSession
        <5> QED BY <5>1, <5>2 DEF Line
      <4> QED BY <4>1, <4>2, <4>3 DEF WriteLine
    <3> QED BY <3>1 DEF FileTypeOK
  <2>5. MainTypeOK' /\ FileTypeOK' /\ ClientTypeOK'
    BY <2>4 DEF WriteLine, MainTypeOK, FileTypeOK, ClientTypeOK
  <2>6. MemberTypeOK' /\ MainNeverServes'
    <3>1. \/ UNCHANGED processingRequests
          \/ processingRequests' = [processingRequests EXCEPT ![p] = TRUE]
      BY DEF WriteLine
    <3>2. UNCHANGED <<socketListening, clientAuthenticated, children>>
      BY DEF WriteLine
    <3>3. processingRequests' \in [Processes -> BOOLEAN]
          /\ processingRequests'[Main] = processingRequests[Main]
      BY <1>a, <3>1 DEF MemberTypeOK
    <3> QED BY <1>b, <3>2, <3>3 DEF MemberTypeOK, MainNeverServes
  <2>7. CountInv'
    <3>1. /\ pc[p] \in Live
          /\ \/ pc'[p] = "request"
             \/ off[p] # NumClauses /\ off'[p] = off[p] + 1
          /\ \A q \in Procs \ {p} : pc'[q] = pc[q] /\ off'[q] = off[q]
      BY DEF WriteLine, ChildTypeOK, Live
    <3>2. pc'[p] \in {"write", "writeGone"} => off'[p] \in Lines
      BY <2>0, <3>1, LineBounds
    <3>3. UNCHANGED children BY DEF WriteLine
    <3> QED BY <2>6, <3>1, <3>2, <3>3, CountStep DEF CountInv
  <2> QED BY <2>3, <2>5, <2>6, <2>7
<1>6. CASE ReadRequest(p)
  <2> USE <1>6
  <2>1. pc[p] \in Live BY DEF ReadRequest, Live
  <2>2. MainTypeOK' /\ FileTypeOK' /\ UNCHANGED <<sock, clientVars, toClient, rest>>
    BY DEF ReadRequest, MainTypeOK, FileTypeOK
  <2>3. CASE Stop(p) /\ UNCHANGED toServer
    <3>1. ClientTypeOK' BY <2>2, <2>3 DEF ClientTypeOK
    <3> QED BY <2>1, <2>2, <2>3, <3>1, StopType
  <2>4. CASE /\ sock[p] \in fds[p] /\ toServer[sock[p]] # <<>>
             /\ toServer' = [toServer EXCEPT ![sock[p]] = Tail(@)]
             /\ Stop(p) \/ Dispatch(p, Head(toServer[sock[p]]))
    <3>1. sock[p] \in Clients BY <1>a, <2>4 DEF ChildTypeOK
    <3>2. /\ Head(toServer[sock[p]]) \in Messages
          /\ Tail(toServer[sock[p]]) \in Seq(Messages)
      <4>1. toServer[sock[p]] \in Seq(Messages) BY <3>1 DEF ClientTypeOK
      <4> QED BY <2>4, <4>1, HeadTailInSeq
    <3>3. ClientTypeOK' BY <2>2, <2>4, <3>1, <3>2 DEF ClientTypeOK
    <3>4. CASE Stop(p) BY <2>1, <2>2, <3>3, <3>4, StopType
    <3>5. CASE Dispatch(p, Head(toServer[sock[p]]))
      <4> USE <3>5 DEF Dispatch
      <4>1. pc' \in [Procs -> Live \cup {"free", "exited", "killed"}]
        BY DEF ChildTypeOK, Live
      <4>2. req' \in [Procs -> Messages] BY <3>2 DEF ChildTypeOK
      <4>3. answer' \in [Procs -> BOOLEAN] BY DEF ChildTypeOK
      <4>4. ChildTypeOK' BY <2>2, <4>1, <4>2, <4>3 DEF ChildTypeOK
      <4>5. MemberTypeOK' /\ MainNeverServes'
        BY <1>b DEF MemberTypeOK, MainNeverServes
      <4>6. /\ pc'[p] \in {"reply", "query"}
            /\ \A q \in Procs \ {p} : pc'[q] = pc[q]
        BY DEF ChildTypeOK
      <4>7. CountInv' BY <2>1, <4>5, <4>6, CountStep DEF CountInv
      <4> QED BY <2>2, <3>3, <4>4, <4>5, <4>7
    <3> QED BY <2>4, <3>4, <3>5
  <2> QED BY <2>3, <2>4 DEF ReadRequest
<1>7. CASE ExecuteQuery(p)
  <2> USE <1>7 DEF ExecuteQuery
  <2>1. pc' \in [Procs -> Live \cup {"free", "exited", "killed"}]
    BY DEF ChildTypeOK, Live
  <2>2. answer' \in [Procs -> BOOLEAN]
    <3>1. \E b \in BOOLEAN : answer' = [answer EXCEPT ![p] = b]
      BY DEF FileGrants
    <3> QED BY <3>1 DEF ChildTypeOK
  <2>3. ChildTypeOK' BY <2>1, <2>2 DEF ChildTypeOK
  <2>4. FileTypeOK' BY DEF FileTypeOK
  <2>5. MainTypeOK' /\ MemberTypeOK' /\ ClientTypeOK'
    BY DEF MainTypeOK, MemberTypeOK, ClientTypeOK
  <2>6. CountInv'
    <3>1. MainNeverServes' BY <1>b DEF MainNeverServes
    <3>2. /\ pc'[p] = "reply" /\ pc[p] \in Live
          /\ \A q \in Procs \ {p} : pc'[q] = pc[q]
      BY DEF ChildTypeOK, Live
    <3> QED BY <3>1, <3>2, CountStep DEF CountInv
  <2> QED BY <2>3, <2>4, <2>5, <2>6
<1>8. CASE Killed(p)
  <2>1. /\ Release(p) /\ pc' = [pc EXCEPT ![p] = "killed"]
        /\ children' = [children EXCEPT ![p] = 0]
        /\ UNCHANGED <<mainVars, sock, fileVars, clientVars, netVars>>
    BY <1>8 DEF Killed
  <2>2. pc' \in [Procs -> Live \cup {"free", "exited", "killed"}]
    BY <2>1 DEF ChildTypeOK
  <2>3. ChildTypeOK' BY <2>1, <2>2, ReleaseType DEF ChildTypeOK
  <2>4. /\ children' \in [Processes -> Nat] /\ children'[Main] = children[Main]
        /\ \A q \in Procs \ {p} : children'[q] = children[q]
    BY <1>a, <2>1 DEF MemberTypeOK, Processes
  <2>5. MemberTypeOK' BY <2>1, <2>4, ReleaseType DEF MemberTypeOK
  <2>6. MainTypeOK' /\ FileTypeOK' /\ ClientTypeOK'
    BY <2>1 DEF MainTypeOK, FileTypeOK, ClientTypeOK
  <2>7. CountInv'
    <3>1. MainNeverServes' BY <1>b, <2>1, <2>4, ReleaseType DEF MainNeverServes
    <3>2. pc'[p] = "killed" /\ \A q \in Procs \ {p} : pc'[q] = pc[q]
      BY <2>1 DEF ChildTypeOK
    <3>3. \A q \in Procs \ {p} : off'[q] = off[q] BY <2>1, ReleaseType
    <3> QED BY <2>4, <3>1, <3>2, <3>3, CountStep DEF Live
  <2> QED BY <2>3, <2>5, <2>6, <2>7
<1> QED
  BY <1>1, <1>2, <1>3, <1>4, <1>5, <1>6, <1>7, <1>8 DEF ChildStep

LEMMA TypeStep == TypeInv /\ SessionInv /\ [Next]_vars => TypeInv'
<1> SUFFICES ASSUME TypeInv, SessionInv, [Next]_vars PROVE TypeInv' OBVIOUS
<1>1. ASSUME NEW c \in Clients, Client(c) PROVE TypeInv' BY <1>1, ClientTypeStep
<1>2. CASE MainStep \/ Tick BY <1>2, MainTypeStep
<1>3. ASSUME NEW p \in Procs, ChildStep(p) PROVE TypeInv' BY <1>3, ChildTypeStep
<1>4. CASE UNCHANGED vars
  BY <1>4 DEF vars, mainVars, memberVars, childVars, fileVars, clientVars,
              netVars, TypeInv, TypeOK, MainTypeOK, MemberTypeOK, ChildTypeOK,
              FileTypeOK, ClientTypeOK, CountInv, MainNeverServes
<1> QED BY <1>1, <1>2, <1>3, <1>4 DEF Next

-----------------------------------------------------------------------------
(* Authentication                                                          *)

AuthStable ==
  \A c \in Clients : /\ Sound(cred[c]) => cred'[c] = cred[c]
                     /\ sig[c] = "good" => sig'[c] = "good"

LEMMA AuthInit == Init => AuthInv
<1> SUFFICES ASSUME Init PROVE AuthInv OBVIOUS
<1>1. ClientInv
  <2>1. \A c \in Clients : toServer[c] = <<>> /\ cred[c] = "garbage" /\ sig[c] = "bad"
    BY DEF Init
  <2> QED BY <2>1 DEF ClientInv
<1>2. SessionInv BY DEF Init, SessionInv, ChildSession, Processes, Sound
<1>3. OnlyAuthenticatedClauses
  BY ProcAssumption DEF Init, EmptyFile, OnlyAuthenticatedClauses
<1>4. GrantJustified BY DEF Init, GrantJustified
<1> QED BY <1>1, <1>2, <1>3, <1>4 DEF AuthInv

\* A process that has not moved knows no less of its client.
LEMMA SessionFrame ==
  ASSUME TypeInv, NEW p \in Procs, ChildSession(p), AuthStable,
         pc'[p] = pc[p], sock'[p] = sock[p], msg'[p] = msg[p],
         processingRequests'[p] = processingRequests[p], answer'[p] = answer[p]
  PROVE  ChildSession(p)'
BY DEF ChildSession, AuthStable, Authenticated, Sound

\* A client that sends, reads or leaves makes nobody authenticated, and nothing
\* of what the server learnt of it untrue.
LEMMA ClientAuthStep ==
  ASSUME TypeInv, AuthInv, NEW c \in Clients, Client(c)
  PROVE  AuthInv'
<1> USE DEF AuthInv
<1>t. /\ toServer \in [Clients -> Seq(Messages)] /\ cred \in [Clients -> Credentials]
      /\ sig \in [Clients -> Responses] /\ DOMAIN phase = Clients
      /\ DOMAIN toClient = Clients
  BY DEF TypeInv, TypeOK, ClientTypeOK
<1>a. AuthStable
  <2>1. CASE ClientSendCredential(c)
    BY <1>t, <2>1 DEF ClientSendCredential, ClientInv, AuthStable, Sound
  <2>2. CASE ClientSendResponse(c)
    BY <1>t, <2>2 DEF ClientSendResponse, ClientInv, AuthStable
  <2>3. CASE ~ClientSendCredential(c) /\ ~ClientSendResponse(c)
    BY <2>3 DEF Client, ClientConnect, ClientSendRequest, ClientReadReply,
                ClientClose, AuthStable, clientVars
  <2> QED BY <2>1, <2>2, <2>3
<1>b. UNCHANGED <<mainPc, clientSocketId, socketMsg, memberVars, childVars, fileVars>>
  BY DEF Client, ClientConnect, ClientSendCredential, ClientSendResponse,
         ClientSendRequest, ClientReadReply, ClientClose, mainVars
<1>1. ClientInv'
  <2>1. ASSUME NEW d \in Clients
        PROVE  /\ phase'[d] \in {"idle", "connected"} => cred'[d] = "garbage"
               /\ phase'[d] \in {"idle", "connected", "waitChallenge"} =>
                    sig'[d] = "bad"
    <3> USE <1>t DEF ClientInv
    <3>1. CASE ClientConnect(c) BY <2>1, <3>1 DEF ClientConnect
    <3>2. CASE ClientSendCredential(c) BY <2>1, <3>2 DEF ClientSendCredential
    <3>3. CASE ClientSendResponse(c) BY <2>1, <3>3 DEF ClientSendResponse
    <3>4. CASE ClientSendRequest(c) BY <2>1, <3>4 DEF ClientSendRequest
    <3>5. CASE ClientReadReply(c) BY <2>1, <3>5 DEF ClientReadReply
    <3>6. CASE ClientClose(c) BY <2>1, <3>6 DEF ClientClose
    <3> QED BY <3>1, <3>2, <3>3, <3>4, <3>5, <3>6 DEF Client
  <2>2. ASSUME NEW d \in Clients, NEW i \in 1 .. Len(toServer'[d])
        PROVE  /\ Sound(toServer'[d][i]) => cred'[d] = toServer'[d][i]
               /\ toServer'[d][i] = "good" => sig'[d] = "good"
    <3>1. CASE toServer'[d] = toServer[d]
      BY <1>a, <2>2, <3>1 DEF ClientInv, AuthStable
    <3>2. CASE toServer'[d] # toServer[d]
      <4>1. PICK m \in Messages :
              /\ d = c /\ toServer'[d] = Append(toServer[d], m)
              /\ Sound(m) => cred'[d] = m
              /\ m = "good" => sig'[d] = "good"
        <5>1. CASE ClientSendCredential(c)
          <6>1. PICK k \in Credentials :
                  /\ cred' = [cred EXCEPT ![c] = k]
                  /\ toServer' = [toServer EXCEPT ![c] = Append(toServer[c], k)]
            BY <5>1, FirstMessagesAssumption DEF ClientSendCredential
          <6>2. d = c /\ toServer'[d] = Append(toServer[d], k) /\ cred'[d] = k
            BY <1>t, <3>2, <6>1
          <6> QED BY <6>1, <6>2 DEF Messages, Credentials
        <5>2. CASE ClientSendResponse(c)
          <6>1. PICK r \in Responses :
                  /\ sig' = [sig EXCEPT ![c] = r]
                  /\ toServer' = [toServer EXCEPT ![c] = Append(toServer[c], r)]
            BY <5>2 DEF ClientSendResponse, Responses
          <6>2. d = c /\ toServer'[d] = Append(toServer[d], r) /\ sig'[d] = r
            BY <1>t, <3>2, <6>1
          <6> QED BY <6>1, <6>2 DEF Messages, Responses, Sound
        <5>3. CASE ClientSendRequest(c)
          <6>1. PICK r \in Requests :
                  toServer' = [toServer EXCEPT ![c] = Append(toServer[c], r)]
            BY <5>3 DEF ClientSendRequest
          <6>2. d = c /\ toServer'[d] = Append(toServer[d], r)
            BY <1>t, <3>2, <6>1
          <6> QED BY <6>1, <6>2 DEF Messages, Requests, Sound
        <5>4. CASE ClientConnect(c) \/ ClientReadReply(c) \/ ClientClose(c)
          BY <3>2, <5>4 DEF ClientConnect, ClientReadReply, ClientClose, netVars
        <5> QED BY <5>1, <5>2, <5>3, <5>4 DEF Client
      <4>2. \/ i \in 1 .. Len(toServer[d]) /\ toServer'[d][i] = toServer[d][i]
            \/ toServer'[d][i] = m
        <5>1. toServer[d] \in Seq(Messages) BY <1>t
        <5> QED BY <2>2, <4>1, <5>1, AppendElement
      <4> QED BY <1>a, <4>1, <4>2 DEF ClientInv, AuthStable
    <3> QED BY <3>1, <3>2
  <2> QED BY <2>1, <2>2 DEF ClientInv
<1>2. SessionInv'
  <2>1. \A p \in Procs : ChildSession(p)'
    BY <1>a, <1>b, SessionFrame DEF SessionInv, memberVars, childVars
  <2> QED BY <1>a, <1>b, <2>1 DEF SessionInv, AuthStable
<1>3. OnlyAuthenticatedClauses'
  BY <1>a, <1>b DEF OnlyAuthenticatedClauses, Authenticated, AuthStable, Sound,
                    fileVars
<1>4. GrantJustified'
  <2>1. \A d \in Clients : toClient'[d] = "granted" => toClient[d] = "granted"
    BY <1>t DEF Client, ClientConnect, ClientSendCredential, ClientSendResponse,
                ClientSendRequest, ClientReadReply, ClientClose, netVars
  <2> QED BY <1>a, <2>1 DEF GrantJustified, Authenticated, AuthStable, Sound
<1> QED BY <1>1, <1>2, <1>3, <1>4

\* Where the server only takes messages out of its sockets, what is left is
\* still what the clients sent.
LEMMA ClientInvTail ==
  ASSUME TypeInv, ClientInv, NEW c \in Clients, toServer[c] # <<>>,
         toServer' = [toServer EXCEPT ![c] = Tail(toServer[c])],
         UNCHANGED <<phase, cred, sig>>
  PROVE  ClientInv'
<1>t. toServer \in [Clients -> Seq(Messages)] BY DEF TypeInv, TypeOK, ClientTypeOK
<1>1. ASSUME NEW d \in Clients, NEW i \in 1 .. Len(toServer'[d])
      PROVE  \E j \in 1 .. Len(toServer[d]) : toServer'[d][i] = toServer[d][j]
  <2>1. CASE d # c BY <1>t, <1>1, <2>1
  <2>2. CASE d = c
    <3>1. toServer'[d] = Tail(toServer[d]) /\ toServer[d] \in Seq(Messages)
      BY <1>t, <2>2
    <3>2. i + 1 \in 1 .. Len(toServer[d]) /\ toServer'[d][i] = toServer[d][i + 1]
      BY <1>1, <2>2, <3>1, TailElement
    <3> QED BY <3>2
  <2> QED BY <2>1, <2>2
<1> QED BY <1>1 DEF ClientInv

\* startListening passes on to the child only what its client sent.
LEMMA MainAuthStep ==
  ASSUME TypeInv, AuthInv, MainStep \/ Tick
  PROVE  AuthInv'
<1> USE DEF AuthInv
<1>a. UNCHANGED <<phase, cred, sig, toClient>>
  BY DEF MainStep, Tick, Accept, AcceptFails, ReadFirstMessage, Fork, ForkFails,
         CheckIdle, MainExit, clientVars, netVars
<1>b. AuthStable BY <1>a DEF AuthStable
<1>1. ClientInv'
  <2>1. CASE UNCHANGED toServer BY <1>a, <2>1 DEF ClientInv
  <2>2. CASE ~UNCHANGED toServer
    <3>1. ReadFirstMessage
      BY <2>2 DEF MainStep, Tick, Accept, AcceptFails, Fork, ForkFails, CheckIdle,
                  MainExit, netVars
    <3>2. /\ clientSocketId \in Clients /\ toServer[clientSocketId] # <<>>
          /\ toServer' = [toServer EXCEPT ![clientSocketId] =
                                            Tail(toServer[clientSocketId])]
      BY <2>2, <3>1 DEF ReadFirstMessage, TypeInv, TypeOK, MainTypeOK
    <3> QED BY <1>a, <3>2, ClientInvTail
  <2> QED BY <2>1, <2>2
<1>2. OnlyAuthenticatedClauses'
  <2>1. CASE UNCHANGED <<file, compiled>>
    BY <1>a, <2>1 DEF OnlyAuthenticatedClauses, Authenticated
  <2>2. CASE MainExit
    BY <1>a, <2>2, ProcAssumption
    DEF MainExit, EmptyFile, OnlyAuthenticatedClauses, Authenticated
  <2> QED
    BY <2>1, <2>2 DEF MainStep, Tick, Accept, AcceptFails, ReadFirstMessage, Fork,
                      ForkFails, CheckIdle, fileVars
<1>3. GrantJustified' BY <1>a DEF GrantJustified, Authenticated
<1>4. SessionInv'
  <2>1. CASE Accept \/ AcceptFails \/ ForkFails \/ CheckIdle \/ Tick
    <3>1. /\ UNCHANGED <<childVars, processingRequests>>
          /\ mainPc' # "fork"
      BY <2>1 DEF Accept, AcceptFails, ForkFails, CheckIdle, Tick, memberVars
    <3>2. \A p \in Procs : ChildSession(p)'
      BY <1>b, <3>1, SessionFrame DEF SessionInv, childVars
    <3> QED BY <3>1, <3>2 DEF SessionInv
  <2>2. CASE ReadFirstMessage
    <3>1. UNCHANGED <<childVars, processingRequests, clientSocketId>>
      BY <2>2 DEF ReadFirstMessage, memberVars
    <3>2. \A p \in Procs : ChildSession(p)'
      BY <1>b, <3>1, SessionFrame DEF SessionInv, childVars
    <3>3. ASSUME Sound(socketMsg')
          PROVE  clientSocketId \in Clients /\ cred[clientSocketId] = socketMsg'
      <4>a. socketMsg' # "" /\ socketMsg' # "garbage" BY <3>3 DEF Sound
      <4>b. /\ clientSocketId # NoSocket /\ toServer[clientSocketId] # <<>>
            /\ \E cut \in BOOLEAN :
                 socketMsg' \in FirstRead(Head(toServer[clientSocketId]), cut)
        BY <2>2, <4>a DEF ReadFirstMessage
      <4>c. Head(toServer[clientSocketId]) = socketMsg'
        BY <4>a, <4>b DEF FirstRead
      <4>1. /\ clientSocketId \in Clients /\ toServer[clientSocketId] # <<>>
            /\ Head(toServer[clientSocketId]) = socketMsg'
        BY <4>b, <4>c DEF TypeInv, TypeOK, MainTypeOK
      <4>2. toServer[clientSocketId] \in Seq(Messages)
        BY <4>1 DEF TypeInv, TypeOK, ClientTypeOK
      <4>3. /\ 1 \in 1 .. Len(toServer[clientSocketId])
            /\ toServer[clientSocketId][1] = socketMsg'
        BY <4>1, <4>2, HeadTailInSeq
      <4> QED BY <3>3, <4>1, <4>3 DEF ClientInv
    <3> QED BY <1>a, <3>1, <3>2, <3>3 DEF SessionInv
  <2>3. CASE \E p \in Procs : Fork(p)
    <3>1. PICK p \in Procs : Fork(p) BY <2>3
    <3>2. ChildSession(p)'
      <4>1. /\ pc'[p] = "processMsg" /\ msg'[p] = socketMsg
            /\ sock'[p] = clientSocketId /\ mainPc = "fork"
        BY <3>1 DEF Fork, TypeInv, TypeOK, ChildTypeOK
      <4>2. ~processingRequests'[p]
        BY <3>1 DEF Fork, TypeInv, TypeOK, MemberTypeOK, CountInv,
                    MainNeverServes, Processes
      <4> QED BY <1>a, <4>1, <4>2 DEF ChildSession, SessionInv
    <3>3. ASSUME NEW q \in Procs, q # p PROVE ChildSession(q)'
      <4>1. /\ pc'[q] = pc[q] /\ sock'[q] = sock[q] /\ msg'[q] = msg[q]
            /\ answer'[q] = answer[q]
        BY <3>1, <3>3 DEF Fork, TypeInv, TypeOK, ChildTypeOK
      <4>2. processingRequests'[q] = processingRequests[q]
        BY <3>1, <3>3 DEF Fork, TypeInv, TypeOK, MemberTypeOK, Processes
      <4> QED BY <1>b, <4>1, <4>2, SessionFrame DEF SessionInv
    <3>4. mainPc' # "fork" BY <3>1 DEF Fork
    <3> QED BY <3>2, <3>3, <3>4 DEF SessionInv
  <2>4. CASE MainExit
    <3>1. /\ mainPc' # "fork"
          /\ UNCHANGED <<sock, msg, answer, processingRequests>>
      BY <2>4 DEF MainExit, memberVars
    <3>2. ASSUME NEW p \in Procs PROVE ChildSession(p)'
      <4>1. \/ pc'[p] = pc[p]
            \/ pc[p] = "write" /\ pc'[p] = "writeGone"
        BY <2>4 DEF MainExit
      <4>2. CASE pc'[p] = pc[p]
        BY <1>b, <3>1, <4>2, SessionFrame DEF SessionInv
      <4>3. CASE pc[p] = "write" /\ pc'[p] = "writeGone"
        BY <1>a, <3>1, <4>3 DEF SessionInv, ChildSession, Authenticated
      <4> QED BY <4>1, <4>2, <4>3
    <3> QED BY <3>1, <3>2 DEF SessionInv
  <2> QED BY <2>1, <2>2, <2>3, <2>4 DEF MainStep
<1> QED BY <1>1, <1>2, <1>3, <1>4

\* The other children know what they knew.
LEMMA OtherSessions ==
  ASSUME TypeInv, SessionInv, NEW p \in Procs, UNCHANGED <<mainVars, cred, sig, sock>>,
         \A q \in Procs \ {p} :
           /\ pc'[q] = pc[q] /\ msg'[q] = msg[q] /\ answer'[q] = answer[q]
           /\ processingRequests'[q] = processingRequests[q],
         ChildSession(p)'
  PROVE  SessionInv'
<1>1. AuthStable BY DEF AuthStable
<1>2. ASSUME NEW q \in Procs, q # p PROVE ChildSession(q)'
  BY <1>1, <1>2, SessionFrame DEF SessionInv
<1> QED BY <1>2 DEF SessionInv, mainVars

\* Every step of a child keeps what the server knows of its clients.
LEMMA ChildAuthStep ==
  ASSUME TypeInv, AuthInv, NEW p \in Procs, ChildStep(p)
  PROVE  AuthInv'
<1> USE DEF AuthInv
<1>t. /\ pc \in [Procs -> Live \cup {"free", "exited", "killed"}]
      /\ DOMAIN msg = Procs /\ DOMAIN answer = Procs
      /\ DOMAIN processingRequests = Processes
      /\ p \in Processes /\ Procs \subseteq Processes
  BY DEF TypeInv, TypeOK, ChildTypeOK, MemberTypeOK, Processes
<1>s. ChildSession(p) BY DEF SessionInv
<1>a. UNCHANGED <<mainVars, phase, cred, sig, sock>>
  BY DEF ChildStep, ProcessMsg, SendChallenge, ReadResponse, OpenBinderFile,
         OpenBinderFails, WriteLine, ReadRequest, ExecuteQuery, SendReply, Killed,
         clientVars
<1>1. CASE ProcessMsg(p)
  <2> USE <1>1 DEF ProcessMsg, memberVars, fileVars, netVars
  <2>1. ChildSession(p)'
    <3>1. /\ pc[p] = "processMsg" /\ ~Sound(msg[p]) => pc'[p] = "request"
          /\ Sound(msg[p]) => pc'[p] = "challenge"
          /\ msg' = msg /\ UNCHANGED <<processingRequests, answer>>
      BY <1>t DEF Verified, Sound
    <3> QED BY <1>s, <1>a, <3>1 DEF ChildSession, Authenticated
  <2>2. \A q \in Procs \ {p} : pc'[q] = pc[q] BY <1>t
  <2>3. SessionInv' BY <1>a, <2>1, <2>2, OtherSessions
  <2>4. ClientInv' BY <1>a DEF ClientInv
  <2>5. OnlyAuthenticatedClauses'
    BY <1>a DEF OnlyAuthenticatedClauses, Authenticated
  <2>6. GrantJustified' BY <1>a DEF GrantJustified, Authenticated
  <2> QED BY <2>3, <2>4, <2>5, <2>6
<1>2. CASE SendChallenge(p) \/ SendReply(p)
  <2> USE <1>2 DEF SendChallenge, SendReply, memberVars, fileVars
  <2>1. ChildSession(p)' BY <1>t, <1>s, <1>a DEF ChildSession, Authenticated
  <2>2. \A q \in Procs \ {p} : pc'[q] = pc[q] /\ answer'[q] = answer[q] BY <1>t
  <2>3. SessionInv' BY <1>a, <2>1, <2>2, OtherSessions
  <2>4. ASSUME NEW c \in Clients, toClient'[c] = "granted"
        PROVE  /\ Authenticated(c)
               /\ \E d \in Clients : Authenticated(d) /\ <<c, d>> \in Grants
    <3>1. CASE toClient[c] = "granted" BY <3>1 DEF GrantJustified
    <3>2. CASE toClient[c] # "granted"
      <4>1. DOMAIN toClient = Clients BY DEF TypeInv, TypeOK, ClientTypeOK
      <4>2. c = sock[p] /\ pc[p] = "reply" /\ answer[p]
        BY <2>4, <3>2, <4>1 DEF Send
      <4> QED BY <1>s, <4>2 DEF ChildSession
    <3> QED BY <3>1, <3>2
  <2>5. GrantJustified' BY <1>a, <2>4 DEF GrantJustified, Authenticated
  <2>6. ClientInv' /\ OnlyAuthenticatedClauses'
    BY <1>a DEF ClientInv, OnlyAuthenticatedClauses, Authenticated
  <2> QED BY <2>3, <2>5, <2>6
<1>3. CASE ReadResponse(p)
  <2>c. sock[p] \in Clients /\ Sound(msg[p]) /\ cred[sock[p]] = msg[p]
    BY <1>3, <1>s DEF ReadResponse, ChildSession
  <2>q. toServer \in [Clients -> Seq(Messages)]
    BY DEF TypeInv, TypeOK, ClientTypeOK
  <2>1. ASSUME TRUE \in AuthenticateClient(p, sock[p])
        PROVE  Authenticated(sock[p])
    <3>1. CASE msg[p] = "keyless" BY <2>c, <3>1 DEF Authenticated
    <3>2. CASE msg[p] # "keyless"
      <4>1. toServer[sock[p]] # <<>> /\ Head(toServer[sock[p]]) = "good"
        BY <2>1, <3>2 DEF AuthenticateClient
      <4>2. /\ 1 \in 1 .. Len(toServer[sock[p]])
            /\ toServer[sock[p]][1] = "good"
        BY <4>1, <2>c, <2>q, HeadTailInSeq
      <4> QED BY <2>c, <3>2, <4>2 DEF ClientInv, Authenticated, Sound
    <3> QED BY <3>1, <3>2
  <2>2. \/ pc'[p] = "open" /\ Authenticated(sock[p])
        \/ pc'[p] = "request"
    <3>1. PICK yes \in AuthenticateClient(p, sock[p]) :
            IF yes THEN pc' = [pc EXCEPT ![p] = "open"]
                   ELSE pc' = [pc EXCEPT ![p] = "request"]
      BY <1>3 DEF ReadResponse
    <3>2. yes \in BOOLEAN BY <3>1 DEF AuthenticateClient
    <3> QED BY <1>t, <2>1, <3>1, <3>2
  <2>3. UNCHANGED <<processingRequests, msg, answer>> BY <1>3 DEF ReadResponse
  <2>4. ChildSession(p)'
    BY <1>a, <1>s, <2>2, <2>3, <2>c DEF ChildSession, Authenticated
  <2>5. \A q \in Procs \ {p} : pc'[q] = pc[q] BY <1>3, <1>t DEF ReadResponse
  <2>6. SessionInv' BY <1>a, <2>3, <2>4, <2>5, OtherSessions
  <2>7. OnlyAuthenticatedClauses' /\ GrantJustified'
    BY <1>3, <1>a DEF ReadResponse, fileVars, OnlyAuthenticatedClauses,
                      GrantJustified, Authenticated
  <2>8. ClientInv'
    <3>1. CASE UNCHANGED toServer BY <1>a, <3>1 DEF ClientInv
    <3>2. CASE TakeResponse(sock[p])
      <4>1. PICK l \in Seq(Messages) :
              /\ toServer' = [toServer EXCEPT ![sock[p]] = l]
              /\ \/ l = <<>>
                 \/ /\ Len(toServer[sock[p]]) > 1
                    /\ l \in Leftovers(toServer[sock[p]][2])
        BY <2>c, <3>2, TakeResponseCases
      <4>2. ASSUME NEW i \in 1 .. Len(l)
            PROVE  \/ l[i] \in {"malformed", "fragment", "unlisted", "allow"}
                   \/ /\ 2 \in 1 .. Len(toServer[sock[p]])
                      /\ l[i] = toServer[sock[p]][2]
        <5>1. l # <<>> BY <4>2
        <5>2. l \in {<<>>, <<toServer[sock[p]][2]>>, <<"malformed">>,
                     <<"fragment">>, <<"unlisted">>, <<"allow">>}
          BY <4>1, <5>1 DEF Leftovers
        <5>3. i = 1 /\ l[1] \in {toServer[sock[p]][2], "malformed", "fragment",
                                 "unlisted", "allow"}
          BY <4>2, <5>1, <5>2, OneElement
        <5>4. Len(toServer[sock[p]]) \in Nat BY <2>c, <2>q
        <5> QED BY <4>1, <5>1, <5>3, <5>4
      <4>3. ASSUME NEW d \in Clients, NEW i \in 1 .. Len(toServer'[d])
            PROVE  /\ Sound(toServer'[d][i]) => cred[d] = toServer'[d][i]
                   /\ toServer'[d][i] = "good" => sig[d] = "good"
        <5>1. CASE d = sock[p]
          <6>1. toServer'[d] = l BY <2>q, <4>1, <5>1
          <6> QED BY <4>2, <4>3, <5>1, <6>1 DEF ClientInv, Sound
        <5>2. CASE d # sock[p]
          <6>1. toServer'[d] = toServer[d] BY <2>q, <4>1, <5>2
          <6> QED BY <4>3, <6>1 DEF ClientInv
        <5> QED BY <5>1, <5>2
      <4> QED BY <1>a, <4>3 DEF ClientInv
    <3> QED BY <1>3, <3>1, <3>2 DEF ReadResponse
  <2> QED BY <2>6, <2>7, <2>8
<1>4. CASE OpenBinderFile(p) \/ OpenBinderFails(p)
  <2> USE <1>4 DEF OpenBinderFile, OpenBinderFails, memberVars, netVars
  <2>1. ChildSession(p)' BY <1>t, <1>s, <1>a DEF ChildSession, Authenticated
  <2>2. \A q \in Procs \ {p} : pc'[q] = pc[q] BY <1>t
  <2>3. SessionInv' BY <1>a, <2>1, <2>2, OtherSessions
  <2>4. ClientInv' /\ GrantJustified'
    BY <1>a DEF ClientInv, GrantJustified, Authenticated
  <2>5. OnlyAuthenticatedClauses'
    BY <1>a, ProcAssumption DEF EmptyFile, OnlyAuthenticatedClauses, Authenticated,
                                fileVars
  <2> QED BY <2>3, <2>4, <2>5
<1>5. CASE WriteLine(p)
  <2>c. sock[p] \in Clients /\ Authenticated(sock[p])
    BY <1>5, <1>s DEF WriteLine, ChildSession
  <2>1. /\ pc'[p] = pc[p] \/ pc'[p] = "request"
        /\ UNCHANGED <<msg, answer>>
        /\ \A q \in Procs \ {p} : pc'[q] = pc[q]
    BY <1>5, <1>t DEF WriteLine
  <2>2. \A q \in Procs \ {p} : processingRequests'[q] = processingRequests[q]
    BY <1>5, <1>t DEF WriteLine
  <2>3. ChildSession(p)'
    BY <1>5, <1>a, <2>c, <2>1 DEF WriteLine, ChildSession, Authenticated
  <2>4. SessionInv' BY <1>a, <2>1, <2>2, <2>3, OtherSessions
  <2>5. ClientInv' /\ GrantJustified'
    BY <1>5, <1>a DEF WriteLine, netVars, ClientInv, GrantJustified, Authenticated
  <2>6. OnlyAuthenticatedClauses'
    <3>1. ASSUME NEW i \in Lines PROVE file'[i] \in {file[i], Policy, sock[p]}
      <4>1. DOMAIN file = Lines BY DEF TypeInv, TypeOK, FileTypeOK
      <4>2. \/ file' = file
            \/ file' = [file EXCEPT ![off[p]] = Policy]
            \/ file' = [file EXCEPT ![off[p]] = sock[p]]
        BY <1>5 DEF WriteLine
      <4> QED BY <3>1, <4>1, <4>2
    <3>2. UNCHANGED compiled BY <1>5 DEF WriteLine
    <3> QED
      BY <1>a, <2>c, <3>1, <3>2, ProcAssumption
      DEF OnlyAuthenticatedClauses, Authenticated
  <2> QED BY <2>4, <2>5, <2>6
<1>6. CASE ReadRequest(p)
  <2>1. UNCHANGED <<fileVars, toClient>> BY <1>6 DEF ReadRequest
  <2>2. OnlyAuthenticatedClauses' /\ GrantJustified'
    BY <1>a, <2>1 DEF fileVars, OnlyAuthenticatedClauses, GrantJustified,
                      Authenticated
  <2>3. ClientInv'
    <3>1. CASE UNCHANGED toServer BY <1>a, <3>1 DEF ClientInv
    <3>2. CASE ~UNCHANGED toServer
      <4>1. /\ sock[p] \in fds[p] /\ toServer[sock[p]] # <<>>
            /\ toServer' = [toServer EXCEPT ![sock[p]] = Tail(toServer[sock[p]])]
        BY <1>6, <3>2 DEF ReadRequest
      <4>2. sock[p] \in Clients
        BY <1>t, <4>1 DEF TypeInv, TypeOK, ChildTypeOK
      <4> QED BY <1>a, <4>1, <4>2, ClientInvTail
    <3> QED BY <3>1, <3>2
  <2>4. SessionInv'
    <3>1. CASE Stop(p)
      <4>1. /\ pc'[p] = "exited" /\ ~processingRequests'[p]
            /\ \A q \in Procs \ {p} :
                 /\ pc'[q] = pc[q] /\ msg'[q] = msg[q] /\ answer'[q] = answer[q]
                 /\ processingRequests'[q] = processingRequests[q]
        BY <1>t, <3>1 DEF Stop, Release
      <4>2. ChildSession(p)' BY <4>1 DEF ChildSession
      <4> QED BY <1>a, <4>1, <4>2, OtherSessions
    <3>2. CASE processingRequests[p] /\ \E r \in Messages : Dispatch(p, r)
      <4>1. /\ pc'[p] = "query" \/ (pc'[p] = "reply" /\ ~answer'[p])
            /\ UNCHANGED <<processingRequests, msg>>
            /\ \A q \in Procs \ {p} : pc'[q] = pc[q] /\ answer'[q] = answer[q]
        BY <1>t, <3>2 DEF Dispatch, memberVars
      <4>2. ChildSession(p)'
        BY <1>a, <1>s, <3>2, <4>1 DEF ChildSession, Authenticated
      <4> QED BY <1>a, <4>1, <4>2, OtherSessions
    <3>3. ASSUME ~Stop(p)
          PROVE  processingRequests[p] /\ \E r \in Messages : Dispatch(p, r)
      <4>1. /\ sock[p] \in fds[p] /\ toServer[sock[p]] # <<>>
            /\ processingRequests[p] /\ Dispatch(p, Head(toServer[sock[p]]))
        BY <1>6, <3>3 DEF ReadRequest
      <4>2. sock[p] \in Clients
        BY <1>t, <4>1 DEF TypeInv, TypeOK, ChildTypeOK
      <4>3. toServer[sock[p]] \in Seq(Messages)
        BY <4>2 DEF TypeInv, TypeOK, ClientTypeOK
      <4>4. Head(toServer[sock[p]]) \in Messages BY <4>1, <4>3, HeadTailInSeq
      <4> QED BY <4>1, <4>4
    <3> QED BY <3>1, <3>2, <3>3
  <2> QED BY <2>2, <2>3, <2>4
<1>7. CASE ExecuteQuery(p)
  <2> DEFINE loaded == IF fileExists THEN file ELSE compiled
  <2>1. /\ pc[p] = "query" /\ pc'[p] = "reply"
        /\ compiled' = loaded \/ compiled' = compiled
        /\ UNCHANGED <<processingRequests, msg, file, toServer, toClient>>
        /\ \A q \in Procs \ {p} : pc'[q] = pc[q] /\ answer'[q] = answer[q]
        /\ answer'[p] => FileGrants(loaded, sock[p])
    BY <1>7, <1>t, Zenon DEF ExecuteQuery, memberVars, netVars
  <2>2. \A i \in Lines : \A c \in Clients : loaded[i] = c => Authenticated(c)
    BY DEF OnlyAuthenticatedClauses
  <2>3. ASSUME answer'[p]
        PROVE  \E d \in Clients : Authenticated(d) /\ <<sock[p], d>> \in Grants
    <3> HIDE DEF loaded
    <3>1. PICK i \in 1 .. NumClauses : <<sock[p], loaded[i]>> \in Grants
      BY <2>1, <2>3 DEF FileGrants
    <3>2. loaded[i] \in Clients BY <3>1, GrantsAssumption
    <3>3. i \in Lines BY BoundAssumption DEF Lines
    <3> QED BY <2>2, <3>1, <3>2, <3>3
  <2>4. ChildSession(p)'
    BY <1>a, <1>s, <2>1, <2>3 DEF ChildSession, Authenticated
  <2>5. SessionInv' BY <1>a, <2>1, <2>4, OtherSessions
  <2>6. OnlyAuthenticatedClauses'
    BY <1>a, <2>1, <2>2 DEF OnlyAuthenticatedClauses, Authenticated
  <2>7. ClientInv' /\ GrantJustified'
    BY <1>a, <2>1 DEF ClientInv, GrantJustified, Authenticated
  <2> QED BY <2>5, <2>6, <2>7
<1>8. CASE Killed(p)
  <2>1. /\ pc'[p] = "killed" /\ ~processingRequests'[p]
        /\ \A q \in Procs \ {p} :
             /\ pc'[q] = pc[q] /\ msg'[q] = msg[q] /\ answer'[q] = answer[q]
             /\ processingRequests'[q] = processingRequests[q]
    BY <1>8, <1>t DEF Killed, Release
  <2>2. ChildSession(p)' BY <2>1 DEF ChildSession
  <2>3. SessionInv' BY <1>a, <2>1, <2>2, OtherSessions
  <2>4. UNCHANGED <<file, compiled, toServer, toClient>>
    BY <1>8 DEF Killed, fileVars, netVars
  <2>5. ClientInv' BY <1>a, <2>4 DEF ClientInv
  <2>6. OnlyAuthenticatedClauses'
    BY <1>a, <2>4 DEF OnlyAuthenticatedClauses, Authenticated
  <2>7. GrantJustified' BY <1>a, <2>4 DEF GrantJustified, Authenticated
  <2> QED BY <2>3, <2>5, <2>6, <2>7
<1> QED
  BY <1>1, <1>2, <1>3, <1>4, <1>5, <1>6, <1>7, <1>8 DEF ChildStep

LEMMA AuthStep == TypeInv /\ AuthInv /\ [Next]_vars => AuthInv'
<1> SUFFICES ASSUME TypeInv, AuthInv, [Next]_vars PROVE AuthInv' OBVIOUS
<1>1. ASSUME NEW c \in Clients, Client(c) PROVE AuthInv' BY <1>1, ClientAuthStep
<1>2. CASE MainStep \/ Tick BY <1>2, MainAuthStep
<1>3. ASSUME NEW p \in Procs, ChildStep(p) PROVE AuthInv' BY <1>3, ChildAuthStep
<1>4. CASE UNCHANGED vars
  BY <1>4 DEF vars, mainVars, memberVars, childVars, fileVars, clientVars,
              netVars, AuthInv, ClientInv, SessionInv, ChildSession,
              OnlyAuthenticatedClauses, GrantJustified, Authenticated
<1> QED BY <1>1, <1>2, <1>3, <1>4 DEF Next

\* Types and authentication are one induction: the type of a line of the binder
\* file rests on the session that writes it.
LEMMA SessionInvariant == Spec => [](TypeInv /\ AuthInv)
<1>1. TypeInv /\ AuthInv /\ [Next]_vars => (TypeInv /\ AuthInv)'
  BY TypeStep, AuthStep DEF AuthInv
<1> QED BY <1>1, TypeInit, AuthInit, PTL DEF Spec

\* Every variable of the server keeps its type.
THEOREM TypeCorrect == Spec => []TypeOK
<1>1. TypeInv => TypeOK BY DEF TypeInv
<1> QED BY <1>1, SessionInvariant, PTL

\* What the children do to processingRequests, clientAuthenticated and children
\* never reaches the listening process: its branch for requests is dead code.
THEOREM MainNeverServesTheorem == Spec => []MainNeverServes
<1>1. TypeInv => MainNeverServes BY DEF TypeInv, CountInv
<1> QED BY <1>1, SessionInvariant, PTL

\* "granted" goes only to an authenticated client, on the clauses of an
\* authenticated client, however many sessions share the binder file.
THEOREM GrantJustifiedTheorem == Spec => []GrantJustified
<1>1. AuthInv => GrantJustified BY DEF AuthInv
<1> QED BY <1>1, SessionInvariant, PTL

\* Only clauses of authenticated clients are ever in the binder file or in what
\* XSB compiled from it.
THEOREM OnlyAuthenticatedClausesTheorem == Spec => []OnlyAuthenticatedClauses
<1>1. AuthInv => OnlyAuthenticatedClauses BY DEF AuthInv
<1> QED BY <1>1, SessionInvariant, PTL

-----------------------------------------------------------------------------
(* Connections                                                             *)

LEMMA ConnectionInit == Init => ConnectionInv
<1> SUFFICES ASSUME Init PROVE ConnectionInv OBVIOUS
<1>1. Len(backlog) = 0 BY DEF Init
<1>2. /\ \A p \in Procs : sock[p] = NoSocket
      /\ clientSocketId = NoSocket /\ mainPc = "accept"
  BY DEF Init
<1> QED BY <1>1, <1>2, ProcAssumption DEF ConnectionInv

\* A connection moves from its client to the backlog, from there to the
\* listening process and from there to one child, and never back.
LEMMA ConnectionStep == TypeInv /\ ConnectionInv /\ [Next]_vars => ConnectionInv'
<1> SUFFICES ASSUME TypeInv, ConnectionInv, [Next]_vars PROVE ConnectionInv'
  OBVIOUS
<1>t. /\ backlog \in Seq(Clients) /\ sock \in [Procs -> Clients \cup {NoSocket}]
      /\ DOMAIN phase = Clients
  BY DEF TypeInv, TypeOK, MainTypeOK, ChildTypeOK, ClientTypeOK
<1>1. ASSUME NEW c \in Clients, ClientConnect(c) PROVE ConnectionInv'
  <2>1. /\ phase[c] = "idle" /\ phase' = [phase EXCEPT ![c] = "connected"]
        /\ backlog' = Append(backlog, c)
        /\ UNCHANGED <<mainPc, clientSocketId, sock>>
    BY <1>1 DEF ClientConnect, childVars
  <2>2. ASSUME NEW i \in 1 .. Len(backlog')
        PROVE  \/ i \in 1 .. Len(backlog) /\ backlog'[i] = backlog[i]
               \/ i = Len(backlog) + 1 /\ backlog'[i] = c
    BY <1>t, <2>1, <2>2, AppendElement
  <2>3. /\ clientSocketId # c
        /\ \A i \in 1 .. Len(backlog) : backlog[i] # c
        /\ \A p \in Procs : sock[p] # c
    BY <2>1 DEF ConnectionInv
  <2>4. \A i, j \in 1 .. Len(backlog') : backlog'[i] = backlog'[j] => i = j
    BY <2>2, <2>3 DEF ConnectionInv
  <2>5. \A i \in 1 .. Len(backlog') :
          /\ backlog'[i] # clientSocketId
          /\ \A p \in Procs : backlog'[i] # sock[p]
    BY <2>2, <2>3 DEF ConnectionInv
  <2>6. \A d \in Clients : phase'[d] = "idle" => phase[d] = "idle" /\ d # c
    BY <1>t, <2>1
  <2>7. \A d \in Clients : phase'[d] = "idle" =>
          /\ clientSocketId # d
          /\ \A i \in 1 .. Len(backlog') : backlog'[i] # d
          /\ \A p \in Procs : sock[p] # d
    BY <2>2, <2>6 DEF ConnectionInv
  <2> QED BY <2>1, <2>4, <2>5, <2>7 DEF ConnectionInv
<1>2. CASE Accept
  <2>1. /\ backlog # <<>> /\ clientSocketId' = Head(backlog)
        /\ backlog' = Tail(backlog) /\ UNCHANGED <<sock, phase>>
    BY <1>2 DEF Accept, childVars, clientVars
  <2>2. 1 \in 1 .. Len(backlog) /\ clientSocketId' = backlog[1]
    BY <1>t, <2>1, HeadTailInSeq
  <2>3. ASSUME NEW i \in 1 .. Len(backlog')
        PROVE  /\ i + 1 \in 1 .. Len(backlog) /\ backlog'[i] = backlog[i + 1]
               /\ i + 1 # 1
    <3>1. i + 1 # 1 BY <2>3
    <3> QED BY <1>t, <2>1, <2>3, <3>1, TailElement
  <2>4. ASSUME NEW i \in 1 .. Len(backlog'), NEW j \in 1 .. Len(backlog'),
               backlog'[i] = backlog'[j]
        PROVE  i = j
    <3>1. i + 1 = j + 1 BY <2>3, <2>4 DEF ConnectionInv
    <3> QED BY <3>1
  <2>5. \A i \in 1 .. Len(backlog') :
          /\ backlog'[i] # clientSocketId'
          /\ \A p \in Procs : backlog'[i] # sock[p]
    BY <2>2, <2>3 DEF ConnectionInv
  <2>6. \A p \in Procs : sock[p] # clientSocketId' BY <2>2 DEF ConnectionInv
  <2>7. \A c \in Clients : phase[c] = "idle" =>
          /\ clientSocketId' # c
          /\ \A i \in 1 .. Len(backlog') : backlog'[i] # c
    BY <2>2, <2>3 DEF ConnectionInv
  <2> QED BY <2>1, <2>4, <2>5, <2>6, <2>7 DEF ConnectionInv
<1>3. CASE AcceptFails
  <2>1. /\ clientSocketId' = NoSocket /\ UNCHANGED <<backlog, sock, phase>>
    BY <1>3 DEF AcceptFails, childVars, clientVars
  <2>2. \A i \in 1 .. Len(backlog) : backlog[i] \in Clients BY <1>t
  <2> QED BY <2>1, <2>2, ProcAssumption DEF ConnectionInv
<1>4. ASSUME NEW p \in Procs, Fork(p) PROVE ConnectionInv'
  <2>1. /\ mainPc = "fork" /\ mainPc' = "checkIdle"
        /\ UNCHANGED <<backlog, clientSocketId, phase>>
        /\ sock'[p] = clientSocketId
        /\ \A q \in Procs \ {p} : sock'[q] = sock[q]
    BY <1>4, <1>t DEF Fork, clientVars
  <2>2. \A q, r \in Procs : sock'[q] = sock'[r] /\ sock'[q] \in Clients => q = r
    BY <2>1 DEF ConnectionInv
  <2>3. \A q \in Procs : sock'[q] \in {sock[q], clientSocketId}
    BY <2>1
  <2>4. \A i \in 1 .. Len(backlog) : \A q \in Procs : backlog[i] # sock'[q]
    BY <2>3 DEF ConnectionInv
  <2>5. \A c \in Clients : phase[c] = "idle" => \A q \in Procs : sock'[q] # c
    BY <2>3 DEF ConnectionInv
  <2> QED BY <2>1, <2>2, <2>4, <2>5 DEF ConnectionInv
<1>5. CASE /\ UNCHANGED <<backlog, clientSocketId, sock>>
           /\ mainPc' \in {"read", "fork"} => mainPc \in {"read", "fork"}
           /\ \A c \in Clients : phase'[c] = "idle" => phase[c] = "idle"
  BY <1>5 DEF ConnectionInv
<1>6. ASSUME NEW c \in Clients, Client(c), ~ClientConnect(c)
      PROVE  /\ UNCHANGED <<backlog, clientSocketId, sock>>
             /\ mainPc' \in {"read", "fork"} => mainPc \in {"read", "fork"}
             /\ \A d \in Clients : phase'[d] = "idle" => phase[d] = "idle"
  BY <1>t, <1>6
  DEF Client, ClientSendCredential, ClientSendResponse, ClientSendRequest,
      ClientReadReply, ClientClose, mainVars, childVars
<1>7. ASSUME ReadFirstMessage \/ ForkFails \/ CheckIdle \/ Tick
      PROVE  /\ UNCHANGED <<backlog, clientSocketId, sock, phase>>
             /\ mainPc' \in {"read", "fork"} => mainPc \in {"read", "fork"}
  BY <1>7 DEF ReadFirstMessage, ForkFails, CheckIdle, Tick, childVars, clientVars
<1>m. CASE MainExit
  <2>1. /\ mainPc' = "exited" /\ clientSocketId' = NoSocket
        /\ UNCHANGED <<backlog, sock, phase>>
    BY <1>m DEF MainExit, clientVars
  <2>2. \A i \in 1 .. Len(backlog) : backlog[i] \in Clients BY <1>t
  <2> QED BY <2>1, <2>2, ProcAssumption DEF ConnectionInv
<1>8. ASSUME NEW p \in Procs, ChildStep(p)
      PROVE  UNCHANGED <<mainVars, sock, phase>>
  BY <1>8 DEF ChildStep, ProcessMsg, SendChallenge, ReadResponse, OpenBinderFile,
              OpenBinderFails, WriteLine, ReadRequest, ExecuteQuery, SendReply,
              Killed, clientVars
<1>9. ASSUME UNCHANGED vars PROVE UNCHANGED <<mainVars, sock, phase>>
  BY <1>9 DEF vars, childVars, clientVars
<1> QED
  BY <1>1, <1>2, <1>3, <1>4, <1>5, <1>6, <1>7, <1>8, <1>9, <1>m
  DEF Next, MainStep, mainVars

LEMMA ConnectionInvariant == Spec => []ConnectionInv
BY ConnectionInit, ConnectionStep, SessionInvariant, PTL DEF Spec

-----------------------------------------------------------------------------
(* Client and server take turns                                            *)

LEMMA TurnInit == Init => TurnInv
<1> SUFFICES ASSUME Init, NEW c \in Clients PROVE Turn(c) BY DEF TurnInv
<1>1. /\ mainPc = "accept" /\ backlog = <<>>
      /\ phase[c] = "idle" /\ toServer[c] = <<>> /\ toClient[c] = "none"
      /\ \A p \in Procs : sock[p] # c
  BY ProcAssumption DEF Init
<1> QED BY <1>1 DEF Turn, ClientTurn, MainTurn

\* A step that concerns the client c, its messages and the child that serves it
\* leaves the other clients' turns alone.
LEMMA TurnFrame ==
  ASSUME TurnInv, NEW c \in Clients,
         UNCHANGED <<mainPc, clientSocketId, backlog, sock>>,
         \A d \in Clients \ {c} : /\ phase'[d] = phase[d]
                                  /\ toServer'[d] = toServer[d]
                                  /\ toClient'[d] = toClient[d],
         \A p \in Procs : sock[p] # c => pc'[p] = pc[p],
         Turn(c)'
  PROVE  TurnInv'
<1> SUFFICES ASSUME NEW d \in Clients, d # c PROVE Turn(d)' BY DEF TurnInv
<1>1. Turn(d) BY DEF TurnInv
<1>2. \A p \in Procs : sock[p] = d => pc'[p] = pc[p] OBVIOUS
<1>3. ClientTurn(d)' BY <1>1 DEF Turn, ClientTurn
<1>4. ASSUME phase'[d] # "closed" PROVE MainTurn(d)'
  BY <1>1, <1>4 DEF Turn, MainTurn, Quiet
<1>5. ASSUME phase'[d] # "closed", NEW p \in Procs, sock'[p] = d
      PROVE  ChildTurn(p, d)'
  BY <1>1, <1>2, <1>5 DEF Turn, ChildTurn, Quiet
<1> QED BY <1>3, <1>4, <1>5 DEF Turn

LEMMA ClientTurnStep ==
  ASSUME TypeInv, ConnectionInv, TurnInv, NEW c \in Clients, Client(c)
  PROVE  TurnInv'
<1>t. /\ backlog \in Seq(Clients)
      /\ phase \in [Clients -> {"idle", "connected", "waitChallenge", "ready",
                                "waitReply", "closed"}]
      /\ toServer \in [Clients -> Seq(Messages)]
      /\ toClient \in [Clients -> {"none", "challenge", "granted", "denied"}]
  BY DEF TypeInv, TypeOK, MainTypeOK, ClientTypeOK
<1>0. Turn(c) BY DEF TurnInv
<1>1. CASE ClientConnect(c)
  <2>1. /\ phase[c] = "idle" /\ phase' = [phase EXCEPT ![c] = "connected"]
        /\ backlog' = Append(backlog, c)
        /\ UNCHANGED <<mainPc, clientSocketId, sock, pc, toServer, toClient>>
    BY <1>1 DEF ClientConnect, childVars, netVars
  <2>2. ASSUME NEW i \in 1 .. Len(backlog'), backlog'[i] # c
        PROVE  i \in 1 .. Len(backlog) /\ backlog'[i] = backlog[i]
    BY <1>t, <2>1, <2>2, AppendElement
  <2>3. clientSocketId # c /\ \A p \in Procs : sock[p] # c
    BY <2>1 DEF ConnectionInv
  <2>4. Turn(c)'
    BY <1>0, <1>t, <2>1, <2>3 DEF Turn, ClientTurn, MainTurn
  <2>5. ASSUME NEW d \in Clients, d # c PROVE Turn(d)'
    <3>1. Turn(d) /\ phase'[d] = phase[d] BY <1>t, <2>1, <2>5 DEF TurnInv
    <3>2. (\E i \in 1 .. Len(backlog') : backlog'[i] = d) =>
            \E i \in 1 .. Len(backlog) : backlog[i] = d
      BY <2>2, <2>5
    <3>3. MainTurn(d) => MainTurn(d)'
      BY <2>1, <3>1, <3>2 DEF MainTurn, Quiet
    <3> QED BY <2>1, <3>1, <3>3 DEF Turn, ClientTurn, ChildTurn, Quiet
  <2> QED BY <2>4, <2>5 DEF TurnInv
<1>2. ASSUME ~ClientConnect(c)
      PROVE  UNCHANGED <<mainPc, clientSocketId, backlog, sock, pc>>
  BY <1>2 DEF Client, ClientSendCredential, ClientSendResponse,
              ClientSendRequest, ClientReadReply, ClientClose, mainVars, childVars
<1>3. ASSUME ~ClientConnect(c)
      PROVE  \A d \in Clients \ {c} : /\ phase'[d] = phase[d]
                                      /\ toServer'[d] = toServer[d]
                                      /\ toClient'[d] = toClient[d]
  BY <1>t, <1>3 DEF Client, ClientSendCredential, ClientSendResponse,
              ClientSendRequest, ClientReadReply, ClientClose, netVars
<1>4. ASSUME ~ClientConnect(c) PROVE Turn(c)'
  <2> USE <1>0, <1>t, <1>2, <1>4
  <2>s. \A m \in Messages : Len(Append(toServer[c], m)) = Len(toServer[c]) + 1
    OBVIOUS
  <2>e. Len(toServer[c]) \in Nat /\ (toServer[c] = <<>> <=> Len(toServer[c]) = 0)
    OBVIOUS
  <2>1. CASE ClientSendCredential(c)
    <3>1. /\ phase[c] = "connected" /\ phase'[c] = "waitChallenge"
          /\ toClient'[c] = toClient[c] /\ Len(toServer'[c]) = Len(toServer[c]) + 1
      BY <2>1, <2>s DEF ClientSendCredential, Messages
    <3> QED BY <2>e, <3>1 DEF Turn, ClientTurn, MainTurn, ChildTurn, Quiet
  <2>2. CASE ClientSendResponse(c)
    <3>1. /\ phase[c] = "waitChallenge" /\ phase'[c] = "ready"
          /\ toClient[c] = "challenge" /\ toClient'[c] = "none"
          /\ Len(toServer'[c]) = Len(toServer[c]) + 1
      BY <2>2, <2>s DEF ClientSendResponse, Messages
    <3> QED BY <2>e, <3>1 DEF Turn, ClientTurn, MainTurn, ChildTurn, Quiet
  <2>3. CASE ClientSendRequest(c)
    <3>1. /\ phase[c] = "ready" /\ phase'[c] = "waitReply"
          /\ toClient'[c] = toClient[c]
          /\ Len(toServer'[c]) = Len(toServer[c]) + 1
      BY <2>3, <2>s DEF ClientSendRequest, Messages
    <3> QED BY <2>e, <3>1 DEF Turn, ClientTurn, MainTurn, ChildTurn, Quiet
  <2>4. CASE ClientReadReply(c)
    <3>1. /\ phase[c] = "waitReply" /\ phase'[c] = "ready"
          /\ toClient[c] \in {"granted", "denied"} /\ toClient'[c] = "none"
          /\ toServer'[c] = toServer[c]
      BY <2>4 DEF ClientReadReply
    <3> QED BY <2>e, <3>1 DEF Turn, ClientTurn, MainTurn, ChildTurn, Quiet
  <2>5. CASE ClientClose(c)
    BY <2>5 DEF ClientClose, Turn, ClientTurn
  <2> QED BY <2>1, <2>2, <2>3, <2>4, <2>5 DEF Client
<1>5. CASE ~ClientConnect(c) BY <1>2, <1>3, <1>4, <1>5, TurnFrame
<1> QED BY <1>1, <1>5

LEMMA MainTurnStep ==
  ASSUME TypeInv, ConnectionInv, TurnInv, MainStep \/ Tick
  PROVE  TurnInv'
<1>t. /\ backlog \in Seq(Clients) /\ clientSocketId \in Clients \cup {NoSocket}
      /\ pc \in [Procs -> Live \cup {"free", "exited", "killed"}]
      /\ sock \in [Procs -> Clients \cup {NoSocket}]
      /\ toServer \in [Clients -> Seq(Messages)]
  BY DEF TypeInv, TypeOK, MainTypeOK, ChildTypeOK, ClientTypeOK
<1>u. UNCHANGED <<phase, toClient>>
  BY DEF MainStep, Tick, Accept, AcceptFails, ReadFirstMessage, Fork, ForkFails,
         CheckIdle, MainExit, clientVars, netVars
<1> SUFFICES ASSUME NEW c \in Clients PROVE Turn(c)' BY DEF TurnInv
<1>0. Turn(c) BY DEF TurnInv
<1>1. CASE Accept
  <2>1. /\ clientSocketId' = Head(backlog) /\ backlog' = Tail(backlog)
        /\ backlog # <<>> /\ mainPc' = "read"
        /\ UNCHANGED <<pc, sock, toServer>>
    BY <1>1 DEF Accept, childVars, netVars
  <2>2. clientSocketId' = c => \E i \in 1 .. Len(backlog) : backlog[i] = c
    BY <1>t, <2>1, HeadTailInSeq
  <2>3. (\E i \in 1 .. Len(backlog') : backlog'[i] = c) =>
          \E i \in 1 .. Len(backlog) : backlog[i] = c
    BY <1>t, <2>1, TailElement
  <2>4. MainTurn(c) => MainTurn(c)' BY <1>u, <2>1, <2>2, <2>3 DEF MainTurn
  <2> QED BY <1>0, <1>u, <2>1, <2>4 DEF Turn, ClientTurn, ChildTurn, Quiet
<1>2. CASE AcceptFails
  <2>1. /\ clientSocketId' = NoSocket /\ mainPc' = "read"
        /\ UNCHANGED <<pc, sock, toServer, backlog>>
    BY <1>2 DEF AcceptFails, childVars, netVars
  <2> QED BY <1>0, <1>u, <2>1, ProcAssumption
          DEF Turn, ClientTurn, MainTurn, ChildTurn, Quiet
<1>3. CASE ReadFirstMessage
  <2>1. /\ mainPc = "read" /\ mainPc' = "fork"
        /\ UNCHANGED <<clientSocketId, pc, sock, backlog>>
    BY <1>3 DEF ReadFirstMessage, childVars
  <2>2. CASE clientSocketId # c
    <3>1. toServer'[c] = toServer[c] BY <1>3, <1>t, <2>2 DEF ReadFirstMessage
    <3> QED BY <1>0, <1>u, <2>1, <2>2, <3>1
            DEF Turn, ClientTurn, MainTurn, ChildTurn, Quiet
  <2>3. CASE clientSocketId = c /\ phase[c] = "closed"
    BY <1>u, <2>3 DEF Turn, ClientTurn
  <2>4. CASE clientSocketId = c /\ phase[c] # "closed"
    <3>1. /\ toServer[c] # <<>> /\ toServer'[c] = Tail(toServer[c])
      BY <1>3, <1>t, <2>4, ProcAssumption DEF ReadFirstMessage
    <3>2. phase[c] = "waitChallenge" /\ toClient[c] = "none"
          /\ Len(toServer[c]) <= 1
      BY <1>0, <2>1, <2>4, <3>1 DEF Turn, ClientTurn, MainTurn
    <3>3. toServer'[c] = <<>> BY <1>t, <3>1, <3>2
    <3>4. \A p \in Procs : sock[p] # c BY <2>1, <2>4 DEF ConnectionInv
    <3> QED BY <1>u, <2>1, <3>2, <3>3, <3>4
            DEF Turn, ClientTurn, MainTurn, Quiet
  <2> QED BY <2>2, <2>3, <2>4
<1>4. ASSUME NEW p \in Procs, Fork(p) PROVE Turn(c)'
  <2>1. /\ mainPc = "fork" /\ mainPc' = "checkIdle"
        /\ sock'[p] = clientSocketId /\ pc'[p] = "processMsg"
        /\ \A q \in Procs \ {p} : sock'[q] = sock[q] /\ pc'[q] = pc[q]
        /\ UNCHANGED <<clientSocketId, backlog, toServer>>
    BY <1>4, <1>t DEF Fork, netVars
  <2>2. MainTurn(c) => MainTurn(c)' BY <1>u, <2>1 DEF MainTurn
  <2>3. ASSUME NEW q \in Procs, sock'[q] = c, phase[c] # "closed"
        PROVE  ChildTurn(q, c)'
    <3>1. CASE q = p
      <4>1. clientSocketId = c BY <2>1, <2>3, <3>1
      <4> QED BY <1>0, <1>u, <2>1, <2>3, <3>1, <4>1
              DEF Turn, MainTurn, ChildTurn, Quiet
    <3>2. CASE q # p
      BY <1>0, <1>u, <2>1, <2>3, <3>2 DEF Turn, ChildTurn, Quiet
    <3> QED BY <3>1, <3>2
  <2> QED BY <1>0, <1>u, <2>1, <2>2, <2>3 DEF Turn, ClientTurn
<1>5. CASE ForkFails \/ CheckIdle \/ Tick
  <2>1. /\ mainPc' \in {"checkIdle", "accept"} \/ mainPc' = mainPc
        /\ UNCHANGED <<clientSocketId, pc, sock, backlog, toServer>>
    BY <1>5 DEF ForkFails, CheckIdle, Tick, childVars, netVars
  <2> QED BY <1>0, <1>u, <2>1 DEF Turn, ClientTurn, MainTurn, ChildTurn, Quiet
<1>6. CASE MainExit
  <2>1. /\ mainPc' = "exited"
        /\ pc' = [p \in Procs |-> IF pc[p] = "write" THEN "writeGone" ELSE pc[p]]
        /\ UNCHANGED <<sock, backlog, toServer>>
    BY <1>6 DEF MainExit, netVars
  <2> QED BY <1>0, <1>u, <2>1 DEF Turn, ClientTurn, MainTurn, ChildTurn, Quiet
<1> QED BY <1>1, <1>2, <1>3, <1>4, <1>5, <1>6 DEF MainStep

\* What is left of a client's messages when its response has been taken.
LEMMA LeftoverLength ==
  ASSUME NEW r \in Messages, NEW l \in Leftovers(r)
  PROVE  l \in Seq(Messages) /\ Len(l) <= 1
<1>1. l = <<>>
        \/ \E x \in {r, "malformed", "fragment", "unlisted", "allow"} : l = <<x>>
  BY DEF Leftovers
<1>2. {"malformed", "fragment", "unlisted", "allow"} \subseteq Messages
  BY DEF Messages, Requests
<1>3. \A x \in Messages : <<x>> \in Seq(Messages) /\ Len(<<x>>) = 1
  BY OneInSeq
<1>4. <<>> \in Seq(Messages) /\ Len(<<>>) = 0 BY EmptyInSeq
<1>5. l \in Seq(Messages) /\ (Len(l) = 0 \/ Len(l) = 1)
  BY <1>1, <1>2, <1>3, <1>4, Zenon
<1> QED BY <1>5

LEMMA ChildTurnStep ==
  ASSUME TypeInv, ConnectionInv, AuthInv, TurnInv, NEW p \in Procs, ChildStep(p)
  PROVE  TurnInv'
<1>t. /\ pc \in [Procs -> Live \cup {"free", "exited", "killed"}]
      /\ sock \in [Procs -> Clients \cup {NoSocket}]
      /\ toServer \in [Clients -> Seq(Messages)]
      /\ toClient \in [Clients -> {"none", "challenge", "granted", "denied"}]
      /\ \A d \in Clients : toServer[d] \in Seq(Messages)
  BY DEF TypeInv, TypeOK, ChildTypeOK, ClientTypeOK
<1>u. UNCHANGED <<phase, mainPc, clientSocketId, backlog, sock>>
  BY DEF ChildStep, ProcessMsg, SendChallenge, ReadResponse, OpenBinderFile,
         OpenBinderFails, WriteLine, ReadRequest, ExecuteQuery, SendReply, Killed,
         clientVars, mainVars
<1>p. \A q \in Procs \ {p} : pc'[q] = pc[q]
  BY <1>t DEF ChildStep, ProcessMsg, SendChallenge, ReadResponse, OpenBinderFile,
         OpenBinderFails, WriteLine, ReadRequest, Stop, Dispatch, ExecuteQuery,
         SendReply, Killed
<1>s. ChildSession(p) BY DEF AuthInv, SessionInv
<1>n. CASE sock[p] \notin Clients
  <2> SUFFICES ASSUME NEW c \in Clients PROVE Turn(c)' BY DEF TurnInv
  <2>1. Turn(c) /\ \A q \in Procs : sock[q] = c => pc'[q] = pc[q]
    BY <1>n, <1>p DEF TurnInv
  <2>2. pc[p] \in {"processMsg", "request"}
    BY <1>n, <1>s, <1>t DEF ChildStep, ProcessMsg, SendChallenge, ReadResponse,
       OpenBinderFile, OpenBinderFails, WriteLine, ReadRequest, ExecuteQuery,
       SendReply, Killed, ChildSession
  <2>3. UNCHANGED <<toServer, toClient>>
    <3>1. sock[p] \notin fds[p]
      BY <1>n DEF TypeInv, TypeOK, ChildTypeOK, Processes
    <3> QED BY <2>2, <3>1 DEF ChildStep, ProcessMsg, SendChallenge, ReadResponse,
       OpenBinderFile, OpenBinderFails, WriteLine, ReadRequest, ExecuteQuery,
       SendReply, Killed, netVars
  <2> QED BY <1>n, <1>u, <2>1, <2>3
          DEF Turn, ClientTurn, MainTurn, ChildTurn, Quiet
<1>c. ASSUME NEW c \in Clients, sock[p] = c PROVE TurnInv'
  <2>0. Turn(c) BY DEF TurnInv
  <2>d. \A d \in Clients \ {c} : /\ toServer'[d] = toServer[d]
                                 /\ toClient'[d] = toClient[d]
    BY <1>t, <1>c DEF ChildStep, ProcessMsg, SendChallenge, Send, ReadResponse,
       TakeResponse, OpenBinderFile, OpenBinderFails, WriteLine, ReadRequest,
       ExecuteQuery, SendReply, Killed, netVars
  <2>q. \A q \in Procs : sock[q] = c => q = p BY <1>c DEF ConnectionInv
  <2>w. /\ \A i \in 1 .. Len(backlog) : backlog[i] # c
        /\ ~(mainPc \in {"read", "fork"} /\ clientSocketId = c)
    BY <1>c DEF ConnectionInv
  <2>1. ASSUME ClientTurn(c)', phase[c] # "closed" => ChildTurn(p, c)'
        PROVE  TurnInv'
    <3>1. MainTurn(c)' BY <1>u, <2>w DEF MainTurn
    <3>2. Turn(c)' BY <1>u, <2>1, <2>q, <3>1 DEF Turn
    <3> QED BY <1>c, <1>p, <1>u, <2>d, <3>2, TurnFrame
  <2>2. CASE phase[c] = "closed"
    BY <1>u, <2>1, <2>2 DEF ClientTurn
  <2>3. CASE phase[c] # "closed"
    <3> USE <1>u, <1>c, <1>t, <2>0, <2>3
    <3>1. CASE ProcessMsg(p)
      <4>1. /\ pc[p] = "processMsg" /\ pc'[p] \in {"challenge", "request"}
            /\ UNCHANGED <<toServer, toClient>>
        BY <3>1 DEF ProcessMsg, netVars
      <4> QED BY <2>1, <4>1 DEF Turn, ClientTurn, ChildTurn, Quiet
    <3>2. CASE SendChallenge(p)
      <4>1. /\ pc[p] = "challenge" /\ pc'[p] = "auth"
            /\ toClient'[c] = "challenge" /\ UNCHANGED toServer
        BY <3>2 DEF SendChallenge, Send
      <4> QED BY <2>1, <4>1 DEF Turn, ClientTurn, ChildTurn, Quiet
    <3>3. CASE ReadResponse(p)
      <4>1. /\ pc[p] = "auth" /\ pc'[p] \in {"open", "request"}
            /\ toServer[c] # <<>> /\ TakeResponse(c) /\ UNCHANGED toClient
        BY <3>3 DEF ReadResponse
      <4>2. toServer'[c] \in Seq(Messages) /\ Len(toServer'[c]) <= 1
            /\ (phase[c] = "ready" => toServer'[c] = <<>>)
        <5>1. PICK l \in IF Len(toServer[c]) > 1 THEN Leftovers(toServer[c][2])
                                               ELSE {<<>>} :
                toServer' = [toServer EXCEPT ![c] = l]
          BY <4>1 DEF TakeResponse
        <5>2. toServer'[c] = l BY <5>1
        <5>3. CASE Len(toServer[c]) > 1
          <6>1. toServer[c][2] \in Messages BY <5>3
          <6>2. phase[c] # "ready" BY <4>1, <5>3 DEF Turn, ChildTurn
          <6> QED BY <5>1, <5>2, <5>3, <6>1, <6>2, LeftoverLength
        <5>4. CASE ~(Len(toServer[c]) > 1) BY <5>1, <5>2, <5>4, EmptyInSeq
        <5> QED BY <5>3, <5>4
      <4>3. phase[c] \in {"ready", "waitReply"}
        BY <4>1 DEF Turn, ChildTurn, TypeInv, TypeOK, ClientTypeOK
      <4> QED BY <2>1, <4>1, <4>2, <4>3 DEF Turn, ClientTurn, ChildTurn, Quiet
    <3>4. CASE OpenBinderFile(p) \/ OpenBinderFails(p) \/ WriteLine(p)
      <4>1. /\ pc[p] \in {"open", "write", "writeGone"}
            /\ pc'[p] \in {"write", "request", pc[p]}
            /\ UNCHANGED <<toServer, toClient>>
        BY <3>4 DEF OpenBinderFile, OpenBinderFails, WriteLine, netVars
      <4> QED BY <2>1, <4>1 DEF Turn, ClientTurn, ChildTurn, Quiet
    <3>5. CASE ReadRequest(p)
      <4>1. pc[p] = "request" /\ UNCHANGED toClient BY <3>5 DEF ReadRequest
      <4>2. CASE pc'[p] = "exited" /\ UNCHANGED toServer
        BY <2>1, <4>1, <4>2 DEF Turn, ClientTurn, ChildTurn
      <4>3. ASSUME toServer[c] # <<>>, toServer'[c] = Tail(toServer[c]),
                   pc'[p] \in {"exited", "query", "reply"}
            PROVE  TurnInv'
        <5>1. /\ phase[c] = "waitReply" /\ toClient[c] = "none"
              /\ Len(toServer[c]) <= 1
          BY <4>1, <4>3 DEF Turn, ChildTurn
        <5>2. toServer'[c] = <<>> BY <4>3, <5>1
        <5> QED BY <2>1, <4>1, <4>3, <5>1, <5>2 DEF ClientTurn, ChildTurn, Quiet
      <4>4. \/ pc'[p] = "exited" /\ UNCHANGED toServer
            \/ /\ toServer[c] # <<>> /\ toServer'[c] = Tail(toServer[c])
               /\ pc'[p] \in {"exited", "query", "reply"}
        BY <3>5 DEF ReadRequest, Stop, Dispatch
      <4> QED BY <4>2, <4>3, <4>4
    <3>6. CASE ExecuteQuery(p)
      <4>1. /\ pc[p] = "query" /\ pc'[p] = "reply"
            /\ UNCHANGED <<toServer, toClient>>
        BY <3>6 DEF ExecuteQuery, netVars
      <4> QED BY <2>1, <4>1 DEF Turn, ClientTurn, ChildTurn, Quiet
    <3>7. CASE SendReply(p)
      <4>1. /\ pc[p] = "reply" /\ pc'[p] = "request"
            /\ toClient'[c] \in {"granted", "denied"} /\ UNCHANGED toServer
        BY <3>7 DEF SendReply, Send
      <4> QED BY <2>1, <4>1 DEF Turn, ClientTurn, ChildTurn, Quiet
    <3>8. CASE Killed(p)
      <4>1. pc'[p] = "killed" /\ UNCHANGED <<toServer, toClient>>
        BY <3>8 DEF Killed, netVars
      <4> QED BY <2>1, <4>1 DEF Turn, ClientTurn, ChildTurn
    <3> QED BY <3>1, <3>2, <3>3, <3>4, <3>5, <3>6, <3>7, <3>8 DEF ChildStep
  <2> QED BY <2>2, <2>3
<1> QED BY <1>n, <1>c, <1>t

LEMMA TurnStep ==
  TypeInv /\ AuthInv /\ ConnectionInv /\ TurnInv /\ [Next]_vars => TurnInv'
<1> SUFFICES ASSUME TypeInv, AuthInv, ConnectionInv, TurnInv, [Next]_vars
             PROVE  TurnInv'
  OBVIOUS
<1>1. CASE UNCHANGED vars
  BY <1>1 DEF vars, mainVars, childVars, clientVars, netVars, TurnInv, Turn,
              ClientTurn, MainTurn, ChildTurn, Quiet
<1> QED BY <1>1, ClientTurnStep, MainTurnStep, ChildTurnStep DEF Next

LEMMA TurnInvariant == Spec => []TurnInv
BY TurnInit, TurnStep, SessionInvariant, ConnectionInvariant, PTL DEF Spec

\* The challenge/response, the requests and the replies stay in step: what the
\* server sends is what its client is waiting for.
THEOREM AnswersAreAwaitedTheorem == Spec => []AnswersAreAwaited
<1>1. TypeInv /\ TurnInv => AnswersAreAwaited
  BY DEF TypeInv, TypeOK, ClientTypeOK, TurnInv, Turn, ClientTurn,
         AnswersAreAwaited
<1> QED BY <1>1, TurnInvariant, SessionInvariant, PTL

\* The types, the flags fork() copies, what each session knows of its client,
\* where each connection is and whose turn it is hold together in every
\* behaviour of the server.
THEOREM ServerInvariant == Spec => []ServerInv
<1>1. TypeInv /\ AuthInv /\ ConnectionInv /\ TurnInv => ServerInv
  BY DEF TypeInv, ServerInv
<1> QED BY <1>1, ConnectionInvariant, TurnInvariant, SessionInvariant, PTL

\* A connection is served by one process, whatever accept() and fork() did.
THEOREM OneServerPerConnectionTheorem == Spec => []OneServerPerConnection
<1>1. TypeInv /\ AuthInv /\ ConnectionInv => OneServerPerConnection
  BY DEF ConnectionInv, OneServerPerConnection
<1> QED BY <1>1, ConnectionInvariant, SessionInvariant, PTL

=============================================================================
