-------------------------- MODULE TransportService --------------------------
(***************************************************************************)
(* The server of the repository manager: the listening process of          *)
(* TransportService::startListening, the children it forks, one per        *)
(* accepted connection, and the session each child runs: processMsg        *)
(* (credential, challenge, response, binder file) and then processRequest  *)
(* until the client leaves.                                                *)
(*                                                                         *)
(* fork() copies the whole process.  Every member variable of the service  *)
(* is therefore a function of the process that reads it, and every process *)
(* has its own set of open client sockets.  The one thing the processes    *)
(* share is the binder file rlf_tmp.P in the working directory.            *)
(***************************************************************************)
EXTENDS Naturals, Sequences, FiniteSets

CONSTANTS
  Clients,      \* the clients; a client opens one connection
  Procs,        \* the process slots fork() can fill (no child is waited for)
  Main,         \* the listening process
  NoSocket,     \* the -1 of a failed accept()
  Policy, Nil,  \* lines of the binder file: the server policy, no line
  MAX_CONNECT,  \* the backlog given to listen()
  TIME_OUT,     \* idle time after which the server stops, in clock ticks
  MaxFds,       \* client sockets the listening process may hold open
  MaxRequests,  \* bound: requests a client sends in one session
  NumClauses,   \* clause lines a session writes to the binder file
  FirstMessages,  \* bound: what each client may send as its credential
  Grants        \* <<c, d>>: the policy and d's clauses grant c's request

ASSUME ProcAssumption ==
  /\ Main \notin Procs
  /\ NoSocket \notin Clients
  /\ Policy # Nil /\ {Policy, Nil} \cap Clients = {}
ASSUME BoundAssumption ==
  /\ TIME_OUT \in Nat /\ MaxFds \in Nat /\ MaxRequests \in Nat
  /\ MAX_CONNECT \in Nat \ {0}
  /\ NumClauses \in Nat \ {0}
ASSUME GrantsAssumption == Grants \subseteq Clients \X Clients

Processes == Procs \cup {Main}
Lines     == 0 .. NumClauses
Line      == Clients \cup {Policy, Nil}

\* What a first message is once parsed, walked and verified: not a
\* credential, one whose walk does not end (AstWalker), one with a certificate
\* that fails verifyCredential, one that passes it, and one that passes it and
\* whose own key cannot be read.
Credentials == {"garbage", "endless", "unverified", "verified", "keyless"}

ASSUME FirstMessagesAssumption ==
  FirstMessages \in [Clients -> SUBSET Credentials]

\* The credentials all of whose certificates are good.
Sound(k) == k \in {"verified", "keyless"}

\* What a challenge response is to verifySig.
Responses == {"good", "bad"}

\* Requests as processRequest and generateQuery tell them apart: one the
\* policy may grant, one no certificate speaks of, one without a
\* letter of its operator, one that contains FIN_S, and what is left of one
\* whose END frame has been cut into.
Requests == {"allow", "unlisted", "malformed", "exit", "fragment"}

Messages == Credentials \cup Responses \cup Requests

Live == {"processMsg", "challenge", "auth", "open", "write", "writeGone",
         "request", "query", "reply"}

VARIABLES
  \* the listening process
  mainPc,          \* where startListening is
  clientSocketId,  \* the connection of the current iteration
  socketMsg,       \* its first message, "" when read() gave none
  elapsed,         \* time since Timer t was last asked
  backlog,         \* connections the kernel completed, not yet accepted
  \* member variables, one copy per process
  socketListening, processingRequests, clientAuthenticated, children,
  \* the children
  pc, sock, msg, off, req, answer,
  fds,             \* the client sockets each process has open
  \* the binder file
  file, fileExists,
  compiled,        \* the object XSB last made of it
  \* the clients and what is in flight
  phase, cred, sig, sent, toServer, toClient,
  rest             \* the end of a cut credential is still in the socket

mainVars   == <<mainPc, clientSocketId, socketMsg, elapsed, backlog>>
memberVars == <<socketListening, processingRequests, clientAuthenticated,
                children>>
childVars  == <<pc, sock, msg, off, req, answer>>
fileVars   == <<file, fileExists, compiled>>
clientVars == <<phase, cred, sig, sent>>
netVars    == <<toServer, toClient, rest>>
vars == <<mainVars, memberVars, childVars, fds, fileVars, clientVars, netVars>>

EmptyFile == [i \in Lines |-> Nil]

Init ==
  /\ mainPc = "accept"
  /\ clientSocketId = NoSocket
  /\ socketMsg = ""
  /\ elapsed = 0
  /\ backlog = <<>>
  /\ socketListening = [p \in Processes |-> p = Main]
  /\ processingRequests = [p \in Processes |-> FALSE]
  /\ clientAuthenticated = [p \in Processes |-> FALSE]
  /\ children = [p \in Processes |-> 0]
  /\ pc = [p \in Procs |-> "free"]
  /\ sock = [p \in Procs |-> NoSocket]
  /\ msg = [p \in Procs |-> ""]
  /\ off = [p \in Procs |-> 0]
  /\ req = [p \in Procs |-> "malformed"]
  /\ answer = [p \in Procs |-> FALSE]
  /\ fds = [p \in Processes |-> {}]
  /\ file = EmptyFile
  /\ fileExists = FALSE
  /\ compiled = EmptyFile
  /\ phase = [c \in Clients |-> "idle"]
  /\ cred = [c \in Clients |-> "garbage"]
  /\ sig = [c \in Clients |-> "bad"]
  /\ sent = [c \in Clients |-> 0]
  /\ toServer = [c \in Clients |-> <<>>]
  /\ toClient = [c \in Clients |-> "none"]
  /\ rest = [c \in Clients |-> FALSE]

MainTypeOK ==
  /\ mainPc \in {"accept", "read", "fork", "checkIdle", "exited"}
  /\ clientSocketId \in Clients \cup {NoSocket}
  /\ socketMsg \in Messages \cup {""}
  /\ elapsed \in 0 .. TIME_OUT + 1
  /\ backlog \in Seq(Clients)

MemberTypeOK ==
  /\ socketListening \in [Processes -> BOOLEAN]
  /\ processingRequests \in [Processes -> BOOLEAN]
  /\ clientAuthenticated \in [Processes -> BOOLEAN]
  /\ children \in [Processes -> Nat]

ChildTypeOK ==
  /\ pc \in [Procs -> Live \cup {"free", "exited", "killed"}]
  /\ sock \in [Procs -> Clients \cup {NoSocket}]
  /\ msg \in [Procs -> Messages \cup {""}]
  /\ off \in [Procs -> 0 .. NumClauses + 1]
  /\ req \in [Procs -> Messages]
  /\ answer \in [Procs -> BOOLEAN]
  /\ fds \in [Processes -> SUBSET Clients]

FileTypeOK ==
  /\ file \in [Lines -> Line]
  /\ fileExists \in BOOLEAN
  /\ compiled \in [Lines -> Line]

ClientTypeOK ==
  /\ phase \in [Clients -> {"idle", "connected", "waitChallenge", "ready",
                            "waitReply", "closed"}]
  /\ cred \in [Clients -> Credentials]
  /\ sig \in [Clients -> Responses]
  /\ sent \in [Clients -> 0 .. MaxRequests]
  /\ toServer \in [Clients -> Seq(Messages)]
  /\ toClient \in [Clients -> {"none", "challenge", "granted", "denied"}]
  /\ rest \in [Clients -> BOOLEAN]

TypeOK == MainTypeOK /\ MemberTypeOK /\ ChildTypeOK /\ FileTypeOK /\ ClientTypeOK

-----------------------------------------------------------------------------
(* The clients: the lock-step test client of bin/RepositoryManagerClient.jar *)

\* Every process forked inherits the listening socket and none closes it.
ListenerOpen == mainPc # "exited" \/ \E p \in Procs : pc[p] \in Live

ClientConnect(c) ==
  /\ phase[c] = "idle"
  /\ ListenerOpen
  /\ Len(backlog) < MAX_CONNECT
  /\ backlog' = Append(backlog, c)
  /\ phase' = [phase EXCEPT ![c] = "connected"]
  /\ UNCHANGED <<mainPc, clientSocketId, socketMsg, elapsed, memberVars,
                 childVars, fds, fileVars, cred, sig, sent, netVars>>

ClientSendCredential(c) ==
  /\ phase[c] = "connected"
  /\ \E k \in FirstMessages[c] :
       /\ cred' = [cred EXCEPT ![c] = k]
       /\ toServer' = [toServer EXCEPT ![c] = Append(@, k)]
  /\ phase' = [phase EXCEPT ![c] = "waitChallenge"]
  /\ UNCHANGED <<mainVars, memberVars, childVars, fds, fileVars, sig, sent,
                 toClient, rest>>

\* The client signs the challenge and does not wait for an answer to it.  No
\* signature is good for a key that cannot be read.
ClientSendResponse(c) ==
  /\ phase[c] = "waitChallenge"
  /\ toClient[c] = "challenge"
  /\ \E r \in IF cred[c] = "keyless" THEN {"bad"} ELSE Responses :
       /\ sig' = [sig EXCEPT ![c] = r]
       /\ toServer' = [toServer EXCEPT ![c] = Append(@, r)]
  /\ toClient' = [toClient EXCEPT ![c] = "none"]
  /\ phase' = [phase EXCEPT ![c] = "ready"]
  /\ UNCHANGED <<mainVars, memberVars, childVars, fds, fileVars, cred, sent,
                 rest>>

ClientSendRequest(c) ==
  /\ phase[c] = "ready"
  /\ sent[c] < MaxRequests
  /\ \E r \in Requests \ {"fragment"} :
       toServer' = [toServer EXCEPT ![c] = Append(@, r)]
  /\ sent' = [sent EXCEPT ![c] = @ + 1]
  /\ phase' = [phase EXCEPT ![c] = "waitReply"]
  /\ UNCHANGED <<mainVars, memberVars, childVars, fds, fileVars, cred, sig,
                 toClient, rest>>

ClientReadReply(c) ==
  /\ phase[c] = "waitReply"
  /\ toClient[c] \in {"granted", "denied"}
  /\ toClient' = [toClient EXCEPT ![c] = "none"]
  /\ phase' = [phase EXCEPT ![c] = "ready"]
  /\ UNCHANGED <<mainVars, memberVars, childVars, fds, fileVars, cred, sig,
                 sent, toServer, rest>>

ClientClose(c) ==
  /\ phase[c] \notin {"idle", "closed"}
  /\ phase' = [phase EXCEPT ![c] = "closed"]
  /\ UNCHANGED <<mainVars, memberVars, childVars, fds, fileVars, cred, sig,
                 sent, netVars>>

Client(c) ==
  \/ ClientConnect(c) \/ ClientSendCredential(c) \/ ClientSendResponse(c)
  \/ ClientSendRequest(c) \/ ClientReadReply(c) \/ ClientClose(c)

-----------------------------------------------------------------------------
(* The listening process: TransportService::startListening                 *)

\* accept() returns the oldest completed connection.
Accept ==
  /\ mainPc = "accept" /\ socketListening[Main] /\ ~processingRequests[Main]
  /\ backlog # <<>>
  /\ Cardinality(fds[Main]) < MaxFds
  /\ clientSocketId' = Head(backlog)
  /\ backlog' = Tail(backlog)
  /\ fds' = [fds EXCEPT ![Main] = @ \cup {Head(backlog)}]
  /\ mainPc' = "read"
  /\ UNCHANGED <<socketMsg, elapsed, memberVars, childVars, fileVars,
                 clientVars, netVars>>

\* Mutant: the result of the failed accept() is not stored.
AcceptFailsKeepsSocket ==
  /\ mainPc = "accept" /\ socketListening[Main] /\ ~processingRequests[Main]
  /\ Cardinality(fds[Main]) >= MaxFds
  /\ mainPc' = "read"
  /\ UNCHANGED <<clientSocketId, socketMsg, elapsed, backlog, memberVars,
                 childVars, fds, fileVars, clientVars, netVars>>

\* With the descriptor table full accept() returns -1 at once; -1 passes
\* the test if(clientSocketId).
AcceptFails ==
  /\ mainPc = "accept" /\ socketListening[Main] /\ ~processingRequests[Main]
  /\ Cardinality(fds[Main]) >= MaxFds
  /\ clientSocketId' = NoSocket
  /\ mainPc' = "read"
  /\ UNCHANGED <<socketMsg, elapsed, backlog, memberVars, childVars, fds,
                 fileVars, clientVars, netVars>>

\* Mutant: an end of file is read again.
ReadAgain(c) == FALSE

\* read() returns nothing: the client has gone, and all it sent has been read.
EndOfFile(c) == toServer[c] = <<>> /\ phase[c] = "closed"

\* What one read() of the message m is worth.  The part it returns of one that
\* arrives in two segments may lack nothing the parser needs (the last
\* newline) and otherwise is no credential.
FirstRead(m, cut) == IF cut THEN {m, "garbage"} ELSE {m}

\* read() blocks until the client has sent something or has gone; its error
\* return is kept in numRead and never looked at (the test is on bytesRead).
\* It is called once: what it leaves in the socket is read by whoever reads
\* next, authenticateClient in the child.
ReadFirstMessage ==
  LET c == clientSocketId IN
  /\ mainPc = "read"
  /\ IF c = NoSocket
       THEN socketMsg' = "" /\ UNCHANGED <<toServer, rest>>
       ELSE \/ /\ toServer[c] # <<>>
               /\ \E cut \in BOOLEAN :
                    /\ socketMsg' \in FirstRead(Head(toServer[c]), cut)
                    /\ rest' = [rest EXCEPT ![c] = cut]
               /\ toServer' = [toServer EXCEPT ![c] = Tail(@)]
            \/ /\ EndOfFile(c)
               /\ socketMsg' = ""
               /\ UNCHANGED <<toServer, rest>>
  /\ mainPc' = "fork"
  /\ UNCHANGED <<clientSocketId, elapsed, backlog, memberVars, childVars, fds,
                 fileVars, clientVars, toClient>>

\* Mutant: children++ is left to the parent.
CountInParent(p) == children' = [children EXCEPT ![Main] = @ + 1]

\* children++ is a statement of the child, on its own copy.
CountChild(p) == children' = [children EXCEPT ![p] = children[Main] + 1]

\* fork(): the child p starts with a copy of everything the parent has.
Fork(p) ==
  /\ mainPc = "fork"
  /\ pc[p] = "free"
  /\ pc' = [pc EXCEPT ![p] = "processMsg"]
  /\ sock' = [sock EXCEPT ![p] = clientSocketId]
  /\ msg' = [msg EXCEPT ![p] = socketMsg]
  /\ fds' = [fds EXCEPT ![p] = fds[Main]]
  /\ socketListening' = [socketListening EXCEPT ![p] = socketListening[Main]]
  /\ processingRequests' =
       [processingRequests EXCEPT ![p] = processingRequests[Main]]
  /\ clientAuthenticated' =
       [clientAuthenticated EXCEPT ![p] = clientAuthenticated[Main]]
  /\ CountChild(p)
  /\ socketMsg' = ""
  /\ mainPc' = "checkIdle"
  /\ UNCHANGED <<clientSocketId, elapsed, backlog, off, req, answer, fileVars,
                 clientVars, netVars>>

\* No process slot is left: the children that ended are never waited for.
ForkFails ==
  /\ mainPc = "fork"
  /\ \A p \in Procs : pc[p] # "free"
  /\ socketMsg' = ""
  /\ mainPc' = "checkIdle"
  /\ UNCHANGED <<clientSocketId, elapsed, backlog, memberVars, childVars, fds,
                 fileVars, clientVars, netVars>>

\* getElapsedSecs() restarts the measurement each time it is asked.
CheckIdle ==
  /\ mainPc = "checkIdle"
  /\ IF children[Main] = 0
       THEN /\ socketListening' =
                 [socketListening EXCEPT ![Main] = elapsed <= TIME_OUT]
            /\ elapsed' = 0
       ELSE UNCHANGED <<socketListening, elapsed>>
  /\ mainPc' = "accept"
  /\ UNCHANGED <<clientSocketId, socketMsg, backlog, processingRequests,
                 clientAuthenticated, children, childVars, fds, fileVars,
                 clientVars, netVars>>

\* startListening returns, ~TransportService removes the binder file and the
\* process ends.  A child that has the file open keeps writing to the
\* unlinked file.
MainExit ==
  /\ mainPc = "accept" /\ ~socketListening[Main]
  /\ mainPc' = "exited"
  /\ clientSocketId' = NoSocket
  /\ fds' = [fds EXCEPT ![Main] = {}]
  /\ fileExists' = FALSE
  /\ file' = EmptyFile
  /\ UNCHANGED compiled
  /\ pc' = [p \in Procs |-> IF pc[p] = "write" THEN "writeGone" ELSE pc[p]]
  /\ UNCHANGED <<socketMsg, elapsed, backlog, memberVars,
                 sock, msg, off, req, answer, clientVars, netVars>>

\* Time passes while startListening is blocked, counted up to the first tick
\* past TIME_OUT.
Tick ==
  /\ mainPc \in {"accept", "read"} /\ socketListening[Main]
  /\ elapsed <= TIME_OUT
  /\ elapsed' = elapsed + 1
  /\ UNCHANGED <<mainPc, clientSocketId, socketMsg, backlog, memberVars,
                 childVars, fds, fileVars, clientVars, netVars>>

MainStep ==
  \/ Accept \/ AcceptFails \/ ReadFirstMessage \/ (\E p \in Procs : Fork(p))
  \/ ForkFails \/ CheckIdle \/ MainExit

-----------------------------------------------------------------------------
(* A child's session: processMsg                                           *)

\* A message the child could not use: its connection is closed, in the child.
CloseSocket(p) == fds' = [fds EXCEPT ![p] = @ \ {sock[p]}]

\* Mutant: the result of verifyCredential is not tested.
Unverified(m) == m \in {"verified", "unverified", "keyless"}

Verified(m) == m \in {"verified", "keyless"}

\* The first message is parsed and its certificates are verified.  An empty
\* message leaves the socket open; the result of processMsg is not looked at.
\* The child stays in a walk that does not end.
ProcessMsg(p) ==
  /\ pc[p] = "processMsg" /\ msg[p] # "endless"
  /\ IF Verified(msg[p])
       THEN pc' = [pc EXCEPT ![p] = "challenge"] /\ UNCHANGED fds
       ELSE /\ pc' = [pc EXCEPT ![p] = "request"]
            /\ IF msg[p] = "" THEN UNCHANGED fds ELSE CloseSocket(p)
  /\ UNCHANGED <<mainVars, memberVars, sock, msg, off, req, answer, fileVars,
                 clientVars, netVars>>

\* A write to a client that has gone is lost.
Send(p, m) ==
  toClient' = IF phase[sock[p]] = "closed" THEN toClient
                                           ELSE [toClient EXCEPT ![sock[p]] = m]

SendChallenge(p) ==
  /\ pc[p] = "challenge"
  /\ Send(p, "challenge")
  /\ pc' = [pc EXCEPT ![p] = "auth"]
  /\ UNCHANGED <<mainVars, memberVars, sock, msg, off, req, answer, fds,
                 fileVars, clientVars, toServer, rest>>

\* What the 128-byte reads that look for END_RESPONSE_S may leave of a
\* request queued behind the response: without its beginning it may read as
\* another one, a shorter operation the policy grants included.
Leftovers(r) ==
  {<<r>>, <<>>, <<"malformed">>, <<"fragment">>}
    \cup (IF r = "malformed" THEN {} ELSE {<<"unlisted">>, <<"allow">>})

\* Mutant: the response is looked at and stays in the socket's buffer.
PeekResponse(c) == UNCHANGED toServer

TakeResponse(c) ==
  LET q == toServer[c] IN
  toServer' \in {[toServer EXCEPT ![c] = l] :
                   l \in IF Len(q) > 1 THEN Leftovers(q[2]) ELSE {<<>>}}

\* Mutant: the result of authenticateClient is not tested.
AuthenticateAny(p, c) == {TRUE}

\* verifySig of what authenticateClient has read: the empty message of a
\* client that has gone fails, a key that cannot be read leaves the result
\* true whatever else was read, and the end of a cut credential in front of
\* the response may spoil the signature.
AuthenticateClient(p, c) ==
  IF toServer[c] = <<>> /\ ~rest[c] THEN {FALSE}
  ELSE IF msg[p] = "keyless" THEN {TRUE}
  ELSE IF toServer[c] = <<>> \/ Head(toServer[c]) # "good" THEN {FALSE}
  ELSE IF rest[c] THEN BOOLEAN ELSE {TRUE}

\* authenticateClient() and the test of its result.
ReadResponse(p) ==
  LET c == sock[p] IN
  /\ pc[p] = "auth"
  /\ IF toServer[c] = <<>> THEN EndOfFile(c) /\ UNCHANGED toServer
                           ELSE TakeResponse(c)
  /\ rest' = [rest EXCEPT ![c] = FALSE]
  /\ \E yes \in AuthenticateClient(p, c) :
       /\ clientAuthenticated' = [clientAuthenticated EXCEPT ![p] = yes]
       /\ IF yes
            THEN pc' = [pc EXCEPT ![p] = "open"] /\ UNCHANGED fds
            ELSE pc' = [pc EXCEPT ![p] = "request"] /\ CloseSocket(p)
  /\ UNCHANGED <<mainVars, socketListening, processingRequests, children, sock,
                 msg, off, req, answer, fileVars, clientVars, toClient>>

\* ofstream::open truncates the file another session may be using.
OpenBinderFile(p) ==
  /\ pc[p] = "open"
  /\ file' = EmptyFile
  /\ fileExists' = TRUE
  /\ off' = [off EXCEPT ![p] = 0]
  /\ pc' = [pc EXCEPT ![p] = "write"]
  /\ UNCHANGED <<mainVars, memberVars, sock, msg, req, answer, fds, compiled,
                 clientVars, netVars>>

\* The file cannot be opened: the connection stays open, with no requests
\* to be processed on it.
OpenBinderFails(p) ==
  /\ pc[p] = "open"
  /\ pc' = [pc EXCEPT ![p] = "request"]
  /\ UNCHANGED <<mainVars, memberVars, sock, msg, off, req, answer, fds,
                 fileVars, clientVars, netVars>>

\* Mutant: processingRequests is shared by all processes.
ServeEverywhere(p) == processingRequests' = [q \in Processes |-> TRUE]

ServeRequests(p) ==
  processingRequests' = [processingRequests EXCEPT ![p] = TRUE]

\* One line, flushed by endl, at the writer's own offset; after the last one
\* writeBinderFile returns true.
WriteLine(p) ==
  /\ pc[p] \in {"write", "writeGone"}
  /\ file' = IF pc[p] = "write"
               THEN [file EXCEPT ![off[p]] = IF off[p] = 0 THEN Policy
                                                           ELSE sock[p]]
               ELSE file
  /\ off' = [off EXCEPT ![p] = @ + 1]
  /\ IF off[p] = NumClauses
       THEN /\ ServeRequests(p)
            /\ pc' = [pc EXCEPT ![p] = "request"]
       ELSE UNCHANGED <<processingRequests, pc>>
  /\ UNCHANGED <<mainVars, socketListening, clientAuthenticated, children, sock,
                 msg, req, answer, fds, fileExists, compiled, clientVars,
                 netVars>>

-----------------------------------------------------------------------------
(* A child's session: while(processRequest())                              *)

\* The process ends, and its memory and its descriptors with it.
Release(p) ==
  /\ fds' = [fds EXCEPT ![p] = {}]
  /\ clientAuthenticated' = [clientAuthenticated EXCEPT ![p] = FALSE]
  /\ processingRequests' = [processingRequests EXCEPT ![p] = FALSE]
  /\ socketListening' = [socketListening EXCEPT ![p] = FALSE]
  /\ msg' = [msg EXCEPT ![p] = ""]
  /\ off' = [off EXCEPT ![p] = 0]
  /\ req' = [req EXCEPT ![p] = "malformed"]
  /\ answer' = [answer EXCEPT ![p] = FALSE]

\* processRequest returned false: children--; exit(0).
Stop(p) ==
  /\ Release(p)
  /\ children' = [children EXCEPT ![p] = @ - 1]
  /\ pc' = [pc EXCEPT ![p] = "exited"]

\* A request that generateQuery accepts goes to XSB, another is denied.
Dispatch(p, r) ==
  /\ req' = [req EXCEPT ![p] = r]
  /\ IF r \in {"malformed", "fragment"}
       THEN /\ answer' = [answer EXCEPT ![p] = FALSE]
            /\ pc' = [pc EXCEPT ![p] = "reply"]
       ELSE pc' = [pc EXCEPT ![p] = "query"] /\ UNCHANGED answer
  /\ UNCHANGED <<memberVars, fds, msg, off>>

\* The reads of processRequest fail on a socket this child has closed and
\* otherwise end with the END frame, or when the client has gone.
ReadRequest(p) ==
  LET c == sock[p] IN
  /\ pc[p] = "request"
  /\ \/ /\ c \notin fds[p]
        /\ Stop(p)
        /\ UNCHANGED toServer
     \/ /\ c \in fds[p] /\ EndOfFile(c)
        /\ Stop(p)
        /\ UNCHANGED toServer
     \/ /\ c \in fds[p] /\ toServer[c] # <<>>
        /\ Head(toServer[c]) = "fragment" => phase[c] = "closed"
        /\ toServer' = [toServer EXCEPT ![c] = Tail(@)]
        /\ IF Head(toServer[c]) = "exit" \/ ~processingRequests[p]
             THEN Stop(p)
             ELSE Dispatch(p, Head(toServer[c]))
  /\ UNCHANGED <<mainVars, sock, fileVars, clientVars, toClient, rest>>

\* What the policy and the clause lines of f say of c's request.
FileGrants(f, c) ==
  /\ f[0] = Policy
  /\ \E i \in 1 .. NumClauses : <<c, f[i]>> \in Grants

\* executeQuery: XSB compiles rlf_tmp.P when it is there, and otherwise
\* loads the object it made of it before.  Where the thread or XSB cannot be
\* started the answer is no.
ExecuteQuery(p) ==
  LET loaded == IF fileExists THEN file ELSE compiled IN
  /\ pc[p] = "query"
  /\ \/ /\ compiled' = loaded
        /\ answer' = [answer EXCEPT ![p] = req[p] = "allow"
                                            /\ FileGrants(loaded, sock[p])]
     \/ /\ UNCHANGED compiled
        /\ answer' = [answer EXCEPT ![p] = FALSE]
  /\ pc' = [pc EXCEPT ![p] = "reply"]
  /\ UNCHANGED <<mainVars, memberVars, sock, msg, off, req, fds, file,
                 fileExists, clientVars, netVars>>

\* The reply is written and the locals of processRequest are gone.
SendReply(p) ==
  /\ pc[p] = "reply"
  /\ Send(p, IF answer[p] THEN "granted" ELSE "denied")
  /\ pc' = [pc EXCEPT ![p] = "request"]
  /\ req' = [req EXCEPT ![p] = "malformed"]
  /\ answer' = [answer EXCEPT ![p] = FALSE]
  /\ UNCHANGED <<mainVars, memberVars, sock, msg, off, fds, fileVars, clientVars,
                 toServer, rest>>

\* The process is killed: by pthread_kill(SIGKILL) while its query thread
\* runs, or by SIGPIPE when it writes to a client that has gone.
Killed(p) ==
  /\ \/ pc[p] = "query"
     \/ pc[p] \in {"challenge", "reply"} /\ phase[sock[p]] = "closed"
  /\ Release(p)
  /\ pc' = [pc EXCEPT ![p] = "killed"]
  /\ children' = [children EXCEPT ![p] = 0]
  /\ UNCHANGED <<mainVars, sock, fileVars, clientVars, netVars>>

ChildStep(p) ==
  \/ ProcessMsg(p) \/ SendChallenge(p) \/ ReadResponse(p)
  \/ OpenBinderFile(p) \/ OpenBinderFails(p) \/ WriteLine(p)
  \/ ReadRequest(p) \/ ExecuteQuery(p) \/ SendReply(p) \/ Killed(p)

-----------------------------------------------------------------------------
Next ==
  \/ \E c \in Clients : Client(c)
  \/ MainStep
  \/ Tick
  \/ \E p \in Procs : ChildStep(p)

Spec == Init /\ [][Next]_vars

\* Every process is scheduled.  Nothing is asked of the clients.
Fairness ==
  /\ WF_vars(MainStep)
  /\ \A p \in Procs : WF_vars(ChildStep(p))

FairSpec == Spec /\ Fairness

-----------------------------------------------------------------------------
(* Properties                                                              *)

\* The client has shown all that the code asks for: good certificates, and a
\* good signature of the challenge unless its own key cannot be read.
Authenticated(c) ==
  cred[c] = "keyless" \/ (cred[c] = "verified" /\ sig[c] = "good")

\* "granted" is only ever sent to a client whose credential was verified and
\* whose challenge response was accepted, and only on the strength of clauses
\* that an authenticated client's credential brought: processMsg's nested tests
\* guard the whole of processRequest, in every process.
GrantJustified ==
  \A c \in Clients :
    toClient[c] = "granted" =>
      /\ Authenticated(c)
      /\ \E d \in Clients : Authenticated(d) /\ <<c, d>> \in Grants

\* Clauses of a credential that failed verification or authentication never
\* get into the binder file or into what XSB compiled from it, although every
\* session rewrites the one file (writeBinderFile, executeQuery).
OnlyAuthenticatedClauses ==
  \A i \in Lines : \A c \in Clients :
    (file[i] = c \/ compiled[i] = c) => Authenticated(c)

\* A challenge or a reply in flight is one its client is waiting for: the
\* challenge/response, the requests and the replies stay in step although the
\* client sends its first request without an answer to the response, and reads
\* may run into it (authenticateClient, processRequest).
AnswersAreAwaited ==
  \A c \in Clients :
    /\ toClient[c] = "challenge" => phase[c] \in {"waitChallenge", "closed"}
    /\ toClient[c] \in {"granted", "denied"} =>
         phase[c] \in {"waitReply", "closed"}

\* A connection is served by one process: no two children run on the same
\* socket, and none runs on the one startListening is about to read from,
\* whatever accept() and fork() failed before.
OneServerPerConnection ==
  \A p \in Procs : pc[p] \in Live /\ sock[p] \in Clients =>
    /\ \A q \in Procs : sock[q] = sock[p] => q = p
    /\ mainPc \in {"read", "fork"} => clientSocketId # sock[p]
    /\ \A i \in 1 .. Len(backlog) : backlog[i] # sock[p]

\* What the children do to processingRequests and children never reaches the
\* listening process, so its branch if(processingRequests) never runs and its
\* idle test always finds children == 0 (fork copies, startListening).
MainNeverServes ==
  /\ ~processingRequests[Main] /\ ~clientAuthenticated[Main]
  /\ children[Main] = 0

-----------------------------------------------------------------------------
(* The inductive invariant: the parts the properties above rest on         *)

\* The flags fork() copies, and the counters that type correctness needs.
CountInv ==
  /\ MainNeverServes
  /\ \A p \in Procs :
       /\ pc[p] \in Live => children[p] = 1
       /\ pc[p] \in {"write", "writeGone"} => off[p] \in Lines

\* A credential or a response is what it is only once it has been sent.
ClientInv ==
  \A c \in Clients :
    /\ phase[c] \in {"idle", "connected"} => cred[c] = "garbage"
    /\ phase[c] \in {"idle", "connected", "waitChallenge"} => sig[c] = "bad"
    /\ \A i \in 1 .. Len(toServer[c]) :
         /\ Sound(toServer[c][i]) => cred[c] = toServer[c][i]
         /\ toServer[c][i] = "good" => sig[c] = "good"

\* What a child knows of its client at each point of its session.
ChildSession(p) ==
  /\ pc[p] = "processMsg" /\ Sound(msg[p]) =>
       sock[p] \in Clients /\ cred[sock[p]] = msg[p]
  /\ pc[p] \in {"challenge", "auth"} =>
       sock[p] \in Clients /\ Sound(msg[p]) /\ cred[sock[p]] = msg[p]
  /\ pc[p] \in {"open", "write", "writeGone"} =>
       sock[p] \in Clients /\ Authenticated(sock[p])
  /\ processingRequests[p] => sock[p] \in Clients /\ Authenticated(sock[p])
  /\ pc[p] \in {"query", "reply"} => processingRequests[p]
  /\ pc[p] = "reply" /\ answer[p] =>
       \E d \in Clients : Authenticated(d) /\ <<sock[p], d>> \in Grants

SessionInv ==
  /\ mainPc = "fork" /\ Sound(socketMsg) =>
       clientSocketId \in Clients /\ cred[clientSocketId] = socketMsg
  /\ \A p \in Procs : ChildSession(p)

AuthInv ==
  ClientInv /\ SessionInv /\ OnlyAuthenticatedClauses /\ GrantJustified

\* Where a connection is: not made, in the backlog, at the listening process,
\* or with one child.
ConnectionInv ==
  /\ \A i, j \in 1 .. Len(backlog) : backlog[i] = backlog[j] => i = j
  /\ \A i \in 1 .. Len(backlog) :
       /\ backlog[i] # clientSocketId
       /\ \A p \in Procs : backlog[i] # sock[p]
  /\ \A p, q \in Procs : sock[p] = sock[q] /\ sock[p] \in Clients => p = q
  /\ mainPc \in {"read", "fork"} /\ clientSocketId \in Clients =>
       \A p \in Procs : sock[p] # clientSocketId
  /\ \A c \in Clients : phase[c] = "idle" =>
       /\ clientSocketId # c
       /\ \A i \in 1 .. Len(backlog) : backlog[i] # c
       /\ \A p \in Procs : sock[p] # c

\* Nothing is in flight on a connection.
Quiet(c) == toServer[c] = <<>> /\ toClient[c] = "none"

\* What may be in flight while the client is at each point of its session.
ClientTurn(c) ==
  /\ phase[c] \in {"idle", "connected"} => toServer[c] = <<>>
  /\ phase[c] = "waitChallenge" => Len(toServer[c]) <= 1
  /\ phase[c] \in {"idle", "connected", "ready"} => toClient[c] = "none"
  /\ phase[c] = "waitChallenge" => toClient[c] \in {"none", "challenge"}
  /\ phase[c] = "waitReply" => toClient[c] # "challenge"

\* Up to fork(), the client has at most sent its credential.
MainTurn(c) ==
  /\ (\/ \E i \in 1 .. Len(backlog) : backlog[i] = c
      \/ mainPc = "read" /\ clientSocketId = c) =>
       phase[c] \in {"connected", "waitChallenge"} /\ toClient[c] = "none"
  /\ mainPc = "fork" /\ clientSocketId = c =>
       phase[c] = "waitChallenge" /\ Quiet(c)

\* What may be in flight between the child p and the client c.
ChildTurn(p, c) ==
  /\ phase[c] \notin {"idle", "connected"}
  /\ pc[p] \in {"processMsg", "challenge"} =>
       phase[c] = "waitChallenge" /\ Quiet(c)
  /\ pc[p] = "auth" =>
       /\ phase[c] = "waitChallenge" => toServer[c] = <<>>
       /\ phase[c] = "ready" => Len(toServer[c]) <= 1
       /\ phase[c] = "waitReply" =>
            Len(toServer[c]) <= 2 /\ toClient[c] = "none"
  /\ pc[p] \in {"open", "write", "writeGone", "request"} =>
       /\ phase[c] = "waitChallenge" => Quiet(c)
       /\ toServer[c] # <<>> =>
            /\ phase[c] = "waitReply" /\ toClient[c] = "none"
            /\ Len(toServer[c]) <= 1
  /\ pc[p] \in {"query", "reply"} => phase[c] = "waitReply" /\ Quiet(c)

\* Client and server take turns, as long as the client is there.
Turn(c) ==
  /\ ClientTurn(c)
  /\ phase[c] # "closed" =>
       MainTurn(c) /\ \A p \in Procs : sock[p] = c => ChildTurn(p, c)

TurnInv == \A c \in Clients : Turn(c)

ServerInv == TypeOK /\ CountInv /\ AuthInv /\ ConnectionInv /\ TurnInv

-----------------------------------------------------------------------------
(* What a step may not do, and what must happen                            *)

\* The child is in a walk that does not end.
Walking(p) == pc[p] = "processMsg" /\ msg[p] = "endless"

\* A child whose client has gone ends, unless it is in an endless walk: every
\* read it can be blocked in sees the end of the connection, and an empty read
\* leaves while(processRequest()).
OrphanEnds ==
  \A p \in Procs : \A c \in Clients :
    (pc[p] \in Live /\ ~Walking(p) /\ sock[p] = c /\ phase[c] = "closed")
      ~> pc[p] \in {"exited", "killed"}

\* startListening waits in read() for a client that sends nothing and stays.
HeldUp ==
  /\ mainPc = "read" /\ clientSocketId \in Clients
  /\ phase[clientSocketId] = "connected"

\* While descriptors last, a completed connection is accepted, or the server
\* stops, or one client holds it up for good by staying silent: that is the
\* only way in which one client can keep the others waiting, whatever its
\* child is doing (startListening reads each first message itself).
BacklogDrains ==
  \A c \in Clients :
    (\E i \in 1 .. Len(backlog) : backlog[i] = c)
      ~> \/ \A i \in 1 .. Len(backlog) : backlog[i] # c
         \/ mainPc = "exited"
         \/ []HeldUp

\* "request from the client are processed and corresponding replies are sent"
\* (RepositoryManager.cpp:15): a client that waits for the answer to a request
\* while a child processes its requests gets one, unless the child ends.
RequestsGetReplies ==
  \A p \in Procs : \A c \in Clients :
    (processingRequests[p] /\ sock[p] = c /\ phase[c] = "waitReply")
      ~> \/ toClient[c] \in {"granted", "denied"}
         \/ phase[c] = "closed"
         \/ pc[p] \in {"exited", "killed"}

\* "The server will close connections and exit if the client enters "exit" as
\* a request" (README.md): once such a request has reached the child that
\* processes the client's requests, no process keeps the connection open.
ExitClosesConnection ==
  \A p \in Procs : \A c \in Clients :
    (/\ pc[p] = "request" /\ processingRequests[p] /\ sock[p] = c
     /\ toServer[c] = <<"exit">>)
      ~> (phase[c] = "closed" \/ \A q \in Processes : c \notin fds[q])

\* README.md on writeBinderFile: the temporary file holds "the server policy
\* and any transformed clauses that are loaded into XSB prior to executing
\* query requests": a granted request is one the client's own credential
\* supports.
AnswersOwnCredential ==
  \A p \in Procs : pc[p] = "reply" /\ answer[p] => <<sock[p], sock[p]>> \in Grants

\* "Authenticates a client by generating a challenge message to be signed by
\* the client using its private key" (TransportService.h:183): a child
\* processes the requests of a client that has signed its challenge.
ChallengeIsSigned ==
  \A p \in Procs : processingRequests[p] => sig[sock[p]] = "good"

=============================================================================
