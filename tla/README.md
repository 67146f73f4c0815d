# A TLA+ verification of the repository manager

The repository manager is an authorization server. A client connects over TCP and
sends a credential (a public key and signed certificates). The server verifies
the certificates, has the client sign a challenge, writes its policy and the
client's certificates, transformed into Binder clauses, to a Prolog file, and then
answers requests by running XSB on that file. Every connection is served by a
process forked for it.

The specifications here model the server from its source (`src/src/manager`,
`src/src/utils`); TLC checks them on small instances and TLAPS proves the main
safety properties for all instances.

## 1. Inventory

| Component | State | Operations | Interacts through |
|---|---|---|---|
| `TransportService` (`manager/TransportService.h`) | listening socket, current client socket, `socketMsg`, flags `socketListening`, `processingRequests`, `clientAuthenticated`, counter `children` | `startListening`, `processMsg`, `authenticateClient`, `processRequest`, destructor | `fork()` copies all of it; sockets; the binder file |
| `SecurityService` (`utils/SecurityService.h`) | policy, current credential, static flag `qStats`, `mutex` | `verifyCredential`, `verifySig`, `generateQuery`, `transformClause`, `writeBinderFile`, `executeQuery`, thread `executeQueryProc` | `rlf_tmp.P`, the query thread, XSB as a child process, `SIGKILL` |
| Binder file `rlf_tmp.P` | its lines; the object XSB compiles from it | open (truncates), write a line, remove, load | shared by all processes through the working directory |
| `Timer` (`utils/Timer.h`) | start, end and current time, offset, `started`, `stopped` | `start`, `stop`, `resume`, `reset`, `getElapsed*`, `getDuration*` | idle test of `startListening`, poll of `executeQuery` |
| `AstWalker` (`manager/AstWalker.h`) | the tree, an index | `getCredential`, `makeCredential`, `makeCertificate`, `getClauseStr` | called by `processMsg` |
| `Certificate`, `Credential`, `Policy`, `Rule` | strings and vectors of strings | setters, getters, splitting into atoms and clauses | data of the above |
| `RepositoryManagerUtils` | constants | `trim`, `getUTCTimeSec` | - |
| `Mutex` | a lock | `lock`, `unlock` | held by `executeQuery` while it polls |
| `FifoQueue` | a linked list and a lock | `enqueue`, `dequeue` | included by no file of the program |
| lexer and parser, ANTLR runtime, XSB | - | generated and third-party code | - |
| test client (`bin/RepositoryManagerClient.jar`) | - | connect, credential, response, requests | the sockets |

What is hard in this code:

- **Everything is copied by `fork()`.** The flags and the counter look like the
  server's state and are, after the fork, each process's own. The listening
  process keeps every accepted descriptor open and waits for no child.
- **One binder file for all sessions.** It is truncated, written line by line, loaded
  and removed by processes that know nothing of each other.
- **The message framing.** The first message is one `read()`; the response and the
  requests are read in pieces until an END line is seen, and what is behind that
  line is dropped with the buffer. The client does not wait between its response and its
  first request.
- **The query timeout.** The caller polls a flag that is not locked, for one second of a
  clock that can be set, and then sends `SIGKILL` to a thread, which means the process.
- **State passed on through one object.** The key that says a clause reaches
  `transformClause` through the policy, which all certificates of a credential share, and
  the loop over them goes on behind a bad one.
- **Clients that leave, or are silent**, while the listening process or a child is
  blocked in a `read()`.
- **Searches in text.** The walk over the parse tree compares words with labels, and
  `transformClause` and `generateQuery` look for `:-`, `),`, a head or a mark in a string:
  they find these wherever the text has them, meant or not, and requests are not parsed at all.

What makes the parts correct: only authenticated clients are granted anything, and only on
the strength of verified clauses; a connection is served by exactly one process;
the challenge, responses, requests and replies stay in step; the listening process gets
to every connection unless a silent client holds it up, and every child ends when its client has gone; a query returns the
answer to that query; the binder file holds exactly the verified clauses, each said by the
key that signed it; a request becomes one query and nothing else. `PROJECT.json` lists the hazards, each at its line, with the
properties that would catch it.

## 2. Modules

| Module | What it is |
|---|---|
| `TransportService` | the listening process, the children, the clients, the binder file; its properties and inductive invariant |
| `MCTransportService` | clients and grants for TLC |
| `TransportServiceProofs` | theorems about `TransportService` |
| `QueryThread` | `executeQuery` and its thread |
| `QueryAnswer` | abstract specification: what a caller of `executeQuery` may rely on |
| `QueryThreadProofs` | theorems about `QueryThread`, including the refinement |
| `Timer` | the class `Timer`: a timer as a record, its operations as functions of the clock; `QueryThread` extends it |
| `MessageReads` | the read loops of a session, byte by byte |
| `MessageReadsProofs` | theorems about `MessageReads` |
| `AstWalker` | the walk that builds a credential from the parse tree |
| `FlattenProofs` | induction over the naturals and over sequences, and what `FlattenSeq` does with the parts of a list |
| `AstWalkerProofs` | theorems about `AstWalker` |
| `MCAstWalker` | words, keys and clauses for TLC |
| `Verification` | extends `AstWalker`: from the walked credential to the binder file and the query |
| `VerificationProofs` | theorems about `Verification` |
| `GenerateQueryProofs` | theorems about the argument loop of `generateQuery` and the query it makes |
| `MCVerification` | clauses, times, digests and messages for TLC; `transformClause` evaluated for all clauses |

How they hang together: `Verification` is the inside of one session's `processMsg` and of
its `generateQuery`; `MessageReads` the inside of the session's reads; `QueryThread` the inside of its
`executeQuery`. `TransportService` has many sessions, and of each of these parts the outcomes: a
credential is verified or not, `Leftovers` of a response, an answer or a killed process.

### TransportService

The state has one variable per member of the class, as a function of the process:
`socketListening`, `processingRequests`, `clientAuthenticated`, `children` over
`Processes` (the listening process `Main` and the slots `Procs` that `fork()` may
fill), and `fds`, the client sockets each process has open. `mainPc` is the control
state of `startListening` and `pc[p]` that of a child. The actions follow the system
calls, since these are the points at which processes interleave:

| Action | Code |
|---|---|
| `Accept`, `AcceptFails` | `accept()`; with the descriptor table full it returns -1, which is not 0 and is used |
| `ReadFirstMessage` | the one `read()` of `startListening`, blocking; end of file or an error gives the empty message; a credential may be cut, and its end then stays in the socket (`rest`) for `authenticateClient` to read |
| `Fork`, `ForkFails` | the child starts with copies of all variables and `children + 1`; the parent clears `socketMsg` |
| `CheckIdle` | the test of `children` and `getElapsedSecs()`, which restarts the measurement |
| `MainExit` | `startListening` returns, the destructor removes the file, the process ends |
| `ProcessMsg` | `processMsg` up to the result of `verifyCredential` |
| `SendChallenge`, `ReadResponse` | `authenticateClient`: the write, the reads, `verifySig` (which says yes to anything if the key cannot be read), and the test of the result in `processMsg` |
| `OpenBinderFile`, `OpenBinderFails`, `WriteLine` | `writeBinderFile`; after the last line `processingRequests` is set |
| `ReadRequest` | the reads of `processRequest` and its tests for `exit` and the empty request; `Stop` is its else branch with the `exit(0)` that follows |
| `ExecuteQuery` | `executeQuery` as `QueryThread` shows it to behave: an answer, or no (nothing could be started); the third outcome is `Killed` |
| `SendReply` | the `write()` of the reply |
| `Killed` | `SIGKILL` from the query timeout, or `SIGPIPE` on a write to a client that has gone |
| `Client...` | the test client, external: it sends a credential, signs the challenge, sends a request at a time and waits for the reply, and may leave at any moment |
| `Tick` | time, seen through `Timer` by the idle test |

Abstractions, and why they are harmless:

- A credential is what parsing, the walk and the verification make of it: `garbage`, `endless` (its walk does not end, see
  `AstWalker`; its child stays there), `unverified`, `verified`, or `keyless` (verified, and its own key
  cannot be read). `FirstMessages` bounds which of them each client may send. A response is what `verifySig` makes of it, a request what
  `processRequest` and `generateQuery` tell apart.
- What the first `read()` leaves of a credential is one flag, `rest`. If the part that was read is no credential the child
  closes its socket and nobody reads the rest; if it is one (only the last newline is missing, say), the rest comes in front of the response,
  may spoil it, and is itself taken for the response of a client that sends none.
- The binder file has a policy line and `NumClauses` clause lines; a clause line is
  the client whose credential it came from. `Grants` says which clauses grant whose
  request. XSB loads the file in one step.
- The coalescing of a response with the request behind it is `Leftovers`: the request
  whole, gone, or without its beginning (which may leave another request, one the policy
  grants included, something `generateQuery` does not accept, or something without its END frame).
- The branch `if(processingRequests)` of `startListening` (lines 338-352) is not
  modelled; `MainNeverServes` shows that it cannot run.
- `clients` and `clientMap` are written and never read. The memory of a process is set to
  its initial values when it ends, which keeps the state space small.
- The working directory holds no `rlf_tmp.P` and no compiled object at the start.
- Time passes only while `startListening` is blocked, up to the first tick past
  `TIME_OUT`.

### QueryThread

`mpc` and `wpc` are the program counters of the caller and of the thread, `qStats` the
flag they share, `said` what XSB printed. `Kill` follows POSIX: `SIGKILL` sent to a
live thread ends the process, and sent to a detached thread that has ended it does
nothing or crashes. `Answer` models `substr(pos - 3, 3)`, which throws where there are
not three characters before the newline. `QueryAnswer` says what is left of this for the
caller: a call returns what XSB said of this query, or the process is gone.

The poll measures with a `Timer`: it adds up what `getElapsedSecs()` returns until a second
is full. The clock behind it is `CLOCK_REALTIME`, which somebody may set while the poll runs
(`SetClock`, once per poll, by at most `MaxStep` in either direction). A time is a `tulong`; the
model's clock is a ring of `W` ticks and `Minus` is the unsigned difference, so a clock set back shows as an
enormous elapsed time, as in the code. Only differences are ever used, so the ring may stand for any stretch of
real clock values; `PollAssumption` keeps a poll shorter than the ring. `waited` is the time that really passed and
`wasSet` whether the clock was set, both only for the properties. The code turns nanoseconds into a `double`
and back, which rounds them to some hundred nanoseconds; a tick is longer than that.

### MessageReads

A session reads the response and then each request in a loop of its own, in pieces of at most `MAX_READ` bytes, into
a zeroed buffer of `MAX_BUFF + 1`, until `strstr` finds the END line, the read fails or the buffer is nearly full.
The stream is two numbers, the bytes the client has written and those the server has read; `ends` are the positions
at which the END lines of requests end, and the response ends at `respLen`. `ReadPiece` is one iteration of either
loop: any number of the bytes that are there, 0 or -1 once the client has gone. `Authenticate` and `Dispatch` are what
follows the loops; each begins a new buffer, and what was read behind an END line is gone with the old one.
Messages may be longer than the buffer: `Fits` says which are not, and the history variable `fits` whether all written so far were. A longer request is
cut there and its rest is answered as a request of its own. `Authenticate` may accept whatever was read of a response, a cut one
included: it may lack nothing but its END line, and every response passes if the key cannot be read. In front of a response there may be the rest of a cut
credential; `ResponseLens` is the length of both.

### AstWalker

The parser puts the parts of a credential into one flat list of nodes; `Nodes` is that list, taken from the rewrite
rules of `parser/RepositoryManager.g`. Words may be any `TEXT`, the labels `CERT`, `CLAUSE`, `START_TIME`, `END` and `END_CERT` included; only the lines
around keys and signatures, which hold spaces, cannot be words (`WordAssumption`). The walk has one index, `pIdx`, which seven nested loops share, each leaving it
in its own way. A step is one iteration of one loop; the actions have the names of the functions, or of the part the
loop collects (`credentialKey`, `clauses`, `certificateKey`, `signature`). Strings are sequences of labels. An index
behind the last child is represented by the first such index, and the empty strings appended there are not recorded, so
a loop that runs on behind the tree shows as a state that repeats for ever. `finalize` builds the signed text; the
conversion of times to seconds is in `Verification`.

`Walkable` says for which credentials the walk is right: there is a certificate, the credential's key has no word `CERT`, and no clause begins with the word
`START_TIME`. All other words that are labels are harmless, which the properties also show. For the rest the walk returns something else (a key cut off before `CERT`, clauses
that are missing) or does not end, and what follows must cope with whatever it returns: `Verification` continues with that.

### Verification

Continues where the walk ends, in the same call of `processMsg`, and has the actions of `verifyCredential` (one
iteration per certificate), `writeBinderFile` and, after `authenticateClient`, the first `generateQuery`. Texts are sequences of
pieces, the words and signs they can be cut at. `Spelling` gives the pieces of a word that holds another word (`xp` holds `p`) or a `:-`, as `TEXT` allows, so
`transformClause`, `Rule::getClauses` (which cuts a body at `"),"`), and the test whether the body contains the head are searches in pieces, written as the code
does them. `Said` and `Repeats` say what they should amount to in terms of the parsed clause: the key says the head and, unless a literal of the body is
the head or quotes it, every literal. `Clear` is the exact condition under which the two agree.

A request is not parsed. `Messages` are any sequences of pieces, and `generateQuery` finds in them the first letter of `"request"` (`find_first_of` looks for
any of its letters; `Lettered` are the pieces that begin with one), the END line and the first `(`, whether they are there or not and in whatever order; where the END line comes first the length given to
`substr` wraps. The other characters of an argument go into the query, and on to XSB's command line, as they are; what a shell or XSB makes of them is not modelled.

`KeyDigest` (MD5) and `UTCTime` (`mktime`) are constants: conversions by
libraries; what the walk takes for a key or a time and is none has `OtherDigest` or `OtherTime`. `verifySig` may say yes or no of complete parts (yes, if the key cannot be read) and no where a part is empty. `validate` is the command line's switch
`VALIDATE_CERT_TIME`; the clock goes on between certificates. `Policy::getAtoms` and the rules and facts added to the policy are never
read by the program and are left out.

## 3. Runs

| Run | Shows | Bounds |
|---|---|---|
| `TransportSafety` | all safety properties and the inductive invariant `ServerInv` | two clients, two slots, two descriptors, a backlog of one, one request each, one clause line; the five kinds of credential are divided between the clients (`MCFirstMessages`); slots are symmetric |
| `TransportLiveness` | `BacklogDrains` | two clients, one slot (so `fork()` fails), two descriptors |
| `TransportExhaustion` | `OrphanEnds` | one client with any credential and two requests, two slots, one descriptor, so that `accept()` fails and a child is forked for no connection |
| `QueryThread` | invariants, `PatientUnlessClockSet`, `CallEnds`, refinement of `QueryAnswer` | two calls, a limit of two ticks, the clock set by up to three in a ring of ten: past the limit, and back behind the start of the poll |
| `MessageReads` | `InBuffer`, `OverrunBounded`, `InStep`, `ExtraAnswersPaid`; `WholeRequestTaken`, `GoneMeansEnded` | reads of up to 3 bytes into a buffer of 11, END lines of 2, responses of 3, 6 and 10 bytes (in one read, in several, too long), requests of 2, 8 and 10 (shorter than a read, just fitting, too long), three requests |
| `Verification` | the inductive invariants `WalkInv` and `CheckInv`; the walk (`WithinTree`, `WalkRecoversCredential`, `WalkEnds`); `BinderFileInOrder`, `BinderFileIsCredential`, `OneBadSpoilsAll`, `AcceptedInTime`, `QueryIsRequest`, `QueryIsFlat` | all credentials of none to two certificates with two or three clauses (facts, rules with two literals, quoted, with a text that ends like the head, with `:-` in a text, with words that are labels), keys and signatures of labels, two times in either order, two seconds, six messages; and `TransformChecked`: `transformClause` on all heads and bodies of up to `MaxBody` = 2 of ten literals, more than 1100 clauses |
| `CertificatelessWalk` | `EveryWalkEnds` fails for a credential without certificates | no or one certificate |
| `RequestsGetReplies`, `ExitClosesConnection`, `AnswersOwnCredential`, `ChallengeIsSigned`, `TimeoutKillsThreadOnly` | each violates one statement of the documentation or of a comment, see section 6 | as small as shows it |

Why the bounds are enough: two sessions are what it takes to share the binder file, to race
the listening process and to compete for descriptors and slots; a client's second request
goes through the same code as its first one; a second clause line would only add writes of the
same kind. With `TIME_OUT = 0` one tick makes the server idle, so the timeout happens in
every phase of the children. `MaxRequests` (the clients' requests) and `FirstMessages` (the credentials each may send) are the only bounds on behaviours;
a connection is opened once per client. The safety theorems below do not depend on any of these.

`CHECK_DEADLOCK FALSE`: the server may stop, and clients may wait for ever.

## 4. Fairness

`FairSpec` assumes that every server process is scheduled (`WF` on `MainStep` and on each child's
steps) and nothing of the clients: a client may stop at any point and stay. `startListening` reads the first
message itself, so a client that connects and stays silent does stop it. `BacklogDrains` says so: a connection in the backlog is accepted, or the
server stops, or from some moment on it is held up by one silent client for good (`[]HeldUp`); nothing else keeps it waiting. In `QueryThread` the caller is scheduled and time passes; nothing is assumed of the query
thread, since XSB may run for ever. `MessageReads` assumes that the session's process is scheduled (`WF` on `Server`) and nothing of its client. The walk of `AstWalker` is one call in one thread, which runs on (`WF` on `Next`).

## 5. Proofs

`TransportServiceProofs` proves for every set of clients and processes and all bounds, from the assumptions
`ProcAssumption`, `BoundAssumption`, `GrantsAssumption` and `FirstMessagesAssumption` on the constants:

- `TypeCorrect`. Type correctness is not inductive alone: `off` stays in the file and `children - 1` stays
  a natural number because a live child has `children = 1` and a writer's offset is a line. `CountInv`
  adds this, and `MainNeverServes`, from which a fork starts with cleared flags.
- `MainNeverServesTheorem`, from the same invariant. With it the test `children == 0` of `startListening` always holds, so the server stops after a
  quiet time whether or not children serve clients, and reports 0 connections (`TransportService.h:396-398`).
- `GrantJustifiedTheorem` and `OnlyAuthenticatedClausesTheorem`, from `AuthInv`. The argument: a message that says
  `verified`, `keyless` or `good` is in flight only if its client sent it (`ClientInv`); so the child that reads it knows it of its
  client (`ChildSession`, one clause per control point); so only such a child writes clauses; so whatever file is loaded
  grants only by authenticated clauses. `cred` and `sig` are written once, which makes the knowledge stable.
- `OneServerPerConnectionTheorem`, from `ConnectionInv`: a connection is not made, or in the backlog, or at the
  listening process, or with one child. The stale `clientSocketId` after a fork is the delicate case; `AcceptFails` must
  overwrite it.
- `AnswersAreAwaitedTheorem`, from `TurnInv`: for every client that is still there, what may be in flight in either direction at each
  point of its session (`ClientTurn`), while the listening process has its connection (`MainTurn`) and for each control point of the
  child that serves it (`ChildTurn`). The delicate point is the child in `authenticateClient`, whose client may already have sent its first request
  behind the response: what the reads lose may leave the client waiting, and never leaves the child with a second answer. That a
  connection has one child at most (`ConnectionInv`) keeps the turns of two children apart.

`QueryThreadProofs` proves `QueryInvariant` (the flag is the thread's verdict, and the thread is alive only between the creation and the kill),
its consequences `QueryTypeOK`, `ReturnsThisAnswerTheorem` and `WorkerWithinCallTheorem`, and the refinement
`ExecuteQueryImplementsQueryAnswer`, from `PollAssumption` and `ClockAssumption`. `PatientTheorem` is an action property and rests on `ClockInv`:
as long as the clock is not set, what the poll has added up and what the timer would return now make the time that really
passed. That is why `getElapsedNSecs` has to move `curTime`, and it needs the unsigned difference only up to the
length of a poll.

`MessageReadsProofs` proves `ReadsTypeOK`, `InBufferTheorem`, `OverrunBoundedTheorem` and `InStepTheorem`, for every size of buffer, read and
message (`BufferAssumption`, `LengthAssumption`), from one inductive invariant, `ReadInv`. `LoopInv`
says where the buffer is in the stream: a loop that goes on has not yet read the response to its end, so its last
read exceeds the end by less than `MAX_READ`. `StepInv`, which holds while the client is there and its messages fit, says that at most one request is not
answered; with none, the next buffer begins at the end of the stream, and with one, the only END line that is
whole from the buffer's beginning on is at the end of the stream, and what is left of the request fits. So a loop
that ends, by the END line or by a full buffer, has read everything the client sent. Without `fits` only the bound of `ExtraAnswersPaid` is left.

`ServerInvariant` puts the parts of the server's invariant together.

`AstWalkerProofs` proves that the walk recovers every walkable credential, with any number of certificates, clauses and words, from
`WordAssumption` and `TextAssumption`, and keeps its types for every credential. The invariant `WalkInv` reads the nested loops backwards: `Rest`, the children from
`pIdx` on, is the rest of the source that the running loop has not read, and what was read is in the credential, the certificate and the clause being
built. There is one disjunct per loop (`InCredential`, `InClauses`, `InTimes`, `InKey`, `InSignature`), and the
step from one to the next is the way the loop leaves the index: before its terminator, on it or behind it. `WalkRecoversCredentialTheorem` is `WalkInv` at the end, `WithinTreeTheorem`
follows from it, too; both have `Walkable` in the property, and no premise. The proof needs to know what `FlattenSeq` makes of one more and of one less part. The library's
induction theorems have an operator as a parameter, so `FlattenProofs` states induction for a set instead (`SetInduction`: a set that has
0 and with every number the next one has them all; `SeqInduction` likewise), proves both from the least element of a set of naturals, and uses them.

`VerificationProofs` proves `CheckInvariant` on top: `CheckSpec => [](WalkInv /\ CheckInv)`, for whatever credential the walk returned. `CheckInv` says where the verification is (`StageInv`), that there is an answer for each certificate before `idx`
and the verdict is all of them (`VerdictInv`), that exactly the accepted ones have lines, made with their own key (`LinesInv`), and that an accepted certificate was in
its time between `since` and `now` (`ClockInv`). `OneBadSpoilsAllTheorem` and `AcceptedInTimeTheorem` follow, and with `WalkInv` `VerifiedIsSent`: while a
walkable credential is verified, written and asked with, it is the one that was sent. `BinderFileTheorem` says that the binder file is made of all clauses
of all certificates in order, each transformed with its own key; it takes `transformClause` as it is. What `transformClause` makes of one clause is a fact about one pure function, which TLC
evaluates (`TransformChecked` in `MCVerification`, before the run, and `BinderFileIsCredential` in it): it is what the key says exactly if the clause is `Clear`.

`GenerateQueryProofs` proves `QueryIsRequestTheorem` and `QueryIsFlatTheorem`. The loop over the pieces is a fold; `ReadsExists` shows that the function the library's fold chooses exists
(by `SetInduction`), `ReadsStep` what it does with one more piece. For a request of the grammar's form `TwoArguments` follows its four pieces. For any other message the
invariant of the fold is that no argument has a parenthesis, whatever is read; `JoinFlat` and `ConcatParts` carry this through the query's text. `MessageAssumption` says only that a message is a sequence of
pieces and which of the marks begin with a letter of `"request"`.

Only model-checked: the liveness properties (`BacklogDrains`, `OrphanEnds`, `CallEnds`, `WalkEnds`, `WholeRequestTaken`, `GoneMeansEnded`), which need fairness and
`ENABLED`, beyond the prover; `ExtraAnswersPaid`, whose induction counts END lines and multiplies; and `BinderFileIsCredential` beyond `BinderFileTheorem`, which needs induction over the literals of a body through the recursive `getClauses` and an account of where
one sequence of pieces occurs in another.

## 6. Disagreements between documentation and code

Each has a run whose counterexample shows it.

- `RequestsGetReplies`: a request sent right behind the response can be swallowed by the reads of `authenticateClient`; client and child then wait for each other.
- `ExitClosesConnection`: after `exit` the child ends, but the listening process has the same connection open and does not exit (`README.md:33`).
- `AnswersOwnCredential`: a request can be answered from the clauses another session wrote to `rlf_tmp.P`.
- `ChallengeIsSigned`: `verifySig` answers true when the key cannot be read, so a client whose credential carries such a key is authenticated without having signed its challenge. `GrantJustified` names the exception (`Authenticated`).
- `TimeoutKillsThreadOnly`: the signal meant for the query thread ends the process.
- `CertificatelessWalk`: the grammar accepts a credential without certificates, `makeCredential` never gets to the end of one.

Exceptions that passing properties state exactly, and a reader should know:

- Words that are labels (`Walkable`): `CERT` in a credential's key, or a clause that begins with `START_TIME`, which the grammar's `TEXT` accepts, break the walk (`AstWalker.h:109`, `157`).
- Clauses that are not `Clear`: with `:-` in a text of the head, as in `q(a:-b).`, a fact becomes a rule (`SecurityService.h:468`); a body with `xp(a)` counts as quoting the head `p(a)` and is not said by the key (`:474`).
- Requests longer than the buffer (`ExtraAnswersPaid`): one request gets several replies (`TransportService.h:266`).
- The counter of children (`MainNeverServes`): the server stops when it has been quiet, whatever its children do (`TransportService.h:396`).

## 7. Not modelled

- The generated lexer and parser, the ANTLR runtime and XSB: third-party or generated code. They are nearly all of the repository's lines
  (XSB alone some 190 000); the program's own hand-written code is about 2 800 lines in `src/src/manager` and `src/src/utils`, and the map covers
  its state-changing functions. What the program relies on of these parts is external: the tree a grammar rule builds (`Nodes`), what XSB prints
  (`Outputs`) and what it grants from a file (`FileGrants`).
- Cryptography, base64 and digests (OpenSSL): a key can be read or not, a signature is good or it is not, a digest is a label.
- What a shell or XSB makes of the characters of a request's arguments (`popen`).
- `FifoQueue`, which no file includes; `resume`, `reset`, `getDuration*` and `operator-` of `Timer`, `Policy::getAtoms` with the vectors it fills, `trim`: nothing
  the program does depends on them.
- Formatting and logging; `readPolicy`, one read before the server starts; a binder file or compiled object left over from an earlier run.

## 8. Plan

Done: the server, the query thread with its timer, the read loops, the walk and the verification, and the theorems above; every safety
property of a passing run but `ExtraAnswersPaid` and `BinderFileIsCredential` is proved. Left to prove:

1. What `transformClause` makes of a clear clause, in parts: a fact has no `:-`; `getClauses` of a body of well-formed literals are its literals (by `SeqInduction`);
   `Contained` finds the head exactly where `Repeats` does. It needs an assumption that `Clauses` are made as the grammar makes them.
2. `ExtraAnswersPaid`: the END lines still to be read make up for the answers given too many.
3. The safety part of `WholeRequestTaken` and `GoneMeansEnded`: what each step of a loop does to a measure.
