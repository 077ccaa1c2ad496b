---------------------------- MODULE CommandStream ----------------------------
(***************************************************************************)
(* The operators' connections to one agent: the client program               *)
(* (chat_client), the TCP connection, and the agent's TcpAsyncServer,        *)
(* TcpSession and TcpConnectionManager.                                      *)
(*                                                                           *)
(* A client has two threads.  main reads lines and posts a handler for each  *)
(* to the io_service; the other runs the handlers.  One async_write is       *)
(* outstanding at a time, for the front of write_msgs_.  A message is a      *)
(* header of fixed length and, for a line that is not empty, a body; the     *)
(* connection carries these in order, but may break.  The agent reads a      *)
(* header, then its body, all sessions in its io thread.  It never writes    *)
(* (the only call of TcpConnectionManager::deliver is commented out) and     *)
(* does not ask for keepalives: a connection that breaks without a segment   *)
(* telling it so is never found out.                                         *)
(*                                                                           *)
(* encode_header and decode_header carry the length of the body; here a      *)
(* header carries the line it belongs to, of which the agent uses no more    *)
(* than whether it is empty.                                                 *)
(***************************************************************************)
EXTENDS Integers, Sequences

CONSTANTS
  Clients,
  Texts,       \* what an operator may type
  Empty,       \* the empty line, one of them
  Close,       \* the handler do_close, where the others are do_write of a line
  Garbled,     \* a command made of the parts of two messages
  MaxLines,    \* bound: lines typed at a client
  MaxBreaks    \* bound: connections that break

ASSUME StreamAssumption ==
  /\ Empty \in Texts
  /\ MaxLines \in Nat \ {0} /\ MaxBreaks \in Nat

\* The lines a client types, numbered so that they differ.
Lines == [n : 1..MaxLines, text : Texts]
ASSUME NoLines == Garbled \notin Lines /\ Close \notin Lines

Part == [part : {"head", "body"}, line : Lines]

VARIABLES
  typed,      \* lines that std::cin.getline returned
  eof,        \* getline failed (end of input, or a line beyond 512 bytes)
  posted,     \* handlers waiting in the client's io_service: a line, or Close
  queue,      \* write_msgs_
  writing,    \* an async_write is outstanding ...
  out,        \* ... and has these parts left to hand to the connection
  sock,       \* the client's socket: "connecting", "open", "closed"
  running,    \* the client's io_service::run has not returned
  pipe,       \* parts under way to the agent
  link,       \* the connection: "none", "up", "down" (the agent closed it or
              \* is told that it broke), "silent" (broken, and nothing that
              \* either end sends arrives any more)
  reading,    \* the outstanding async_read of the session, or "none"
  header,     \* the line of the last header read (readMsg_)
  participants, \* TcpConnectionManager::participants_
  processed,  \* lines given to processTcpMsg
  listening,  \* the agent's io_service runs
  breaks

clientVars == <<typed, eof, posted, queue, writing, out, sock, running>>
agentVars  == <<reading, header, participants, processed, listening>>
vars == <<clientVars, pipe, link, agentVars, breaks>>

-----------------------------------------------------------------------------
(***************************************************************************)
(* The client                                                               *)
(***************************************************************************)

\* c.write(msg)
Type(c) ==
  /\ ~eof[c] /\ Len(typed[c]) < MaxLines
  /\ \E t \in Texts :
       LET line == [n |-> Len(typed[c]) + 1, text |-> t] IN
       /\ typed' = [typed EXCEPT ![c] = Append(@, line)]
       /\ posted' = [posted EXCEPT ![c] = Append(@, line)]
  /\ UNCHANGED <<eof, queue, writing, out, sock, running, pipe, link, agentVars, breaks>>

\* c.close(), and main waits for the other thread.
Eof(c) ==
  /\ ~eof[c]
  /\ eof' = [eof EXCEPT ![c] = TRUE]
  /\ posted' = [posted EXCEPT ![c] = Append(@, Close)]
  /\ UNCHANGED <<typed, queue, writing, out, sock, running, pipe, link, agentVars, breaks>>

Parts(line) ==
  IF line.text = Empty THEN <<[part |-> "head", line |-> line]>>
  ELSE <<[part |-> "head", line |-> line], [part |-> "body", line |-> line]>>

\* Mutant of do_write: it does not look for a write in progress.
do_writeAtOnce(c, line) ==
  /\ queue' = [queue EXCEPT ![c] = Append(@, line)]
  /\ writing' = [writing EXCEPT ![c] = TRUE]
  /\ out' = [out EXCEPT ![c] = IF @ = <<>> THEN Parts(line)
                               ELSE <<Head(@)>> \o Parts(line) \o Tail(@)]
  /\ UNCHANGED sock

\* do_write: begins an async_write unless one is outstanding.
do_write(c, line) ==
  /\ queue' = [queue EXCEPT ![c] = Append(@, line)]
  /\ IF queue[c] = <<>>
     THEN /\ writing' = [writing EXCEPT ![c] = TRUE]
          /\ out' = [out EXCEPT ![c] = Parts(line)]
     ELSE UNCHANGED <<writing, out>>
  /\ UNCHANGED sock

\* What is queued and not yet handed over is lost.
do_close(c) ==
  /\ sock' = [sock EXCEPT ![c] = "closed"]
  /\ UNCHANGED <<queue, writing, out>>

RunPosted(c) ==
  /\ running[c] /\ posted[c] # <<>>
  /\ IF Head(posted[c]) = Close THEN do_close(c) ELSE do_write(c, Head(posted[c]))
  /\ posted' = [posted EXCEPT ![c] = Tail(@)]
  /\ UNCHANGED <<typed, eof, running, pipe, link, agentVars, breaks>>

\* The outstanding async_write hands the next part over; a write that was
\* begun before the connection stands waits for it.
WritePart(c) ==
  /\ writing[c] /\ sock[c] = "open" /\ out[c] # <<>>
  /\ pipe' = [pipe EXCEPT ![c] = IF link[c] = "up" THEN Append(@, Head(out[c])) ELSE @]
  /\ out' = [out EXCEPT ![c] = Tail(@)]
  /\ UNCHANGED <<typed, eof, posted, queue, writing, sock, running, link, agentVars, breaks>>

\* Mutant of handle_write: the next message is left in the queue.
handle_writeOnce(c) ==
  /\ running[c] /\ writing[c] /\ out[c] = <<>>
  /\ queue' = [queue EXCEPT ![c] = Tail(@)]
  /\ writing' = [writing EXCEPT ![c] = FALSE]
  /\ UNCHANGED <<typed, eof, posted, out, sock, running, pipe, link, agentVars, breaks>>

\* handle_write: the next message, or after an error no more.
handle_write(c) ==
  /\ running[c] /\ writing[c]
  /\ \/ /\ out[c] = <<>>
        /\ queue' = [queue EXCEPT ![c] = Tail(@)]
        /\ writing' = [writing EXCEPT ![c] = Len(queue[c]) > 1]
        /\ out' = [out EXCEPT ![c] = IF Len(queue[c]) > 1 THEN Parts(queue[c][2]) ELSE <<>>]
        /\ UNCHANGED sock
     \/ /\ out[c] # <<>> /\ sock[c] = "closed"
        /\ sock' = [sock EXCEPT ![c] = "closed"]
        /\ writing' = [writing EXCEPT ![c] = FALSE]
        /\ UNCHANGED <<queue, out>>
  /\ UNCHANGED <<typed, eof, posted, running, pipe, link, agentVars, breaks>>

\* handle_connect(error) does nothing, and nothing else will come of it.
ConnectFails(c) ==
  /\ sock[c] = "connecting"
  /\ sock' = [sock EXCEPT ![c] = "closed"]
  /\ UNCHANGED <<typed, eof, posted, queue, writing, out, running, pipe, link, agentVars, breaks>>

\* handle_read_header(error): the agent closed, or the connection broke, which
\* the client may or may not find out when it broke silently.
PeerCloses(c) ==
  /\ running[c] /\ sock[c] = "open" /\ link[c] \in {"down", "silent"}
  /\ do_close(c)
  /\ UNCHANGED <<typed, eof, posted, running, pipe, link, agentVars, breaks>>

\* The io_service runs out of work; what is posted later never runs.
RunReturns(c) ==
  /\ running[c] /\ sock[c] = "closed" /\ posted[c] = <<>> /\ ~writing[c]
  /\ running' = [running EXCEPT ![c] = FALSE]
  /\ UNCHANGED <<typed, eof, posted, queue, writing, out, sock, pipe, link, agentVars, breaks>>

-----------------------------------------------------------------------------
(***************************************************************************)
(* The agent                                                                *)
(***************************************************************************)

\* TcpSession::start joins the manager and reads a header.
start(c) ==
  /\ participants' = participants \cup {c}
  /\ reading' = [reading EXCEPT ![c] = "header"]

\* handleAccept, and in the client handle_connect().  The kernel may have
\* completed the connection before, which lets a client write and close before
\* handleAccept; here these are one step.
Accept(c) ==
  /\ listening /\ sock[c] = "connecting" /\ running[c]
  /\ sock' = [sock EXCEPT ![c] = "open"]
  /\ link' = [link EXCEPT ![c] = "up"]
  /\ start(c)
  /\ UNCHANGED <<typed, eof, posted, queue, writing, out, running, pipe,
                 header, processed, listening, breaks>>

\* TcpConnectionManager::leave; the session, its last reference gone, closes
\* its socket.
leave(c) ==
  /\ participants' = participants \ {c}
  /\ reading' = [reading EXCEPT ![c] = "none"]
  /\ link' = [link EXCEPT ![c] = IF @ = "up" THEN "down" ELSE @]

\* handleReadHeader.  decode_header takes any text for a header, of the length
\* that atoi makes of it, and refuses none but a length beyond 512.
handleReadHeader(c) ==
  /\ listening /\ reading[c] = "header" /\ pipe[c] # <<>>
  /\ pipe' = [pipe EXCEPT ![c] = Tail(@)]
  /\ \/ /\ \E line \in Lines :
             /\ Head(pipe[c]).part = "head" => line = Head(pipe[c]).line
             /\ header' = [header EXCEPT ![c] = line]
        /\ reading' = [reading EXCEPT ![c] = "body"]
        /\ UNCHANGED <<participants, link>>
     \/ Head(pipe[c]).part = "body" /\ leave(c) /\ UNCHANGED header
  /\ UNCHANGED <<clientVars, processed, listening, breaks>>

\* handleReadBody: a body of length 0 is there at once.
handleReadBody(c) ==
  /\ listening /\ reading[c] = "body"
  /\ \/ /\ header[c].text = Empty
        /\ processed' = [processed EXCEPT ![c] = Append(@, header[c])]
        /\ UNCHANGED pipe
     \/ /\ header[c].text # Empty /\ pipe[c] # <<>>
        /\ processed' = [processed EXCEPT ![c] = Append(@,
             IF Head(pipe[c]) = [part |-> "body", line |-> header[c]]
             THEN header[c] ELSE Garbled)]
        /\ pipe' = [pipe EXCEPT ![c] = Tail(@)]
  /\ reading' = [reading EXCEPT ![c] = "header"]
  /\ UNCHANGED <<clientVars, link, header, participants, listening, breaks>>

\* Mutant of ReadFails: the session stays a participant.
ReadFailsUnnoticed(c) ==
  /\ listening /\ reading[c] # "none" /\ pipe[c] = <<>>
  /\ (sock[c] = "closed" /\ link[c] # "silent") \/ link[c] = "down"
  /\ reading[c] = "body" => header[c].text # Empty
  /\ reading' = [reading EXCEPT ![c] = "none"]
  /\ link' = [link EXCEPT ![c] = "down"]
  /\ UNCHANGED <<clientVars, pipe, header, participants, processed, listening, breaks>>

\* handleReadHeader or handleReadBody with an error: the client closed and
\* all it sent is read, or the connection broke and the agent is told.  After a
\* silent break the read stays outstanding.
ReadFails(c) ==
  /\ listening /\ reading[c] # "none" /\ pipe[c] = <<>>
  /\ (sock[c] = "closed" /\ link[c] # "silent") \/ link[c] = "down"
  /\ reading[c] = "body" => header[c].text # Empty
  /\ leave(c)
  /\ UNCHANGED <<clientVars, pipe, header, processed, listening, breaks>>

\* The agent shuts down: its io_service stops, its sockets are closed.
AgentStops ==
  /\ listening
  /\ listening' = FALSE
  /\ link' = [c \in Clients |-> IF link[c] = "up" THEN "down" ELSE link[c]]
  /\ UNCHANGED <<clientVars, pipe, reading, header, participants, processed, breaks>>

\* The connection breaks, and what is under way is lost; the two ends are told
\* (a reset) or not (the client's host vanished, the network is cut).
Break(c) ==
  /\ breaks < MaxBreaks
  /\ link[c] = "up"
  /\ breaks' = breaks + 1
  /\ \E how \in {"down", "silent"} : link' = [link EXCEPT ![c] = how]
  /\ \E n \in 0..Len(pipe[c]) : pipe' = [pipe EXCEPT ![c] = SubSeq(@, 1, n)]
  /\ UNCHANGED <<clientVars, agentVars>>

-----------------------------------------------------------------------------
Init ==
  /\ typed = [c \in Clients |-> <<>>]
  /\ eof = [c \in Clients |-> FALSE]
  /\ posted = [c \in Clients |-> <<>>]
  /\ queue = [c \in Clients |-> <<>>]
  /\ writing = [c \in Clients |-> FALSE]
  /\ out = [c \in Clients |-> <<>>]
  /\ sock = [c \in Clients |-> "connecting"]
  /\ running = [c \in Clients |-> TRUE]
  /\ pipe = [c \in Clients |-> <<>>]
  /\ link = [c \in Clients |-> "none"]
  /\ reading = [c \in Clients |-> "none"]
  /\ header = [c \in Clients |-> [n |-> 1, text |-> Empty]]
  /\ participants = {}
  /\ processed = [c \in Clients |-> <<>>]
  /\ listening = TRUE
  /\ breaks = 0

ClientStep(c) ==
  RunPosted(c) \/ WritePart(c) \/ handle_write(c) \/ PeerCloses(c) \/ RunReturns(c)

AgentStep(c) == handleReadHeader(c) \/ handleReadBody(c) \/ ReadFails(c)

Next ==
  \/ \E c \in Clients : \/ Type(c) \/ Eof(c) \/ Break(c)
                        \/ Accept(c) \/ ConnectFails(c)
                        \/ ClientStep(c) \/ AgentStep(c)
  \/ AgentStops

\* Each io_service runs the handlers that are ready, every connect comes to an
\* end; nobody has to type, and nobody need find out about a silent break.
Fairness ==
  \A c \in Clients :
    /\ WF_vars(RunPosted(c)) /\ WF_vars(WritePart(c)) /\ WF_vars(handle_write(c))
    /\ WF_vars(link[c] = "down" /\ PeerCloses(c)) /\ WF_vars(RunReturns(c))
    /\ WF_vars(AgentStep(c))
    /\ WF_vars(Accept(c) \/ ConnectFails(c))

Spec == Init /\ [][Next]_vars /\ Fairness

-----------------------------------------------------------------------------
\* Type invariant: in particular no more than one message is being written,
\* and it is the front of the queue.
TypeOK ==
  /\ typed \in [Clients -> Seq(Lines)]
  /\ eof \in [Clients -> BOOLEAN]
  /\ posted \in [Clients -> Seq(Lines \cup {Close})]
  /\ queue \in [Clients -> Seq(Lines)]
  /\ writing \in [Clients -> BOOLEAN]
  /\ out \in [Clients -> Seq(Part)]
  /\ \A c \in Clients : \A i \in 1..Len(out[c]) : out[c][i].line = Head(queue[c])
  /\ sock \in [Clients -> {"connecting", "open", "closed"}]
  /\ running \in [Clients -> BOOLEAN]
  /\ pipe \in [Clients -> Seq(Part)]
  /\ link \in [Clients -> {"none", "up", "down", "silent"}]
  /\ reading \in [Clients -> {"none", "header", "body"}]
  /\ header \in [Clients -> Lines]
  /\ participants \subseteq Clients
  /\ processed \in [Clients -> Seq(Lines \cup {Garbled})]
  /\ listening \in BOOLEAN
  /\ breaks \in 0..MaxBreaks

Pipe == INSTANCE CommandPipe

\* Whatever the order of handlers, closes and breaks, the agent processes a
\* prefix of what was typed at each client, in order, each line once and with
\* its own body: messages are not interleaved on the connection.
ImplementsPipe == Pipe!Spec

\* A line typed at a client that is not closed, on a connection that holds, is
\* processed in the end.  (Lines typed just before the end of input may be
\* lost: do_close does not wait for write_msgs_.)
TypedIsProcessed ==
  \A c \in Clients, n \in 1..MaxLines :
    Len(typed[c]) >= n
    ~> (Len(processed[c]) >= n \/ sock[c] = "closed" \/ link[c] \in {"down", "silent"})

\* A session whose client is gone leaves the connection manager (which alone
\* keeps it and its socket), as long as the agent runs and unless the connection
\* broke silently: TcpSession never writes and sets no keepalive, so its read
\* then stays outstanding and the session stays a participant for good.
ClosedClientsLeave ==
  \A c \in Clients :
    sock[c] = "closed" ~> (c \notin participants \/ ~listening \/ link[c] = "silent")
=============================================================================
