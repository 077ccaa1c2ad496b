------------------------ MODULE CommandStream_proofs -------------------------
(***************************************************************************)
(* Proofs about CommandStream, for any clients, any lines and any number of  *)
(* broken connections.                                                       *)
(***************************************************************************)
EXTENDS CommandStream, TLAPS

\* What is being written is there: a write under way, and the parts an
\* abandoned one has left, are those of a message in the queue.
FrontIsWritten ==
  \A c \in Clients : writing[c] \/ out[c] # <<>> => queue[c] # <<>>

Inv == TypeOK /\ FrontIsWritten

\* The types of the client's program, and of all the rest.
ClientType ==
  /\ queue \in [Clients -> Seq(Lines)]
  /\ writing \in [Clients -> BOOLEAN]
  /\ out \in [Clients -> Seq(Part)]
  /\ sock \in [Clients -> {"connecting", "open", "closed"}]
  /\ \A c \in Clients : \A i \in 1..Len(out[c]) : out[c][i].line = Head(queue[c])
  /\ FrontIsWritten

InputType ==
  /\ typed \in [Clients -> Seq(Lines)]
  /\ eof \in [Clients -> BOOLEAN]
  /\ posted \in [Clients -> Seq(Lines \cup {Close})]
  /\ running \in [Clients -> BOOLEAN]

AgentType ==
  /\ pipe \in [Clients -> Seq(Part)]
  /\ link \in [Clients -> {"none", "up", "down", "silent"}]
  /\ reading \in [Clients -> {"none", "header", "body"}]
  /\ header \in [Clients -> Lines]
  /\ participants \subseteq Clients
  /\ processed \in [Clients -> Seq(Lines \cup {Garbled})]
  /\ listening \in BOOLEAN
  /\ breaks \in 0..MaxBreaks

LEMMA InvParts == Inv <=> ClientType /\ InputType /\ AgentType
BY DEF Inv, TypeOK, ClientType, InputType, AgentType

LEMMA InvAfter == ASSUME ClientType', InputType', AgentType' PROVE Inv'
BY DEF Inv, TypeOK, ClientType, InputType, AgentType

\* The parts of a message are its own.
LEMMA PartsOwn ==
  ASSUME NEW line \in Lines
  PROVE  /\ Parts(line) \in Seq(Part) /\ Parts(line) # <<>>
         /\ \A i \in 1..Len(Parts(line)) : Parts(line)[i].line = line
<1>1. /\ [part |-> "head", line |-> line] \in Part
      /\ [part |-> "body", line |-> line] \in Part
  BY DEF Part
<1> QED
  BY <1>1 DEF Parts

\* The steps that change the queue and what is being written.
LEMMA DoWriteType ==
  ASSUME ClientType, NEW c \in Clients, NEW line \in Lines, do_write(c, line)
  PROVE  ClientType'
<1> DEFINE s == queue[c]
           q == Append(s, line)
<1>1. /\ queue[c] \in Seq(Lines) /\ q \in Seq(Lines) /\ q # <<>>
      /\ queue[c] = <<>> => Head(q) = line
      /\ queue[c] # <<>> => Head(q) = Head(queue[c])
  <2>1. s \in Seq(Lines)
    BY DEF ClientType
  <2> HIDE DEF s
  <2>2. q \in Seq(Lines) /\ Len(q) = Len(s) + 1
    BY <2>1
  <2>3. CASE s = <<>>
    BY <2>2, <2>3 DEF s
  <2>4. CASE s # <<>>
    <3>1. Len(s) > 0
      BY <2>1, <2>4
    <3>2. q[1] = s[1]
      BY <2>1, <3>1
    <3> QED
      BY <2>1, <2>2, <2>4, <3>1, <3>2 DEF s
  <2> QED
    BY <2>3, <2>4
<1> HIDE DEF q, s
<1>2. queue' = [queue EXCEPT ![c] = q] /\ sock' = sock
  BY DEF do_write, q, s
<1>3. CASE queue[c] = <<>>
  <2>1. writing' = [writing EXCEPT ![c] = TRUE] /\ out' = [out EXCEPT ![c] = Parts(line)]
    BY <1>3 DEF do_write
  <2> QED
    BY <1>1, <1>2, <1>3, <2>1, PartsOwn DEF ClientType, FrontIsWritten
<1>4. CASE queue[c] # <<>>
  <2>1. writing' = writing /\ out' = out
    BY <1>4 DEF do_write
  <2> QED
    BY <1>1, <1>2, <1>4, <2>1 DEF ClientType, FrontIsWritten
<1> QED
  BY <1>3, <1>4

LEMMA WritePartType ==
  ASSUME ClientType, NEW c \in Clients, WritePart(c)
  PROVE  ClientType'
<1> DEFINE o == Tail(out[c])
<1>1. /\ out[c] \in Seq(Part) /\ out[c] # <<>> /\ o \in Seq(Part)
      /\ Len(o) = Len(out[c]) - 1
      /\ \A i \in 1..Len(o) : o[i] = out[c][i + 1] /\ i + 1 \in 1..Len(out[c])
  BY DEF ClientType, WritePart
<1> HIDE DEF o
<1>2. out' = [out EXCEPT ![c] = o] /\ UNCHANGED <<queue, writing, sock>>
  BY DEF WritePart, o
<1> QED
  BY <1>1, <1>2 DEF ClientType, FrontIsWritten

LEMMA HandleWriteType ==
  ASSUME ClientType, NEW c \in Clients, handle_write(c)
  PROVE  ClientType'
<1>1. queue[c] \in Seq(Lines) /\ queue[c] # <<>>
  BY DEF ClientType, FrontIsWritten, handle_write
<1>2. CASE out[c] = <<>>
  <2> DEFINE q == Tail(queue[c])
             more == Len(queue[c]) > 1
             o == IF more THEN Parts(queue[c][2]) ELSE <<>>
  <2>1. /\ queue' = [queue EXCEPT ![c] = q] /\ writing' = [writing EXCEPT ![c] = more]
        /\ out' = [out EXCEPT ![c] = o] /\ sock' = sock
    BY <1>2 DEF handle_write
  <2>2. /\ q \in Seq(Lines)
        /\ more => queue[c][2] \in Lines /\ Head(q) = queue[c][2] /\ q # <<>>
    <3>1. q \in Seq(Lines) /\ Len(q) = Len(queue[c]) - 1
      BY <1>1
    <3>2. more => q[1] = queue[c][2] /\ Len(q) > 0 /\ 2 \in 1..Len(queue[c])
      BY <1>1, <3>1
    <3>3. more => queue[c][2] \in Lines
      BY <1>1, <3>2
    <3> HIDE DEF q, more
    <3>4. Len(q) > 0 => q # <<>> /\ Head(q) = q[1]
      BY <3>1
    <3> QED
      BY <3>1, <3>2, <3>3, <3>4
  <2>3. /\ o \in Seq(Part) /\ (~more => o = <<>>)
        /\ \A i \in 1..Len(o) : o[i].line = Head(q)
    <3>1. CASE more
      BY <2>2, <3>1, PartsOwn
    <3>2. CASE ~more
      BY <3>2
    <3> QED
      BY <3>1, <3>2
  <2>4. more \in BOOLEAN
    OBVIOUS
  <2> HIDE DEF q, more, o
  <2> QED
    BY <2>1, <2>2, <2>3, <2>4 DEF ClientType, FrontIsWritten
<1>3. CASE out[c] # <<>>
  <2>1. /\ writing' = [writing EXCEPT ![c] = FALSE] /\ UNCHANGED <<queue, out>>
        /\ sock' = [sock EXCEPT ![c] = "closed"]
    BY <1>3 DEF handle_write
  <2> QED
    BY <2>1 DEF ClientType, FrontIsWritten
<1> QED
  BY <1>2, <1>3

\* A step that leaves the queue alone.
LEMMA QueueKept ==
  ASSUME ClientType, UNCHANGED <<queue, writing, out>>,
         sock' \in [Clients -> {"connecting", "open", "closed"}]
  PROVE  ClientType'
BY DEF ClientType, FrontIsWritten

LEMMA InitInv == Init => Inv
<1> SUFFICES ASSUME Init PROVE Inv
  OBVIOUS
<1>1. ClientType
  BY DEF Init, ClientType, FrontIsWritten
<1>2. InputType
  BY DEF Init, InputType
<1>3. AgentType
  BY StreamAssumption DEF Init, AgentType, Lines
<1> QED
  BY <1>1, <1>2, <1>3, InvParts

LEMMA NextInv == Inv /\ [Next]_vars => Inv'
<1> SUFFICES ASSUME Inv, [Next]_vars PROVE Inv'
  OBVIOUS
<1>1. ClientType /\ InputType /\ AgentType
  BY InvParts
<1>2. ASSUME NEW c \in Clients, Type(c) PROVE Inv'
  <2>1. PICK t \in Texts :
          LET line == [n |-> Len(typed[c]) + 1, text |-> t]
          IN  /\ typed' = [typed EXCEPT ![c] = Append(@, line)]
              /\ posted' = [posted EXCEPT ![c] = Append(@, line)]
    BY <1>2 DEF Type
  <2> DEFINE line == [n |-> Len(typed[c]) + 1, text |-> t]
  <2>2. line \in Lines
    <3>1. Len(typed[c]) + 1 \in 1..MaxLines
      BY <1>1, <1>2, StreamAssumption DEF Type, InputType
    <3> QED
      BY <3>1 DEF Lines
  <2>3. /\ typed' = [typed EXCEPT ![c] = Append(typed[c], line)]
        /\ posted' = [posted EXCEPT ![c] = Append(posted[c], line)]
    BY <2>1
  <2> HIDE DEF line
  <2>4. InputType'
    <3>1. Append(typed[c], line) \in Seq(Lines)
      BY <1>1, <2>2 DEF InputType
    <3>2. Append(posted[c], line) \in Seq(Lines \cup {Close})
      BY <1>1, <2>2 DEF InputType
    <3> QED
      BY <1>1, <1>2, <2>3, <3>1, <3>2 DEF InputType, Type
  <2>5. ClientType' /\ AgentType'
    BY <1>1, <1>2, QueueKept DEF Type, ClientType, AgentType, agentVars
  <2> QED
    BY <2>4, <2>5, InvAfter
<1>3. ASSUME NEW c \in Clients, Eof(c) PROVE Inv'
  <2>1. Append(posted[c], Close) \in Seq(Lines \cup {Close})
    BY <1>1 DEF InputType
  <2>2. InputType'
    BY <1>1, <1>3, <2>1 DEF InputType, Eof
  <2>3. ClientType' /\ AgentType'
    BY <1>1, <1>3, QueueKept DEF Eof, ClientType, AgentType, agentVars
  <2> QED
    BY <2>2, <2>3, InvAfter
<1>4. ASSUME NEW c \in Clients, RunPosted(c) PROVE Inv'
  <2>1. posted[c] \in Seq(Lines \cup {Close}) /\ posted[c] # <<>>
    BY <1>1, <1>4 DEF InputType, RunPosted
  <2>2. Head(posted[c]) \in Lines \cup {Close} /\ Tail(posted[c]) \in Seq(Lines \cup {Close})
    BY <2>1
  <2>3. ClientType'
    <3>1. CASE Head(posted[c]) = Close
      <4>1. do_close(c)
        BY <1>4, <3>1 DEF RunPosted
      <4> QED
        BY <1>1, <4>1, QueueKept DEF do_close, ClientType
    <3>2. CASE Head(posted[c]) # Close
      <4>1. do_write(c, Head(posted[c])) /\ Head(posted[c]) \in Lines
        BY <1>4, <2>2, <3>2 DEF RunPosted
      <4> QED
        BY <1>1, <4>1, DoWriteType
    <3> QED
      BY <3>1, <3>2
  <2>4. InputType'
    BY <1>1, <1>4, <2>2 DEF InputType, RunPosted
  <2>5. AgentType'
    BY <1>1, <1>4 DEF AgentType, RunPosted, agentVars
  <2> QED
    BY <2>3, <2>4, <2>5, InvAfter
<1>5. ASSUME NEW c \in Clients, WritePart(c) PROVE Inv'
  <2>1. pipe' \in [Clients -> Seq(Part)]
    <3>1. Head(out[c]) \in Part
      BY <1>1, <1>5 DEF ClientType, WritePart
    <3>2. Append(pipe[c], Head(out[c])) \in Seq(Part)
      BY <1>1, <3>1 DEF AgentType
    <3> QED
      BY <1>1, <1>5, <3>2 DEF AgentType, WritePart
  <2>2. InputType' /\ AgentType'
    BY <1>1, <1>5, <2>1 DEF InputType, AgentType, WritePart, agentVars
  <2> QED
    BY <1>1, <1>5, <2>2, WritePartType, InvAfter
<1>6. ASSUME NEW c \in Clients, handle_write(c) PROVE Inv'
  <2>1. InputType' /\ AgentType'
    BY <1>1, <1>6 DEF InputType, AgentType, handle_write, agentVars
  <2> QED
    BY <1>1, <1>6, <2>1, HandleWriteType, InvAfter
\* The client's other steps change no more than the socket and `running'.
<1>7. ASSUME NEW c \in Clients, ConnectFails(c) \/ PeerCloses(c) \/ RunReturns(c)
      PROVE  Inv'
  <2>1. ClientType'
    BY <1>1, <1>7, QueueKept DEF ClientType, ConnectFails, PeerCloses, RunReturns, do_close
  <2>2. InputType' /\ AgentType'
    BY <1>1, <1>7
    DEF InputType, AgentType, ConnectFails, PeerCloses, RunReturns, agentVars
  <2> QED
    BY <2>1, <2>2, InvAfter
<1>8. ASSUME NEW c \in Clients, Accept(c) PROVE Inv'
  <2>1. ClientType'
    BY <1>1, <1>8, QueueKept DEF ClientType, Accept
  <2>2. InputType' /\ AgentType'
    BY <1>1, <1>8 DEF InputType, AgentType, Accept, start
  <2> QED
    BY <2>1, <2>2, InvAfter
\* The agent leaves the client's program alone.
<1>9. ASSUME UNCHANGED clientVars, AgentType' PROVE Inv'
  <2>1. ClientType' /\ InputType'
    BY <1>1, <1>9, QueueKept DEF clientVars, ClientType, InputType
  <2> QED
    BY <1>9, <2>1, InvAfter
<1>10. ASSUME NEW c \in Clients, pipe[c] # <<>>
       PROVE  Head(pipe[c]) \in Part /\ Tail(pipe[c]) \in Seq(Part)
  BY <1>1, <1>10 DEF AgentType
<1>11. ASSUME NEW c \in Clients, handleReadHeader(c) PROVE Inv'
  <2>1. Head(pipe[c]) \in Part /\ Tail(pipe[c]) \in Seq(Part)
    BY <1>10, <1>11 DEF handleReadHeader
  <2>2. Head(pipe[c]).line \in Lines
    BY <2>1 DEF Part
  <2>3. AgentType'
    BY <1>1, <1>11, <2>1, <2>2 DEF AgentType, handleReadHeader, leave
  <2> QED
    BY <1>9, <1>11, <2>3 DEF handleReadHeader
<1>12. ASSUME NEW c \in Clients, handleReadBody(c) PROVE Inv'
  <2> DEFINE x == IF Head(pipe[c]) = [part |-> "body", line |-> header[c]]
                  THEN header[c] ELSE Garbled
  <2>1. /\ Append(processed[c], header[c]) \in Seq(Lines \cup {Garbled})
        /\ Append(processed[c], x) \in Seq(Lines \cup {Garbled})
    <3>1. header[c] \in Lines /\ processed[c] \in Seq(Lines \cup {Garbled})
      BY <1>1 DEF AgentType
    <3>2. x \in Lines \cup {Garbled}
      BY <3>1
    <3> HIDE DEF x
    <3> QED
      BY <3>1, <3>2
  <2>2. /\ \/ /\ processed' = [processed EXCEPT ![c] = Append(processed[c], header[c])]
              /\ pipe' = pipe
           \/ /\ processed' = [processed EXCEPT ![c] = Append(processed[c], x)]
              /\ pipe[c] # <<>> /\ pipe' = [pipe EXCEPT ![c] = Tail(pipe[c])]
        /\ reading' = [reading EXCEPT ![c] = "header"]
        /\ UNCHANGED <<clientVars, link, header, participants, listening, breaks>>
    BY <1>12 DEF handleReadBody
  <2> HIDE DEF x
  <2>3. AgentType'
    <3>1. pipe' \in [Clients -> Seq(Part)]
      BY <1>1, <1>10, <2>2 DEF AgentType
    <3>2. processed' \in [Clients -> Seq(Lines \cup {Garbled})]
      BY <1>1, <2>1, <2>2 DEF AgentType
    <3> QED
      BY <1>1, <2>2, <3>1, <3>2 DEF AgentType
  <2> QED
    BY <1>9, <2>2, <2>3
<1>13. ASSUME NEW c \in Clients, ReadFails(c) PROVE Inv'
  <2>1. AgentType'
    BY <1>1, <1>13 DEF AgentType, ReadFails, leave
  <2> QED
    BY <1>9, <1>13, <2>1 DEF ReadFails
<1>14. CASE AgentStops
  <2>1. AgentType'
    BY <1>1, <1>14 DEF AgentType, AgentStops
  <2> QED
    BY <1>9, <1>14, <2>1 DEF AgentStops
<1>15. ASSUME NEW c \in Clients, Break(c) PROVE Inv'
  <2>1. PICK n \in 0..Len(pipe[c]) : pipe' = [pipe EXCEPT ![c] = SubSeq(pipe[c], 1, n)]
    BY <1>15 DEF Break
  <2>2. SubSeq(pipe[c], 1, n) \in Seq(Part)
    BY <1>1 DEF AgentType
  <2>3. breaks' \in 0..MaxBreaks
    BY <1>1, <1>15, StreamAssumption DEF AgentType, Break
  <2>4. AgentType'
    BY <1>1, <1>15, <2>1, <2>2, <2>3 DEF AgentType, Break, agentVars
  <2> QED
    BY <1>9, <1>15, <2>4 DEF Break
<1>16. CASE UNCHANGED vars
  <2>1. AgentType'
    BY <1>1, <1>16 DEF AgentType, vars, agentVars
  <2> QED
    BY <1>9, <1>16, <2>1 DEF vars
<1> QED
  BY <1>2, <1>3, <1>4, <1>5, <1>6, <1>7, <1>8, <1>11, <1>12, <1>13, <1>14, <1>15, <1>16
  DEF Next, ClientStep, AgentStep

\* Type correctness.  In particular one message is being written at a time, the
\* front of the queue, so that the parts of two never mix on the connection.
THEOREM StreamTypeCorrect == Spec => []TypeOK
<1>1. Inv => TypeOK
  BY DEF Inv
<1> QED
  BY <1>1, InitInv, NextInv, PTL DEF Spec

-----------------------------------------------------------------------------
(***************************************************************************)
(* Refinement: the lines of a client, in the order they were typed, are      *)
(* processed, at the agent, in the connection, being written, queued and     *)
(* posted.  Lines are numbered, so that every place says which numbers it    *)
(* holds; two cursors say where on the way the agent reads and the client    *)
(* writes.                                                                   *)
(***************************************************************************)

\* The lines still posted (Close comes last), and those that left the queue.
Left(c) == IF eof[c] /\ posted[c] # <<>> THEN Len(posted[c]) - 1 ELSE Len(posted[c])
Gone(c) == Len(typed[c]) - Left(c) - Len(queue[c])

\* The line is one of these, and its number is right.
Genuine(lines, l) == l.n \in 1..Len(lines) /\ l = lines[l.n]

\* A place in the stream of parts, that of a part, and the one behind it.
At(n, p) == [n |-> n, part |-> p]
Place(p) == At(p.line.n, p.part)
Behind(p) == IF p.part = "head" /\ p.line.text # Empty
             THEN At(p.line.n, "body")
             ELSE At(p.line.n + 1, "head")

\* Where the client writes, and where the agent reads.
WriteAt(c) ==
  IF out[c] # <<>> THEN At(Gone(c) + 1, out[c][1].part)
  ELSE IF writing[c] THEN At(Gone(c) + 2, "head")
  ELSE At(Gone(c) + 1, "head")

ReadAt(c) ==
  IF reading[c] # "body" THEN At(Len(processed[c]) + 1, "head")
  ELSE IF header[c].text = Empty THEN At(Len(processed[c]) + 2, "head")
  ELSE At(Len(processed[c]) + 1, "body")

PostedInOrder(c) ==
  /\ eof[c] /\ posted[c] # <<>> => posted[c][Len(posted[c])] = Close
  /\ \A i \in 1..Left(c) : /\ posted[c][i] \in Lines
                           /\ Genuine(typed[c], posted[c][i])
                           /\ posted[c][i].n = Len(typed[c]) - Left(c) + i

QueuedInOrder(c) ==
  /\ Gone(c) >= 0
  /\ \A i \in 1..Len(queue[c]) : /\ Genuine(typed[c], queue[c][i])
                                 /\ queue[c][i].n = Gone(c) + i

\* What is left to write of the front: all of it, or its body.
WrittenInOrder(c) ==
  out[c] # <<>> => out[c] \in {Parts(Head(queue[c])), Tail(Parts(Head(queue[c])))}

PipedInOrder(c) ==
  /\ \A i \in 1..Len(pipe[c]) : Genuine(typed[c], pipe[c][i].line)
  /\ \A i \in 1..Len(pipe[c]) - 1 : Place(pipe[c][i + 1]) = Behind(pipe[c][i])
  /\ reading[c] # "none" /\ pipe[c] # <<>> => Place(pipe[c][1]) = ReadAt(c)

\* As long as the connection holds, nothing is missing between the cursors.
NothingMissing(c) ==
  link[c] = "up" =>
    /\ reading[c] # "none"
    /\ pipe[c] = <<>> => WriteAt(c) = ReadAt(c)
    /\ pipe[c] # <<>> => WriteAt(c) = Behind(pipe[c][Len(pipe[c])])

ReadInOrder(c) ==
  reading[c] = "body" => Genuine(typed[c], header[c]) /\ header[c].n = Len(processed[c]) + 1

NotYetConnected(c) ==
  sock[c] = "connecting" => /\ WriteAt(c) = At(1, "head")
                            /\ pipe[c] = <<>> /\ processed[c] = <<>>
                            /\ link[c] = "none" /\ reading[c] = "none"

ClientOrder(c) == PostedInOrder(c) /\ QueuedInOrder(c) /\ WrittenInOrder(c)
AgentOrder(c) ==
  PipedInOrder(c) /\ NothingMissing(c) /\ ReadInOrder(c) /\ NotYetConnected(c)

InOrder == \A c \in Clients : ClientOrder(c) /\ AgentOrder(c)

\* Sequences, element by element.
LEMMA TailElements ==
  ASSUME NEW S, NEW s \in Seq(S), s # <<>>
  PROVE  /\ Head(s) = s[1] /\ s[1] \in S /\ Len(s) \in Nat \ {0}
         /\ Tail(s) \in Seq(S) /\ Len(Tail(s)) = Len(s) - 1
         /\ \A i \in 1..Len(s) - 1 : Tail(s)[i] = s[i + 1]
OBVIOUS

LEMMA AppendElements ==
  ASSUME NEW S, NEW s \in Seq(S), NEW e \in S
  PROVE  /\ Append(s, e) \in Seq(S) /\ Len(s) \in Nat /\ Len(Append(s, e)) = Len(s) + 1
         /\ Append(s, e) # <<>>
         /\ \A i \in 1..Len(s) : Append(s, e)[i] = s[i]
         /\ Append(s, e)[Len(s) + 1] = e
OBVIOUS

\* The parts of a message in order.
LEMMA PartsInOrder ==
  ASSUME NEW line \in Lines
  PROVE  /\ Parts(line) # <<>> /\ Parts(line)[1] = [part |-> "head", line |-> line]
         /\ line.text = Empty => Len(Parts(line)) = 1 /\ Tail(Parts(line)) = <<>>
         /\ line.text # Empty => /\ Len(Parts(line)) = 2
                                 /\ Tail(Parts(line)) = <<[part |-> "body", line |-> line]>>
BY DEF Parts

\* The types at one client.
LEMMA TypesAt ==
  ASSUME Inv, NEW c \in Clients
  PROVE  /\ typed[c] \in Seq(Lines) /\ eof[c] \in BOOLEAN
         /\ posted[c] \in Seq(Lines \cup {Close}) /\ queue[c] \in Seq(Lines)
         /\ writing[c] \in BOOLEAN /\ out[c] \in Seq(Part) /\ pipe[c] \in Seq(Part)
         /\ header[c] \in Lines /\ processed[c] \in Seq(Lines \cup {Garbled})
         /\ reading[c] \in {"none", "header", "body"}
         /\ link[c] \in {"none", "up", "down", "silent"}
         /\ writing[c] \/ out[c] # <<>> => queue[c] # <<>>
         /\ Left(c) \in Nat /\ Gone(c) \in Int
<1>1. /\ typed[c] \in Seq(Lines) /\ eof[c] \in BOOLEAN
      /\ posted[c] \in Seq(Lines \cup {Close}) /\ queue[c] \in Seq(Lines)
      /\ writing[c] \in BOOLEAN /\ out[c] \in Seq(Part) /\ pipe[c] \in Seq(Part)
      /\ header[c] \in Lines /\ processed[c] \in Seq(Lines \cup {Garbled})
      /\ reading[c] \in {"none", "header", "body"}
      /\ link[c] \in {"none", "up", "down", "silent"}
  BY DEF Inv, TypeOK
<1>2. writing[c] \/ out[c] # <<>> => queue[c] # <<>>
  BY DEF Inv, FrontIsWritten
<1>3. Left(c) \in Nat
  BY <1>1 DEF Left
<1>4. Gone(c) \in Int
  BY <1>1, <1>3 DEF Gone
<1> QED
  BY <1>1, <1>2, <1>3, <1>4

\* A client that does nothing stays in order.
LEMMA ClientFrame ==
  ASSUME NEW c, ClientOrder(c), typed'[c] = typed[c], eof'[c] = eof[c],
         posted'[c] = posted[c], queue'[c] = queue[c], writing'[c] = writing[c],
         out'[c] = out[c]
  PROVE  /\ ClientOrder(c)' /\ WriteAt(c)' = WriteAt(c)
         /\ \A l : Genuine(typed[c], l) => Genuine(typed'[c], l)
<1>1. Left(c)' = Left(c) /\ Gone(c)' = Gone(c)
  BY DEF Left, Gone
<1>2. PostedInOrder(c)'
  BY <1>1 DEF ClientOrder, PostedInOrder, Genuine
<1>3. QueuedInOrder(c)'
  BY <1>1 DEF ClientOrder, QueuedInOrder, Genuine
<1>4. WrittenInOrder(c)'
  BY DEF ClientOrder, WrittenInOrder
<1>5. WriteAt(c)' = WriteAt(c)
  BY <1>1 DEF WriteAt
<1> QED
  BY <1>2, <1>3, <1>4, <1>5 DEF ClientOrder, Genuine

\* A connection and an agent that do nothing stay in order, if the client writes
\* where it wrote and its lines stay what they are.
LEMMA AgentFrame ==
  ASSUME NEW c, Inv, c \in Clients, AgentOrder(c),
         pipe'[c] = pipe[c], link'[c] = link[c], reading'[c] = reading[c],
         header'[c] = header[c], processed'[c] = processed[c],
         sock'[c] = "connecting" => sock[c] = "connecting",
         WriteAt(c)' = WriteAt(c),
         \A l : Genuine(typed[c], l) => Genuine(typed'[c], l)
  PROVE  AgentOrder(c)'
<1>1. ReadAt(c)' = ReadAt(c)
  BY DEF ReadAt
<1>2. PipedInOrder(c)'
  BY <1>1 DEF AgentOrder, PipedInOrder
<1>3. NothingMissing(c)'
  BY <1>1 DEF AgentOrder, NothingMissing
<1>4. ReadInOrder(c)'
  BY DEF AgentOrder, ReadInOrder
<1>5. NotYetConnected(c)'
  BY DEF AgentOrder, NotYetConnected
<1> QED
  BY <1>2, <1>3, <1>4, <1>5 DEF AgentOrder

\* A line is typed.
LEMMA TypeInOrder ==
  ASSUME Inv, NEW c \in Clients, ClientOrder(c), Type(c)
  PROVE  /\ ClientOrder(c)' /\ WriteAt(c)' = WriteAt(c)
         /\ \A l : Genuine(typed[c], l) => Genuine(typed'[c], l)
         /\ \E l \in Lines : typed' = [typed EXCEPT ![c] = Append(@, l)]
<1>1. /\ typed[c] \in Seq(Lines) /\ posted[c] \in Seq(Lines \cup {Close})
      /\ queue[c] \in Seq(Lines) /\ Left(c) \in Nat
  BY TypesAt
<1>2. PICK line \in Lines : /\ line.n = Len(typed[c]) + 1
                            /\ typed' = [typed EXCEPT ![c] = Append(@, line)]
                            /\ posted' = [posted EXCEPT ![c] = Append(@, line)]
  <2>1. PICK t \in Texts :
          LET l == [n |-> Len(typed[c]) + 1, text |-> t]
          IN  /\ typed' = [typed EXCEPT ![c] = Append(@, l)]
              /\ posted' = [posted EXCEPT ![c] = Append(@, l)]
    BY DEF Type
  <2>2. Len(typed[c]) + 1 \in 1..MaxLines
    BY <1>1, StreamAssumption DEF Type
  <2>3. [n |-> Len(typed[c]) + 1, text |-> t] \in Lines
    BY <2>2 DEF Lines
  <2> QED
    BY <2>1, <2>3
<1>3. line \in Lines /\ line.n = Len(typed[c]) + 1
  BY <1>2
<1>4. /\ typed'[c] = Append(typed[c], line)
      /\ posted'[c] = Append(posted[c], line)
      /\ ~eof[c] /\ eof'[c] = eof[c]
      /\ queue'[c] = queue[c] /\ writing'[c] = writing[c] /\ out'[c] = out[c]
  BY <1>2 DEF Type, Inv, TypeOK
<1>5. /\ Len(typed'[c]) = Len(typed[c]) + 1 /\ Len(typed[c]) \in Nat
      /\ \A i \in 1..Len(typed[c]) : typed'[c][i] = typed[c][i]
      /\ typed'[c][Len(typed[c]) + 1] = line
  BY <1>1, <1>3, <1>4, AppendElements
<1>6. /\ Len(posted'[c]) = Len(posted[c]) + 1 /\ Len(posted[c]) \in Nat
      /\ \A i \in 1..Len(posted[c]) : posted'[c][i] = posted[c][i]
      /\ posted'[c][Len(posted[c]) + 1] = line
  <2>1. line \in Lines \cup {Close}
    BY <1>3
  <2> QED
    BY <1>1, <1>4, <2>1, AppendElements
<1>7. Left(c) = Len(posted[c]) /\ Left(c)' = Left(c) + 1
  BY <1>4, <1>6 DEF Left
<1>8. Gone(c)' = Gone(c)
  <2>1. Len(queue[c]) \in Nat
    BY <1>1
  <2> QED
    BY <1>4, <1>5, <1>7, <1>6, <2>1 DEF Gone
<1>9. Genuine(typed'[c], line) /\ \A l : Genuine(typed[c], l) => Genuine(typed'[c], l)
  BY <1>3, <1>5 DEF Genuine
<1>10. PostedInOrder(c)'
  <2>1. ASSUME NEW i \in 1..Left(c) + 1
        PROVE  /\ posted'[c][i] \in Lines /\ Genuine(typed'[c], posted'[c][i])
               /\ posted'[c][i].n = Len(typed'[c]) - (Left(c) + 1) + i
    <3>1. CASE i \in 1..Left(c)
      <4>1. /\ posted[c][i] \in Lines /\ Genuine(typed[c], posted[c][i])
            /\ posted[c][i].n = Len(typed[c]) - Left(c) + i
        BY <3>1 DEF ClientOrder, PostedInOrder
      <4>2. posted'[c][i] = posted[c][i]
        BY <1>6, <1>7, <3>1
      <4> QED
        <5>1. /\ posted'[c][i] \in Lines /\ Genuine(typed'[c], posted'[c][i])
              /\ posted'[c][i].n = Len(typed[c]) - Left(c) + i
          BY <1>9, <4>1, <4>2
        <5>2. Len(typed'[c]) - (Left(c) + 1) + i = Len(typed[c]) - Left(c) + i
          BY <1>1, <1>5, <3>1
        <5> QED
          BY <5>1, <5>2
    <3>2. CASE i = Left(c) + 1
      <4>1. posted'[c][i] = line
        BY <1>6, <1>7, <3>2
      <4> QED
        <5>1. Len(typed'[c]) - (Left(c) + 1) + i = Len(typed[c]) + 1
          BY <1>1, <1>5, <3>2
        <5> QED
          BY <1>3, <1>9, <4>1, <5>1
    <3> QED
      BY <1>1, <3>1, <3>2
  <2> QED
    BY <1>4, <1>7, <2>1 DEF PostedInOrder
<1>11. QueuedInOrder(c)'
  BY <1>4, <1>8, <1>5 DEF ClientOrder, QueuedInOrder, Genuine
<1>12. WrittenInOrder(c)'
  BY <1>4 DEF ClientOrder, WrittenInOrder
<1>13. WriteAt(c)' = WriteAt(c)
  BY <1>4, <1>8 DEF WriteAt
<1> QED
  BY <1>2, <1>9, <1>10, <1>11, <1>12, <1>13 DEF ClientOrder

\* The input ends.
LEMMA EofInOrder ==
  ASSUME Inv, NEW c \in Clients, ClientOrder(c), Eof(c)
  PROVE  /\ ClientOrder(c)' /\ WriteAt(c)' = WriteAt(c)
         /\ \A l : Genuine(typed[c], l) => Genuine(typed'[c], l)
<1>1. posted[c] \in Seq(Lines \cup {Close}) /\ Close \in Lines \cup {Close}
  BY TypesAt
<1>2. /\ ~eof[c] /\ eof'[c] /\ posted'[c] = Append(posted[c], Close)
      /\ typed'[c] = typed[c] /\ queue'[c] = queue[c] /\ writing'[c] = writing[c]
      /\ out'[c] = out[c]
  BY DEF Eof, Inv, TypeOK
<1>3. /\ Len(posted'[c]) = Len(posted[c]) + 1 /\ posted'[c] # <<>> /\ Len(posted[c]) \in Nat
      /\ \A i \in 1..Len(posted[c]) : posted'[c][i] = posted[c][i]
      /\ posted'[c][Len(posted[c]) + 1] = Close
  BY <1>1, <1>2, AppendElements
<1>4. Left(c) = Len(posted[c]) /\ Left(c)' = Left(c)
  BY <1>2, <1>3 DEF Left
<1>5. Gone(c)' = Gone(c)
  BY <1>2, <1>4 DEF Gone
<1>6. PostedInOrder(c)'
  <2>1. posted'[c][Len(posted'[c])] = Close
    BY <1>3
  <2>2. \A i \in 1..Left(c) : /\ posted'[c][i] \in Lines /\ Genuine(typed'[c], posted'[c][i])
                              /\ posted'[c][i].n = Len(typed'[c]) - Left(c) + i
    BY <1>2, <1>3, <1>4 DEF ClientOrder, PostedInOrder
  <2> QED
    BY <1>4, <2>1, <2>2 DEF PostedInOrder
<1>7. QueuedInOrder(c)'
  BY <1>2, <1>5 DEF ClientOrder, QueuedInOrder, Genuine
<1>8. WrittenInOrder(c)'
  BY <1>2 DEF ClientOrder, WrittenInOrder
<1>9. WriteAt(c)' = WriteAt(c)
  BY <1>2, <1>5 DEF WriteAt
<1>10. \A l : Genuine(typed[c], l) => Genuine(typed'[c], l)
  BY <1>2 DEF Genuine
<1> QED
  BY <1>6, <1>7, <1>8, <1>9, <1>10 DEF ClientOrder

\* do_write puts a posted line at the end of the queue, and begins to write it
\* if there was nothing to write.
LEMMA WriteInOrder ==
  ASSUME Inv, NEW c \in Clients, ClientOrder(c), RunPosted(c), Head(posted[c]) # Close
  PROVE  ClientOrder(c)' /\ WriteAt(c)' = WriteAt(c)
<1> DEFINE line == Head(posted[c])
<1>1. /\ posted[c] \in Seq(Lines \cup {Close}) /\ queue[c] \in Seq(Lines) /\ posted[c] # <<>>
      /\ Left(c) \in Nat /\ Gone(c) \in Int /\ typed[c] \in Seq(Lines)
      /\ writing[c] \/ out[c] # <<>> => queue[c] # <<>>
  BY TypesAt DEF RunPosted
<1>2. /\ line = posted[c][1] /\ Len(posted[c]) \in Nat \ {0}
      /\ Len(Tail(posted[c])) = Len(posted[c]) - 1
      /\ \A i \in 1..Len(posted[c]) - 1 : Tail(posted[c])[i] = posted[c][i + 1]
  BY <1>1, TailElements
<1>3. /\ typed'[c] = typed[c] /\ eof'[c] = eof[c]
      /\ posted'[c] = Tail(posted[c])
      /\ queue'[c] = Append(queue[c], line)
      /\ queue[c] = <<>> => writing'[c] /\ out'[c] = Parts(line)
      /\ queue[c] # <<>> => writing'[c] = writing[c] /\ out'[c] = out[c]
  BY DEF RunPosted, do_write, Inv, TypeOK
<1>4. /\ eof[c] => posted[c][Len(posted[c])] = Close
      /\ \A i \in 1..Left(c) : /\ posted[c][i] \in Lines /\ Genuine(typed[c], posted[c][i])
                               /\ posted[c][i].n = Len(typed[c]) - Left(c) + i
  BY <1>1 DEF ClientOrder, PostedInOrder
<1>5. /\ Left(c) \in 1..Len(posted[c])
      /\ Left(c) = IF eof[c] THEN Len(posted[c]) - 1 ELSE Len(posted[c])
  <2>1. eof[c] => Len(posted[c]) # 1
    BY <1>2, <1>4
  <2>2. Left(c) = IF eof[c] THEN Len(posted[c]) - 1 ELSE Len(posted[c])
    BY <1>1 DEF Left
  <2> DEFINE n == Len(posted[c])
  <2>0. n \in Nat \ {0}
    BY <1>2
  <2> HIDE DEF n
  <2>3. CASE eof[c]
    <3>1. n # 1 /\ Left(c) = n - 1
      BY <2>1, <2>2, <2>3 DEF n
    <3>2. n - 1 \in 1..n
      BY <2>0, <3>1
    <3> QED
      BY <2>2, <3>1, <3>2 DEF n
  <2>4. CASE ~eof[c]
    <3>1. n \in 1..n /\ Left(c) = n
      BY <2>0, <2>2, <2>4 DEF n
    <3> QED
      BY <2>2, <3>1 DEF n
  <2> QED
    BY <2>3, <2>4
<1>6. /\ line \in Lines /\ Genuine(typed[c], line)
      /\ line.n = Len(typed[c]) - Left(c) + 1
  <2>1. 1 \in 1..Left(c)
    BY <1>5
  <2> QED
    BY <1>2, <1>4, <2>1
<1> HIDE DEF line
<1>7. /\ queue'[c] # <<>> /\ Len(queue[c]) \in Nat /\ Len(queue'[c]) = Len(queue[c]) + 1
      /\ \A i \in 1..Len(queue[c]) : queue'[c][i] = queue[c][i]
      /\ queue'[c][Len(queue[c]) + 1] = line
      /\ queue'[c] \in Seq(Lines)
  BY <1>1, <1>3, <1>6, AppendElements
<1>8. Left(c)' = Left(c) - 1 /\ (eof[c] => posted'[c] # <<>>)
  <2>1. Len(posted'[c]) = Len(posted[c]) - 1
    BY <1>2, <1>3
  <2>2. eof[c] => posted'[c] # <<>>
    BY <1>5, <2>1, <1>2
  <2>3. Left(c)' = IF eof[c] THEN Len(posted'[c]) - 1 ELSE Len(posted'[c])
    BY <1>3, <2>2 DEF Left
  <2> QED
    BY <1>2, <1>5, <2>1, <2>2, <2>3
<1>9. Gone(c)' = Gone(c) /\ Gone(c) = Len(typed[c]) - Left(c) - Len(queue[c])
  <2>1. Len(typed[c]) \in Nat /\ Len(queue[c]) \in Nat
    BY <1>1
  <2>2. Gone(c) = Len(typed[c]) - Left(c) - Len(queue[c])
    BY DEF Gone
  <2>3. Gone(c)' = Len(typed[c]) - (Left(c) - 1) - (Len(queue[c]) + 1)
    BY <1>3, <1>7, <1>8 DEF Gone
  <2>4. Len(typed[c]) - (Left(c) - 1) - (Len(queue[c]) + 1)
        = Len(typed[c]) - Left(c) - Len(queue[c])
    <3>1. Left(c) \in Nat
      BY <1>1
    <3>2. \A t, k, q \in Nat : t - (k - 1) - (q + 1) = t - k - q
      OBVIOUS
    <3> QED
      BY <2>1, <3>1, <3>2
  <2> QED
    BY <2>2, <2>3, <2>4
<1>10. PostedInOrder(c)'
  <2>1. eof[c] => posted'[c][Len(posted'[c])] = Close
    BY <1>2, <1>3, <1>4, <1>5
  <2>2. ASSUME NEW i \in 1..Left(c) - 1
        PROVE  /\ posted'[c][i] \in Lines /\ Genuine(typed[c], posted'[c][i])
               /\ posted'[c][i].n = Len(typed[c]) - (Left(c) - 1) + i
    <3>1. i + 1 \in 1..Left(c) /\ i \in 1..Len(posted[c]) - 1 /\ i \in Int
      BY <1>1, <1>2, <1>5, <2>2
    <3>2. posted'[c][i] = posted[c][i + 1]
      BY <1>2, <1>3, <3>1
    <3>3. Len(typed[c]) - Left(c) + (i + 1) = Len(typed[c]) - (Left(c) - 1) + i
      <4>1. Len(typed[c]) \in Nat
        BY <1>1
      <4> QED
        BY <1>1, <3>1, <4>1
    <3> QED
      BY <1>4, <3>1, <3>2, <3>3
  <2> QED
    BY <1>3, <1>8, <2>1, <2>2 DEF PostedInOrder
<1>11. QueuedInOrder(c)'
  <2>1. Gone(c) >= 0 /\ \A i \in 1..Len(queue[c]) : /\ Genuine(typed[c], queue[c][i])
                                                    /\ queue[c][i].n = Gone(c) + i
    BY DEF ClientOrder, QueuedInOrder
  <2>2. ASSUME NEW i \in 1..Len(queue[c]) + 1
        PROVE  Genuine(typed[c], queue'[c][i]) /\ queue'[c][i].n = Gone(c) + i
    <3>1. CASE i \in 1..Len(queue[c])
      BY <1>7, <2>1, <3>1
    <3>2. CASE i = Len(queue[c]) + 1
      <4>1. Len(typed[c]) - Left(c) + 1 = Gone(c) + i
        <5>1. Len(typed[c]) \in Nat
          BY <1>1
        <5> QED
          BY <1>1, <1>7, <1>9, <3>2, <5>1
      <4> QED
        BY <1>6, <1>7, <3>2, <4>1
    <3> QED
      BY <1>7, <3>1, <3>2
  <2> QED
    BY <1>3, <1>7, <1>9, <2>1, <2>2 DEF QueuedInOrder
<1>12. WrittenInOrder(c)' /\ WriteAt(c)' = WriteAt(c)
  <2>1. CASE queue[c] = <<>>
    <3>1. queue'[c][1] = line /\ Head(queue'[c]) = line
      <4>1. Len(queue[c]) + 1 = 1
        BY <2>1
      <4> QED
        BY <1>7, <4>1, TailElements
    <3>2. out'[c] = Parts(line) /\ ~writing[c] /\ out[c] = <<>>
      BY <1>1, <1>3, <2>1
    <3> QED
      <4>1. WrittenInOrder(c)'
        BY <3>1, <3>2 DEF WrittenInOrder
      <4>2. out'[c] # <<>> /\ out'[c][1].part = "head"
        <5>1. Parts(line) # <<>> /\ Parts(line)[1] = [part |-> "head", line |-> line]
          BY <1>6, PartsInOrder
        <5> QED
          BY <3>2, <5>1
      <4>3. WriteAt(c) = At(Gone(c) + 1, "head")
        BY <3>2 DEF WriteAt
      <4>4. WriteAt(c)' = At(Gone(c) + 1, "head")
        BY <1>9, <4>2 DEF WriteAt
      <4> QED
        BY <4>1, <4>3, <4>4
  <2>2. CASE queue[c] # <<>>
    <3>1. Head(queue'[c]) = Head(queue[c])
      <4>1. 1 \in 1..Len(queue[c]) /\ Head(queue[c]) = queue[c][1]
        BY <1>1, <2>2, TailElements
      <4>2. Head(queue'[c]) = queue'[c][1]
        BY <1>7, TailElements
      <4> QED
        BY <1>7, <4>1, <4>2
    <3> QED
      BY <1>3, <1>9, <2>2, <3>1 DEF ClientOrder, WrittenInOrder, WriteAt
  <2> QED
    BY <2>1, <2>2
<1> QED
  BY <1>10, <1>11, <1>12 DEF ClientOrder

\* do_close leaves everything where it is.
LEMMA CloseInOrder ==
  ASSUME Inv, NEW c \in Clients, ClientOrder(c), RunPosted(c), Head(posted[c]) = Close
  PROVE  ClientOrder(c)' /\ WriteAt(c)' = WriteAt(c)
<1>1. /\ posted[c] \in Seq(Lines \cup {Close}) /\ posted[c] # <<>> /\ Left(c) \in Nat
      /\ typed[c] \in Seq(Lines) /\ queue[c] \in Seq(Lines)
  BY TypesAt DEF RunPosted
<1>2. /\ posted[c][1] = Close /\ Len(posted[c]) \in Nat \ {0}
      /\ Tail(posted[c]) \in Seq(Lines \cup {Close})
      /\ Len(Tail(posted[c])) = Len(posted[c]) - 1
  BY <1>1, TailElements
<1>3. /\ typed'[c] = typed[c] /\ eof'[c] = eof[c] /\ posted'[c] = Tail(posted[c])
      /\ queue'[c] = queue[c] /\ writing'[c] = writing[c] /\ out'[c] = out[c]
  BY DEF RunPosted, do_close, Inv, TypeOK
<1>4. Left(c) = 0 /\ Len(posted[c]) = 1
  <2>1. ~(1 \in 1..Left(c))
    BY <1>2, NoLines DEF ClientOrder, PostedInOrder
  <2>2. Left(c) = 0
    BY <1>1, <2>1
  <2> QED
    BY <1>1, <1>2, <2>2 DEF Left
<1>5. posted'[c] = <<>> /\ Left(c)' = 0
  <2>1. posted'[c] \in Seq(Lines \cup {Close}) /\ Len(posted'[c]) = 0
    BY <1>2, <1>3, <1>4
  <2>2. posted'[c] = <<>>
    BY <2>1
  <2> QED
    BY <2>1, <2>2 DEF Left
<1>6. Gone(c)' = Gone(c)
  BY <1>3, <1>4, <1>5 DEF Gone
<1>7. PostedInOrder(c)'
  BY <1>5 DEF PostedInOrder
<1>8. QueuedInOrder(c)' /\ WrittenInOrder(c)' /\ WriteAt(c)' = WriteAt(c)
  BY <1>3, <1>6 DEF ClientOrder, QueuedInOrder, WrittenInOrder, WriteAt
<1> QED
  BY <1>7, <1>8 DEF ClientOrder

\* handle_write goes on with the next line, which is where it has come to.
LEMMA HandleWriteInOrder ==
  ASSUME Inv, NEW c \in Clients, ClientOrder(c), handle_write(c)
  PROVE  ClientOrder(c)' /\ WriteAt(c)' = WriteAt(c)
<1>1. /\ queue[c] \in Seq(Lines) /\ queue[c] # <<>> /\ writing[c]
      /\ Left(c) \in Nat /\ Gone(c) \in Int
  BY TypesAt DEF handle_write
<1>2. /\ typed'[c] = typed[c] /\ eof'[c] = eof[c] /\ posted'[c] = posted[c]
      /\ \/ /\ out[c] = <<>> /\ queue'[c] = Tail(queue[c])
            /\ writing'[c] = (Len(queue[c]) > 1)
            /\ out'[c] = IF Len(queue[c]) > 1 THEN Parts(queue[c][2]) ELSE <<>>
         \/ /\ out[c] # <<>> /\ queue'[c] = queue[c] /\ out'[c] = out[c]
  BY DEF handle_write, Inv, TypeOK
<1>3. Left(c)' = Left(c)
  BY <1>2 DEF Left
<1>4. PostedInOrder(c)'
  BY <1>2, <1>3 DEF ClientOrder, PostedInOrder
<1>5. CASE out[c] # <<>>
  <2>1. Gone(c)' = Gone(c)
    BY <1>2, <1>3, <1>5 DEF Gone
  <2> QED
    BY <1>2, <1>4, <1>5, <2>1 DEF ClientOrder, QueuedInOrder, WrittenInOrder, WriteAt
<1>6. CASE out[c] = <<>>
  <2>1. /\ Len(queue[c]) \in Nat \ {0} /\ queue'[c] \in Seq(Lines)
        /\ Len(queue'[c]) = Len(queue[c]) - 1
        /\ \A i \in 1..Len(queue[c]) - 1 : queue'[c][i] = queue[c][i + 1]
    <3>1. queue'[c] = Tail(queue[c])
      BY <1>2, <1>6
    <3>2. /\ Len(queue[c]) \in Nat \ {0} /\ Tail(queue[c]) \in Seq(Lines)
          /\ Len(Tail(queue[c])) = Len(queue[c]) - 1
          /\ \A i \in 1..Len(queue[c]) - 1 : Tail(queue[c])[i] = queue[c][i + 1]
      BY <1>1, TailElements
    <3> QED
      BY <3>1, <3>2
  <2>2. Gone(c)' = Gone(c) + 1
    <3>1. Gone(c) = Len(typed[c]) - Left(c) - Len(queue[c])
      BY DEF Gone
    <3>2. Gone(c)' = Len(typed[c]) - Left(c) - (Len(queue[c]) - 1)
      BY <1>2, <1>3, <2>1 DEF Gone
    <3>3. Len(typed[c]) \in Nat
      BY TypesAt
    <3>4. \A t, k, q \in Nat : t - k - (q - 1) = t - k - q + 1
      OBVIOUS
    <3> QED
      BY <1>1, <2>1, <3>1, <3>2, <3>3, <3>4
  <2>3. Gone(c) >= 0 /\ \A i \in 1..Len(queue[c]) : /\ Genuine(typed[c], queue[c][i])
                                                    /\ queue[c][i].n = Gone(c) + i
    BY DEF ClientOrder, QueuedInOrder
  <2>4. QueuedInOrder(c)'
    <3> DEFINE n == Len(queue[c])
               g == Gone(c)
    <3>1. n \in Nat \ {0} /\ g \in Int /\ g >= 0
      BY <1>1, <2>1, <2>3
    <3> HIDE DEF n, g
    <3>2. ASSUME NEW i \in 1..n - 1
          PROVE  Genuine(typed[c], queue'[c][i]) /\ queue'[c][i].n = g + 1 + i
      <4>1. i + 1 \in 1..n /\ g + (i + 1) = g + 1 + i
        BY <3>1, <3>2
      <4> QED
        BY <2>1, <2>3, <3>2, <4>1 DEF n, g
    <3>3. g + 1 >= 0
      BY <3>1
    <3> QED
      BY <1>2, <2>1, <2>2, <3>2, <3>3 DEF QueuedInOrder, n, g
  <2>5. CASE Len(queue[c]) > 1
    <3>1. out'[c] = Parts(queue[c][2]) /\ queue[c][2] \in Lines
      BY <1>1, <1>2, <1>6, <2>5
    <3>2. Head(queue'[c]) = queue[c][2]
      <4>1. 1 \in 1..Len(queue[c]) - 1 /\ 1 + 1 = 2
        BY <2>1, <2>5
      <4>2. queue'[c][1] = queue[c][2]
        BY <2>1, <4>1
      <4>3. queue'[c] # <<>>
        BY <2>1, <2>5
      <4> QED
        BY <2>1, <4>2, <4>3, TailElements
    <3>3. out'[c] # <<>> /\ out'[c][1].part = "head"
      <4>1. /\ Parts(queue[c][2]) # <<>>
            /\ Parts(queue[c][2])[1] = [part |-> "head", line |-> queue[c][2]]
        BY <3>1, PartsInOrder
      <4> QED
        BY <3>1, <4>1
    <3>4. WrittenInOrder(c)'
      BY <3>1, <3>2 DEF WrittenInOrder
    <3>5. WriteAt(c) = At(Gone(c) + 2, "head") /\ WriteAt(c)' = At(Gone(c) + 1 + 1, "head")
      BY <1>1, <1>6, <2>2, <3>3 DEF WriteAt
    <3>6. Gone(c) + 1 + 1 = Gone(c) + 2
      BY <1>1
    <3> QED
      BY <1>4, <2>4, <3>4, <3>5, <3>6 DEF ClientOrder
  <2>6. CASE ~(Len(queue[c]) > 1)
    <3>1. out'[c] = <<>> /\ ~writing'[c]
      BY <1>2, <1>6, <2>6
    <3>2. WriteAt(c) = At(Gone(c) + 2, "head") /\ WriteAt(c)' = At(Gone(c) + 1 + 1, "head")
      BY <1>1, <1>6, <2>2, <3>1 DEF WriteAt
    <3>3. Gone(c) + 1 + 1 = Gone(c) + 2
      BY <1>1
    <3> QED
      BY <1>4, <2>4, <3>1, <3>2, <3>3 DEF ClientOrder, WrittenInOrder
  <2> QED
    BY <2>5, <2>6
<1> QED
  BY <1>5, <1>6

\* The part that WritePart hands over, and what is left of the message then.
LEMMA PartInOrder ==
  ASSUME Inv, NEW c \in Clients, ClientOrder(c), WritePart(c)
  PROVE  /\ ClientOrder(c)'
         /\ out[c][1] \in Part /\ Genuine(typed[c], out[c][1].line)
         /\ Place(out[c][1]) = WriteAt(c) /\ Behind(out[c][1]) = WriteAt(c)'
<1>1. /\ queue[c] \in Seq(Lines) /\ queue[c] # <<>> /\ writing[c] \in BOOLEAN
      /\ out[c] \in Seq(Part) /\ out[c] # <<>> /\ Gone(c) \in Int
  BY TypesAt DEF WritePart
<1>2. /\ typed'[c] = typed[c] /\ eof'[c] = eof[c] /\ posted'[c] = posted[c]
      /\ queue'[c] = queue[c] /\ writing[c] /\ writing'[c] /\ out'[c] = Tail(out[c])
  BY DEF WritePart, Inv, TypeOK
<1> DEFINE line == Head(queue[c])
           g == Gone(c)
<1>3. line \in Lines /\ Genuine(typed[c], line) /\ line.n = g + 1
  <2>1. line = queue[c][1] /\ 1 \in 1..Len(queue[c]) /\ line \in Lines
    BY <1>1, TailElements
  <2> QED
    BY <2>1 DEF ClientOrder, QueuedInOrder
<1>4. Left(c)' = Left(c) /\ g' = g
  BY <1>2 DEF Left, Gone
<1>5. out[c] = Parts(line) \/ out[c] = Tail(Parts(line))
  BY <1>1 DEF ClientOrder, WrittenInOrder
<1>6. PostedInOrder(c)' /\ QueuedInOrder(c)'
  BY <1>2, <1>4 DEF ClientOrder, PostedInOrder, QueuedInOrder
<1> HIDE DEF line
<1> DEFINE h == [part |-> "head", line |-> line]
           b == [part |-> "body", line |-> line]
<1>7. \/ /\ out[c][1] = h /\ line.text = Empty /\ Tail(out[c]) = <<>>
      \/ /\ out[c][1] = h /\ line.text # Empty
         /\ Tail(out[c]) = Tail(Parts(line)) /\ Tail(out[c]) = <<b>>
      \/ /\ out[c][1] = b /\ Tail(out[c]) = <<>>
  <2>1. /\ Parts(line)[1] = h
        /\ line.text = Empty => Tail(Parts(line)) = <<>>
        /\ line.text # Empty => Tail(Parts(line)) = <<b>>
    BY <1>3, PartsInOrder
  <2>2. CASE out[c] = Parts(line)
    BY <2>1, <2>2
  <2>3. CASE out[c] = Tail(Parts(line))
    <3>1. out[c] = <<b>>
      BY <1>1, <2>1, <2>3
    <3>2. <<b>>[1] = b /\ Tail(<<b>>) = <<>>
      OBVIOUS
    <3> HIDE DEF b, h
    <3> QED
      BY <3>1, <3>2
  <2> QED
    BY <1>5, <2>2, <2>3
<1>8. WrittenInOrder(c)'
  <2>1. out'[c] # <<>> => out'[c] = Tail(Parts(line))
    BY <1>2, <1>7
  <2> QED
    BY <1>2, <2>1 DEF WrittenInOrder, line
<1>9. /\ h \in Part /\ b \in Part /\ h.part = "head" /\ b.part = "body"
      /\ h.line = line /\ b.line = line
  BY <1>3 DEF Part
<1>10. WriteAt(c) = At(g + 1, out[c][1].part)
  BY <1>1 DEF WriteAt
<1>11. WriteAt(c)' = IF out'[c] # <<>> THEN At(g + 1, out'[c][1].part) ELSE At(g + 2, "head")
  BY <1>2, <1>4 DEF WriteAt
<1>12. g + 1 + 1 = g + 2 /\ g + 1 \in Int
  BY <1>1
<1>13. <<b>> # <<>> /\ <<b>>[1] = b
  OBVIOUS
<1> HIDE DEF h, b, g
<1>14. Behind(out[c][1]) = WriteAt(c)'
  <2>1. CASE out[c][1] = h /\ line.text = Empty /\ Tail(out[c]) = <<>>
    BY <1>2, <1>3, <1>9, <1>11, <1>12, <2>1 DEF Behind
  <2>2. CASE out[c][1] = h /\ line.text # Empty /\ Tail(out[c]) = <<b>>
    BY <1>2, <1>3, <1>9, <1>11, <1>13, <2>2 DEF Behind
  <2>3. CASE out[c][1] = b /\ Tail(out[c]) = <<>>
    BY <1>2, <1>3, <1>9, <1>11, <1>12, <2>3 DEF Behind
  <2> QED
    BY <1>7, <2>1, <2>2, <2>3
<1>15. /\ out[c][1] \in Part /\ Genuine(typed[c], out[c][1].line)
       /\ Place(out[c][1]) = WriteAt(c)
  BY <1>3, <1>7, <1>9, <1>10 DEF Place
<1> QED
  BY <1>6, <1>8, <1>14, <1>15 DEF ClientOrder

\* The part handed over lands behind all others, or, once the connection is
\* down, nowhere.
LEMMA WritePartInOrder ==
  ASSUME Inv, NEW c \in Clients, ClientOrder(c), AgentOrder(c), WritePart(c)
  PROVE  ClientOrder(c)' /\ AgentOrder(c)'
<1>1. /\ ClientOrder(c)' /\ out[c][1] \in Part /\ Genuine(typed[c], out[c][1].line)
      /\ Place(out[c][1]) = WriteAt(c) /\ Behind(out[c][1]) = WriteAt(c)'
  BY PartInOrder
<1>2. /\ typed'[c] = typed[c] /\ link'[c] = link[c] /\ reading'[c] = reading[c]
      /\ header'[c] = header[c] /\ processed'[c] = processed[c] /\ sock'[c] = "open"
  BY DEF WritePart, agentVars
<1>3. ReadAt(c)' = ReadAt(c)
  BY <1>2 DEF ReadAt
<1>4. ReadInOrder(c)' /\ NotYetConnected(c)'
  BY <1>2 DEF AgentOrder, ReadInOrder, NotYetConnected
<1>5. CASE link[c] # "up"
  <2>1. pipe'[c] = pipe[c]
    BY <1>5 DEF WritePart, Inv, TypeOK
  <2> QED
    BY <1>1, <1>2, <1>3, <1>4, <1>5, <2>1 DEF AgentOrder, PipedInOrder, NothingMissing
<1>6. CASE link[c] = "up"
  <2> DEFINE p == out[c][1]
             m == Len(pipe[c])
  <2>1. pipe[c] \in Seq(Part) /\ p \in Part /\ pipe'[c] = Append(pipe[c], p)
    <3>1. Head(out[c]) = p
      <4>1. out[c] \in Seq(Part) /\ out[c] # <<>>
        BY TypesAt DEF WritePart
      <4> QED
        BY <4>1, TailElements
    <3>2. pipe[c] \in Seq(Part) /\ pipe'[c] = Append(pipe[c], Head(out[c]))
      BY <1>6 DEF WritePart, Inv, TypeOK
    <3> QED
      BY <1>1, <3>1, <3>2
  <2>2. /\ m \in Nat /\ Len(pipe'[c]) = m + 1 /\ pipe'[c] # <<>>
        /\ \A i \in 1..m : pipe'[c][i] = pipe[c][i]
        /\ pipe'[c][m + 1] = p
    BY <2>1, AppendElements
  <2>3. m = 0 <=> pipe[c] = <<>>
    BY <2>1
  <2>4. /\ \A i \in 1..m : Genuine(typed[c], pipe[c][i].line)
        /\ \A i \in 1..m - 1 : Place(pipe[c][i + 1]) = Behind(pipe[c][i])
        /\ pipe[c] # <<>> => Place(pipe[c][1]) = ReadAt(c)
        /\ reading[c] # "none"
        /\ pipe[c] = <<>> => Place(p) = ReadAt(c)
        /\ pipe[c] # <<>> => Place(p) = Behind(pipe[c][m])
    BY <1>1, <1>6 DEF AgentOrder, PipedInOrder, NothingMissing
  <2> HIDE DEF p, m
  <2>5. \A i \in 1..m + 1 : Genuine(typed[c], pipe'[c][i].line)
    <3> TAKE i \in 1..m + 1
    <3>1. i \in 1..m \/ i = m + 1
      BY <2>2
    <3> QED
      BY <1>1, <2>2, <2>4, <3>1 DEF p
  <2>6. \A i \in 1..m : Place(pipe'[c][i + 1]) = Behind(pipe'[c][i])
    <3> TAKE i \in 1..m
    <3>1. CASE i \in 1..m - 1
      <4>1. i + 1 \in 1..m
        BY <2>2, <3>1
      <4> QED
        BY <2>2, <2>4, <3>1, <4>1
    <3>2. CASE i = m
      <4>1. m \in 1..m /\ pipe[c] # <<>>
        BY <2>2, <2>3, <3>2
      <4> QED
        BY <2>2, <2>4, <3>2, <4>1
    <3> QED
      BY <2>2, <3>1, <3>2
  <2>7. Place(pipe'[c][1]) = ReadAt(c)
    <3>1. CASE m = 0
      <4>1. pipe'[c][1] = p
        BY <2>2, <3>1
      <4> QED
        BY <2>3, <2>4, <3>1, <4>1
    <3>2. CASE m # 0
      <4>1. 1 \in 1..m
        BY <2>2, <3>2
      <4> QED
        BY <2>2, <2>3, <2>4, <3>2, <4>1
    <3> QED
      BY <3>1, <3>2
  <2>8. PipedInOrder(c)'
    <3>1. Len(pipe'[c]) - 1 = m
      BY <2>2
    <3> QED
      BY <1>2, <1>3, <2>2, <2>5, <2>6, <2>7, <3>1 DEF PipedInOrder
  <2>9. NothingMissing(c)'
    BY <1>1, <1>2, <2>2, <2>4 DEF NothingMissing, p
  <2> QED
    BY <1>1, <1>4, <2>8, <2>9 DEF AgentOrder
<1> QED
  BY <1>5, <1>6

\* The agent's next read is where the client writes first.
LEMMA AcceptInOrder ==
  ASSUME Inv, NEW c \in Clients, ClientOrder(c), AgentOrder(c), Accept(c)
  PROVE  ClientOrder(c)' /\ AgentOrder(c)'
<1>1. /\ typed'[c] = typed[c] /\ eof'[c] = eof[c] /\ posted'[c] = posted[c]
      /\ queue'[c] = queue[c] /\ writing'[c] = writing[c] /\ out'[c] = out[c]
      /\ pipe'[c] = pipe[c] /\ processed'[c] = processed[c]
      /\ sock[c] = "connecting" /\ sock'[c] = "open" /\ reading'[c] = "header"
  BY DEF Accept, start, Inv, TypeOK
<1>2. ClientOrder(c)' /\ WriteAt(c)' = WriteAt(c)
  BY <1>1, ClientFrame
<1>3. WriteAt(c) = At(1, "head") /\ pipe[c] = <<>> /\ processed[c] = <<>>
  BY <1>1 DEF AgentOrder, NotYetConnected
<1>4. ReadAt(c)' = At(1, "head")
  <2>1. Len(<<>>) + 1 = 1
    OBVIOUS
  <2> QED
    BY <1>1, <1>3, <2>1 DEF ReadAt
<1>5. PipedInOrder(c)'
  BY <1>1, <1>3 DEF PipedInOrder
<1>6. NothingMissing(c)' /\ ReadInOrder(c)' /\ NotYetConnected(c)'
  BY <1>1, <1>2, <1>3, <1>4 DEF NothingMissing, ReadInOrder, NotYetConnected
<1> QED
  BY <1>2, <1>5, <1>6 DEF AgentOrder

\* The agent takes the first part from the connection and goes on to the next.
LEMMA TakenInOrder ==
  ASSUME Inv, NEW c \in Clients, ClientOrder(c), AgentOrder(c),
         typed'[c] = typed[c], WriteAt(c)' = WriteAt(c),
         link'[c] = link[c], reading[c] # "none", reading'[c] # "none",
         pipe[c] # <<>>, pipe'[c] = Tail(pipe[c]),
         ReadAt(c)' = Behind(pipe[c][1])
  PROVE  PipedInOrder(c)' /\ NothingMissing(c)'
<1> DEFINE m == Len(pipe[c])
<1>1. /\ m \in Nat \ {0} /\ pipe'[c] \in Seq(Part) /\ Len(pipe'[c]) = m - 1
      /\ \A i \in 1..m - 1 : pipe'[c][i] = pipe[c][i + 1]
  <2>1. pipe[c] \in Seq(Part)
    BY TypesAt
  <2> QED
    BY <2>1, TailElements
<1>2. /\ \A i \in 1..m : Genuine(typed[c], pipe[c][i].line)
      /\ \A i \in 1..m - 1 : Place(pipe[c][i + 1]) = Behind(pipe[c][i])
      /\ link[c] = "up" => WriteAt(c) = Behind(pipe[c][m])
  BY DEF AgentOrder, PipedInOrder, NothingMissing
<1>3. pipe'[c] = <<>> <=> m = 1
  <2>1. \A s \in Seq(Part) : s = <<>> <=> Len(s) = 0
    OBVIOUS
  <2>2. m - 1 = 0 <=> m = 1
    BY <1>1
  <2> HIDE DEF m
  <2> QED
    BY <1>1, <2>1, <2>2
<1> HIDE DEF m
<1>4. \A i \in 1..m - 1 : Genuine(typed[c], pipe'[c][i].line)
  <2> TAKE i \in 1..m - 1
  <2>1. i + 1 \in 1..m
    BY <1>1
  <2> QED
    BY <1>1, <1>2, <2>1
<1>5. \A i \in 1..(m - 1) - 1 : Place(pipe'[c][i + 1]) = Behind(pipe'[c][i])
  <2> TAKE i \in 1..(m - 1) - 1
  <2>1. i \in 1..m - 1 /\ i + 1 \in 1..m - 1
    BY <1>1
  <2> QED
    BY <1>1, <1>2, <2>1
<1>6. m # 1 => Place(pipe'[c][1]) = ReadAt(c)'
  <2>1. m # 1 => 1 \in 1..m - 1
    BY <1>1
  <2> QED
    BY <1>1, <1>2, <2>1
<1>7. m # 1 => pipe'[c][m - 1] = pipe[c][m]
  <2>1. m # 1 => m - 1 \in 1..m - 1 /\ m - 1 + 1 = m
    BY <1>1
  <2> QED
    BY <1>1, <2>1
<1>8. PipedInOrder(c)'
  BY <1>1, <1>3, <1>4, <1>5, <1>6 DEF PipedInOrder
<1>9. NothingMissing(c)'
  <2>1. CASE m = 1
    BY <1>2, <1>3, <2>1 DEF NothingMissing
  <2>2. CASE m # 1
    BY <1>1, <1>2, <1>3, <1>7, <2>2 DEF NothingMissing
  <2> QED
    BY <2>1, <2>2
<1> QED
  BY <1>8, <1>9

\* The next part is a header when the agent expects one.
LEMMA HeaderInOrder ==
  ASSUME Inv, NEW c \in Clients, ClientOrder(c), AgentOrder(c), handleReadHeader(c)
  PROVE  ClientOrder(c)' /\ AgentOrder(c)' /\ UNCHANGED <<typed, processed>>
<1> DEFINE p == pipe[c][1]
           k == Len(processed[c])
<1>1. /\ reading[c] = "header" /\ pipe[c] # <<>> /\ pipe'[c] = Tail(pipe[c])
      /\ Head(pipe[c]).part = "head" => /\ header'[c] = Head(pipe[c]).line
                                        /\ reading'[c] = "body" /\ link'[c] = link[c]
      /\ UNCHANGED <<clientVars, processed>>
  BY DEF handleReadHeader, Inv, TypeOK
<1>2. Head(pipe[c]) = p /\ p \in Part /\ 1 \in 1..Len(pipe[c]) /\ k \in Nat
  <2>1. pipe[c] \in Seq(Part) /\ processed[c] \in Seq(Lines \cup {Garbled})
    BY TypesAt
  <2> QED
    BY <1>1, <2>1, TailElements
<1>3. Genuine(typed[c], p.line) /\ Place(p) = At(k + 1, "head")
  <2>1. ReadAt(c) = At(k + 1, "head")
    BY <1>1 DEF ReadAt
  <2> QED
    BY <1>1, <1>2, <2>1 DEF AgentOrder, PipedInOrder
<1> HIDE DEF p, k
<1>4. p.line.n = k + 1 /\ p.part = "head"
  BY <1>3 DEF Place, At
<1>5. header'[c] = p.line /\ reading'[c] = "body" /\ link'[c] = link[c]
  BY <1>1, <1>2, <1>4
<1>6. /\ typed'[c] = typed[c] /\ eof'[c] = eof[c] /\ posted'[c] = posted[c]
      /\ queue'[c] = queue[c] /\ writing'[c] = writing[c] /\ out'[c] = out[c]
      /\ processed'[c] = processed[c] /\ sock'[c] = sock[c]
  BY <1>1 DEF clientVars
<1>7. ClientOrder(c)' /\ WriteAt(c)' = WriteAt(c)
  BY <1>6, ClientFrame
<1>8. ReadAt(c)' = Behind(p)
  <2>1. k + 1 + 1 = k + 2
    BY <1>2
  <2>2. Behind(p) = IF p.line.text = Empty THEN At(k + 2, "head") ELSE At(k + 1, "body")
    BY <1>4, <2>1 DEF Behind
  <2>3. ReadAt(c)' = IF p.line.text = Empty THEN At(k + 2, "head") ELSE At(k + 1, "body")
    BY <1>5, <1>6 DEF ReadAt, k
  <2> QED
    BY <2>2, <2>3
<1>9. PipedInOrder(c)' /\ NothingMissing(c)'
  BY <1>1, <1>5, <1>6, <1>7, <1>8, TakenInOrder DEF p
<1>10. ReadInOrder(c)'
  BY <1>3, <1>4, <1>5, <1>6 DEF ReadInOrder, k
<1>11. NotYetConnected(c)'
  BY <1>1, <1>6 DEF AgentOrder, NotYetConnected
<1> QED
  BY <1>1, <1>7, <1>9, <1>10, <1>11 DEF AgentOrder, clientVars

\* The body behind a header is its own, and the line the next one typed.
LEMMA BodyInOrder ==
  ASSUME Inv, NEW c \in Clients, ClientOrder(c), AgentOrder(c), handleReadBody(c)
  PROVE  /\ ClientOrder(c)' /\ AgentOrder(c)'
         /\ Len(processed[c]) < Len(typed[c]) /\ typed' = typed
         /\ processed' = [processed EXCEPT
                            ![c] = Append(@, typed[c][Len(processed[c]) + 1])]
<1> DEFINE k == Len(processed[c])
<1>1. /\ reading[c] = "body" /\ reading'[c] = "header" /\ link'[c] = link[c]
      /\ UNCHANGED <<clientVars, header>>
  BY DEF handleReadBody, Inv, TypeOK
<1>2. /\ processed[c] \in Seq(Lines \cup {Garbled}) /\ k \in Nat
      /\ pipe[c] \in Seq(Part) /\ header[c] \in Lines
      /\ typed[c] \in Seq(Lines) /\ Len(typed[c]) \in Nat
  <2>1. /\ processed[c] \in Seq(Lines \cup {Garbled}) /\ pipe[c] \in Seq(Part)
        /\ header[c] \in Lines /\ typed[c] \in Seq(Lines)
    BY TypesAt
  <2> QED
    BY <2>1
<1>3. Genuine(typed[c], header[c]) /\ header[c].n = k + 1
  BY <1>1 DEF AgentOrder, ReadInOrder
<1>4. header[c] = typed[c][k + 1] /\ k < Len(typed[c])
  BY <1>2, <1>3 DEF Genuine
<1>5. /\ typed'[c] = typed[c] /\ eof'[c] = eof[c] /\ posted'[c] = posted[c]
      /\ queue'[c] = queue[c] /\ writing'[c] = writing[c] /\ out'[c] = out[c]
      /\ header'[c] = header[c] /\ sock'[c] = sock[c] /\ typed' = typed
  BY <1>1 DEF clientVars
<1>6. ClientOrder(c)' /\ WriteAt(c)' = WriteAt(c)
  BY <1>5, ClientFrame
<1>7. ReadInOrder(c)'
  BY <1>1 DEF ReadInOrder
<1>8. ASSUME processed' = [processed EXCEPT ![c] = Append(@, header[c])]
      PROVE  /\ Len(processed'[c]) = k + 1
             /\ ReadAt(c)' = At(k + 2, "head")
             /\ processed' = [processed EXCEPT
                                ![c] = Append(@, typed[c][Len(processed[c]) + 1])]
  <2>1. processed'[c] = Append(processed[c], header[c])
    BY <1>8 DEF Inv, TypeOK
  <2>2. Len(processed'[c]) = k + 1
    BY <1>2, <2>1, AppendElements
  <2>3. ReadAt(c)' = At(k + 1 + 1, "head") /\ k + 1 + 1 = k + 2
    BY <1>1, <1>2, <2>2 DEF ReadAt
  <2> QED
    BY <1>4, <1>8, <2>2, <2>3
<1>9. NotYetConnected(c)'
  <2>1. sock[c] # "connecting"
    BY <1>1 DEF AgentOrder, NotYetConnected
  <2> QED
    BY <1>5, <2>1 DEF NotYetConnected
<1>10. CASE header[c].text = Empty
  <2>1. processed' = [processed EXCEPT ![c] = Append(@, header[c])] /\ pipe' = pipe
    BY <1>10 DEF handleReadBody
  <2>2. ReadAt(c)' = ReadAt(c)
    BY <1>1, <1>8, <1>10, <2>1 DEF ReadAt
  <2>3. PipedInOrder(c)' /\ NothingMissing(c)'
    BY <1>1, <1>5, <1>6, <2>1, <2>2 DEF AgentOrder, PipedInOrder, NothingMissing
  <2> QED
    BY <1>4, <1>5, <1>6, <1>7, <1>8, <1>9, <2>1, <2>3 DEF AgentOrder
<1>11. CASE header[c].text # Empty
  <2> DEFINE p == pipe[c][1]
  <2>1. /\ pipe[c] # <<>> /\ pipe'[c] = Tail(pipe[c])
        /\ Head(pipe[c]) = [part |-> "body", line |-> header[c]]
           => processed' = [processed EXCEPT ![c] = Append(@, header[c])]
    BY <1>11 DEF handleReadBody, Inv, TypeOK
  <2>2. Head(pipe[c]) = p /\ p \in Part /\ 1 \in 1..Len(pipe[c])
    BY <1>2, <2>1, TailElements
  <2>3. Genuine(typed[c], p.line) /\ Place(p) = At(k + 1, "body")
    BY <1>1, <1>11, <2>1, <2>2 DEF AgentOrder, PipedInOrder, ReadAt
  <2> HIDE DEF p
  <2>4. p.line = header[c] /\ p.part = "body"
    BY <1>3, <1>4, <2>3 DEF Genuine, Place, At
  <2>5. p = [part |-> "body", line |-> header[c]]
    BY <2>2, <2>4 DEF Part
  <2>6. Behind(p) = At(k + 2, "head")
    <3>1. k + 1 + 1 = k + 2
      BY <1>2
    <3> QED
      BY <1>3, <2>4, <3>1 DEF Behind
  <2>7. processed' = [processed EXCEPT ![c] = Append(@, header[c])]
    BY <2>1, <2>2, <2>5
  <2>8. PipedInOrder(c)' /\ NothingMissing(c)'
    <3>1. ReadAt(c)' = Behind(pipe[c][1])
      BY <1>8, <2>6, <2>7 DEF p
    <3> QED
      BY <1>1, <1>5, <1>6, <2>1, <3>1, TakenInOrder
  <2> QED
    BY <1>4, <1>5, <1>6, <1>7, <1>8, <1>9, <2>7, <2>8 DEF AgentOrder
<1> QED
  BY <1>10, <1>11

\* A connection that is down, or a session that left, has nothing to keep up with.
LEMMA DownInOrder ==
  ASSUME Inv, NEW c \in Clients, ClientOrder(c), AgentOrder(c),
         UNCHANGED <<clientVars, header, processed>>,
         link'[c] # "up", sock[c] = "connecting" => link'[c] = "none",
         reading'[c] \in {reading[c], "none"},
         NEW n \in 0..Len(pipe[c]), pipe'[c] = SubSeq(pipe[c], 1, n)
  PROVE  ClientOrder(c)' /\ AgentOrder(c)'
<1>1. /\ typed'[c] = typed[c] /\ eof'[c] = eof[c] /\ posted'[c] = posted[c]
      /\ queue'[c] = queue[c] /\ writing'[c] = writing[c] /\ out'[c] = out[c]
      /\ processed'[c] = processed[c] /\ header'[c] = header[c] /\ sock'[c] = sock[c]
  BY DEF clientVars
<1>2. ClientOrder(c)' /\ WriteAt(c)' = WriteAt(c)
  BY <1>1, ClientFrame
<1>3. pipe[c] \in Seq(Part)
  BY TypesAt
<1>4. /\ pipe'[c] \in Seq(Part) /\ Len(pipe'[c]) = n /\ n \in Nat
      /\ \A i \in 1..n : pipe'[c][i] = pipe[c][i] /\ i \in 1..Len(pipe[c])
      /\ pipe'[c] # <<>> => n # 0
      /\ pipe[c] = <<>> => pipe'[c] = <<>>
  BY <1>3
<1>5. /\ \A i \in 1..Len(pipe[c]) : Genuine(typed[c], pipe[c][i].line)
      /\ \A i \in 1..Len(pipe[c]) - 1 : Place(pipe[c][i + 1]) = Behind(pipe[c][i])
      /\ reading[c] # "none" /\ pipe[c] # <<>> => Place(pipe[c][1]) = ReadAt(c)
  BY DEF AgentOrder, PipedInOrder
<1>6. \A i \in 1..n - 1 : Place(pipe'[c][i + 1]) = Behind(pipe'[c][i])
  <2> TAKE i \in 1..n - 1
  <2>1. i \in 1..n /\ i + 1 \in 1..n /\ i \in 1..Len(pipe[c]) - 1
    BY <1>3, <1>4
  <2> QED
    BY <1>4, <1>5, <2>1
<1>7. reading'[c] # "none" => reading'[c] = reading[c] /\ ReadAt(c)' = ReadAt(c)
  BY <1>1 DEF ReadAt
<1>8. reading'[c] # "none" /\ pipe'[c] # <<>> => Place(pipe'[c][1]) = ReadAt(c)'
  <2>1. pipe'[c] # <<>> => 1 \in 1..n /\ pipe[c] # <<>>
    BY <1>4
  <2> QED
    BY <1>4, <1>5, <1>7, <2>1
<1>9. PipedInOrder(c)'
  BY <1>1, <1>4, <1>5, <1>6, <1>8 DEF PipedInOrder
<1>10. NothingMissing(c)'
  BY DEF NothingMissing
<1>11. ReadInOrder(c)'
  BY <1>1 DEF AgentOrder, ReadInOrder
<1>12. NotYetConnected(c)'
  BY <1>1, <1>2, <1>4 DEF AgentOrder, NotYetConnected
<1> QED
  BY <1>2, <1>9, <1>10, <1>11, <1>12 DEF AgentOrder

\* Nothing happens to a client.
LEMMA NothingInOrder ==
  ASSUME Inv, NEW c \in Clients, ClientOrder(c), AgentOrder(c),
         typed'[c] = typed[c], eof'[c] = eof[c], posted'[c] = posted[c],
         queue'[c] = queue[c], writing'[c] = writing[c], out'[c] = out[c],
         pipe'[c] = pipe[c], link'[c] = link[c], reading'[c] = reading[c],
         header'[c] = header[c], processed'[c] = processed[c],
         sock'[c] = "connecting" => sock[c] = "connecting"
  PROVE  ClientOrder(c)' /\ AgentOrder(c)'
BY ClientFrame, AgentFrame

\* One step at one client: the order is kept there, and the step is one of the
\* abstract connection or none.
OneStep(c) == \/ Type(c) \/ Eof(c) \/ Break(c) \/ Accept(c) \/ ConnectFails(c)
              \/ ClientStep(c) \/ AgentStep(c)

LEMMA OneStepInOrder ==
  ASSUME Inv, NEW c \in Clients, ClientOrder(c), AgentOrder(c), OneStep(c)
  PROVE  /\ ClientOrder(c)' /\ AgentOrder(c)'
         /\ Pipe!Type(c) \/ Pipe!Process(c) \/ UNCHANGED <<typed, processed>>
<1>1. /\ writing[c] \in BOOLEAN /\ pipe[c] \in Seq(Part)
  BY TypesAt
<1>2. CASE Type(c)
  <2>1. /\ ClientOrder(c)' /\ WriteAt(c)' = WriteAt(c)
        /\ \A l : Genuine(typed[c], l) => Genuine(typed'[c], l)
        /\ \E l \in Lines : typed' = [typed EXCEPT ![c] = Append(@, l)]
    BY <1>2, TypeInOrder
  <2>2. /\ pipe'[c] = pipe[c] /\ link'[c] = link[c] /\ reading'[c] = reading[c]
        /\ header'[c] = header[c] /\ processed' = processed /\ sock'[c] = sock[c]
    BY <1>2 DEF Type, agentVars
  <2>3. AgentOrder(c)'
    BY <2>1, <2>2, AgentFrame
  <2> QED
    BY <2>1, <2>2, <2>3 DEF Pipe!Type
<1>3. CASE Eof(c)
  <2>1. /\ ClientOrder(c)' /\ WriteAt(c)' = WriteAt(c)
        /\ \A l : Genuine(typed[c], l) => Genuine(typed'[c], l)
    BY <1>3, EofInOrder
  <2>2. /\ pipe'[c] = pipe[c] /\ link'[c] = link[c] /\ reading'[c] = reading[c]
        /\ header'[c] = header[c] /\ sock'[c] = sock[c] /\ UNCHANGED <<typed, processed>>
    BY <1>3 DEF Eof, agentVars
  <2> QED
    BY <2>1, <2>2, AgentFrame
<1>4. CASE RunPosted(c) \/ handle_write(c)
  <2>1. ClientOrder(c)' /\ WriteAt(c)' = WriteAt(c)
    BY <1>4, WriteInOrder, CloseInOrder, HandleWriteInOrder
  <2>2. /\ pipe'[c] = pipe[c] /\ link'[c] = link[c] /\ reading'[c] = reading[c]
        /\ header'[c] = header[c] /\ sock'[c] \in {sock[c], "closed"}
        /\ UNCHANGED <<typed, processed>>
    BY <1>4 DEF RunPosted, handle_write, do_write, do_close, agentVars, Inv, TypeOK
  <2> QED
    BY <2>1, <2>2, AgentFrame
<1>5. CASE WritePart(c)
  <2>1. UNCHANGED <<typed, processed>>
    BY <1>5 DEF WritePart, agentVars
  <2> QED
    BY <1>5, <2>1, WritePartInOrder
<1>6. CASE ConnectFails(c) \/ PeerCloses(c) \/ RunReturns(c)
  <2>1. /\ UNCHANGED <<typed, eof, posted, queue, writing, out, pipe, link, agentVars>>
        /\ sock'[c] \in {sock[c], "closed"}
    BY <1>6 DEF ConnectFails, PeerCloses, RunReturns, do_close, Inv, TypeOK
  <2> QED
    BY <2>1, NothingInOrder DEF agentVars
<1>7. CASE Accept(c)
  <2>1. UNCHANGED <<typed, processed>>
    BY <1>7 DEF Accept
  <2> QED
    BY <1>7, <2>1, AcceptInOrder
<1>8. CASE handleReadHeader(c)
  BY <1>8, HeaderInOrder
<1>9. CASE handleReadBody(c)
  <2>1. /\ ClientOrder(c)' /\ AgentOrder(c)'
        /\ Len(processed[c]) < Len(typed[c]) /\ typed' = typed
        /\ processed' = [processed EXCEPT
                           ![c] = Append(@, typed[c][Len(processed[c]) + 1])]
    BY <1>9, BodyInOrder
  <2> QED
    BY <2>1 DEF Pipe!Process
<1>10. CASE ReadFails(c)
  <2>1. /\ link'[c] # "up" /\ reading'[c] = "none" /\ pipe'[c] = pipe[c]
        /\ pipe[c] = <<>> /\ reading[c] # "none"
        /\ UNCHANGED <<clientVars, header, processed>>
    BY <1>10 DEF ReadFails, leave, Inv, TypeOK
  <2>2. sock[c] # "connecting"
    BY <2>1 DEF AgentOrder, NotYetConnected
  <2>3. 0 \in 0..Len(pipe[c]) /\ pipe'[c] = SubSeq(pipe[c], 1, 0)
    BY <1>1, <2>1
  <2> QED
    BY <2>1, <2>2, <2>3, DownInOrder DEF clientVars
<1>11. CASE Break(c)
  <2>1. PICK n \in 0..Len(pipe[c]) : pipe' = [pipe EXCEPT ![c] = SubSeq(@, 1, n)]
    BY <1>11 DEF Break
  <2>2. /\ link'[c] # "up" /\ link[c] = "up" /\ reading'[c] = reading[c]
        /\ pipe'[c] = SubSeq(pipe[c], 1, n)
        /\ UNCHANGED <<clientVars, header, processed>>
    BY <1>11, <2>1 DEF Break, agentVars, Inv, TypeOK
  <2>3. sock[c] # "connecting"
    BY <2>2 DEF AgentOrder, NotYetConnected
  <2> QED
    BY <2>2, <2>3, DownInOrder DEF clientVars
<1> QED
  BY <1>2, <1>3, <1>4, <1>5, <1>6, <1>7, <1>8, <1>9, <1>10, <1>11
  DEF OneStep, ClientStep, AgentStep

\* ... and the other clients stay what they are.
LEMMA OthersStay ==
  ASSUME Inv, NEW c \in Clients, OneStep(c), NEW d \in Clients, d # c
  PROVE  /\ typed'[d] = typed[d] /\ eof'[d] = eof[d] /\ posted'[d] = posted[d]
         /\ queue'[d] = queue[d] /\ writing'[d] = writing[d] /\ out'[d] = out[d]
         /\ pipe'[d] = pipe[d] /\ link'[d] = link[d] /\ reading'[d] = reading[d]
         /\ header'[d] = header[d] /\ processed'[d] = processed[d]
         /\ sock'[d] = sock[d]
<1> USE DEF Inv, TypeOK, agentVars, clientVars
<1>1. CASE Type(c) \/ Eof(c)
  BY <1>1 DEF Type, Eof
<1>2. CASE Break(c)
  BY <1>2 DEF Break
<1>3. CASE Accept(c) \/ ConnectFails(c)
  BY <1>3 DEF Accept, start, ConnectFails
<1>4. CASE RunPosted(c)
  BY <1>4 DEF RunPosted, do_write, do_close
<1>5. CASE WritePart(c)
  BY <1>5 DEF WritePart
<1>6. CASE handle_write(c)
  BY <1>6 DEF handle_write
<1>7. CASE PeerCloses(c) \/ RunReturns(c)
  BY <1>7 DEF PeerCloses, RunReturns, do_close
<1>8. CASE handleReadHeader(c)
  BY <1>8 DEF handleReadHeader, leave
<1>9. CASE handleReadBody(c)
  BY <1>9 DEF handleReadBody
<1>10. CASE ReadFails(c)
  BY <1>10 DEF ReadFails, leave
<1> QED
  BY <1>1, <1>2, <1>3, <1>4, <1>5, <1>6, <1>7, <1>8, <1>9, <1>10
  DEF OneStep, ClientStep, AgentStep

\* Nothing is under way at first.
LEMMA InitInOrder == Init => InOrder
<1> SUFFICES ASSUME Init, NEW c \in Clients PROVE ClientOrder(c) /\ AgentOrder(c)
  BY DEF InOrder
<1>1. /\ typed[c] = <<>> /\ ~eof[c] /\ posted[c] = <<>> /\ queue[c] = <<>> /\ ~writing[c]
      /\ out[c] = <<>> /\ sock[c] = "connecting" /\ pipe[c] = <<>> /\ link[c] = "none"
      /\ reading[c] = "none" /\ processed[c] = <<>>
  BY DEF Init
<1>2. Len(<<>>) = 0
  OBVIOUS
<1>3. Left(c) = 0 /\ Gone(c) = 0
  <2>1. Left(c) = 0
    BY <1>1, <1>2 DEF Left
  <2>2. Gone(c) = 0 - 0 - 0
    BY <1>1, <1>2, <2>1 DEF Gone
  <2> QED
    BY <2>1, <2>2
<1>4. ClientOrder(c)
  BY <1>1, <1>2, <1>3 DEF ClientOrder, PostedInOrder, QueuedInOrder, WrittenInOrder
<1>5. WriteAt(c) = At(1, "head")
  BY <1>1, <1>3 DEF WriteAt
<1>6. AgentOrder(c)
  BY <1>1, <1>2, <1>5
  DEF AgentOrder, PipedInOrder, NothingMissing, ReadInOrder, NotYetConnected
<1> QED
  BY <1>4, <1>6

LEMMA NextInOrder ==
  ASSUME Inv, InOrder, [Next]_vars
  PROVE  InOrder' /\ [Pipe!Next]_<<typed, processed>>
<1>1. ASSUME NEW c \in Clients, OneStep(c)
      PROVE  InOrder' /\ [Pipe!Next]_<<typed, processed>>
  <2>1. /\ ClientOrder(c)' /\ AgentOrder(c)'
        /\ Pipe!Type(c) \/ Pipe!Process(c) \/ UNCHANGED <<typed, processed>>
    BY <1>1, OneStepInOrder DEF InOrder
  <2>2. ASSUME NEW d \in Clients, d # c PROVE ClientOrder(d)' /\ AgentOrder(d)'
    BY <1>1, <2>2, OthersStay, NothingInOrder DEF InOrder
  <2>3. \A d \in Clients : (ClientOrder(d) /\ AgentOrder(d))'
    BY <2>1, <2>2
  <2> QED
    BY <2>1, <2>3 DEF InOrder, Pipe!Next
<1>2. CASE AgentStops
  <2>1. ASSUME NEW d \in Clients PROVE ClientOrder(d)' /\ AgentOrder(d)'
    <3>1. /\ UNCHANGED <<clientVars, header, processed>> /\ pipe'[d] = pipe[d]
          /\ reading'[d] = reading[d]
          /\ link'[d] = IF link[d] = "up" THEN "down" ELSE link[d]
      BY <1>2 DEF AgentStops
    <3>2. sock[d] = "connecting" => link'[d] = "none"
      BY <3>1 DEF InOrder, AgentOrder, NotYetConnected
    <3>3. Len(pipe[d]) \in 0..Len(pipe[d]) /\ pipe'[d] = SubSeq(pipe[d], 1, Len(pipe[d]))
      <4>1. pipe[d] \in Seq(Part)
        BY TypesAt
      <4> QED
        BY <3>1, <4>1
    <3>4. ClientOrder(d) /\ AgentOrder(d) /\ link'[d] # "up"
      BY <3>1 DEF InOrder
    <3> QED
      BY <3>1, <3>2, <3>3, <3>4, DownInOrder
  <2>2. UNCHANGED <<typed, processed>>
    BY <1>2 DEF AgentStops, clientVars
  <2> QED
    BY <2>1, <2>2 DEF InOrder
<1>3. CASE UNCHANGED vars
  <2>1. ASSUME NEW d \in Clients PROVE ClientOrder(d)' /\ AgentOrder(d)'
    BY <1>3, NothingInOrder DEF InOrder, vars, clientVars, agentVars
  <2> QED
    BY <1>3, <2>1 DEF InOrder, vars, clientVars, agentVars
<1> QED
  BY <1>1, <1>2, <1>3 DEF Next, OneStep

\* Whatever the order of handlers, closes and breaks, the agent processes a
\* prefix of what was typed at each client, in order, each line once and with
\* its own body: the connection implements CommandPipe, for any number of
\* clients, lines and breaks (chat_client.cpp, TcpSession.cpp).
THEOREM StreamRefinement == Spec => ImplementsPipe
<1>1. Init => Pipe!Init
  BY DEF Init, Pipe!Init
<1>2. Inv /\ InOrder /\ [Next]_vars => InOrder' /\ [Pipe!Next]_<<typed, processed>>
  BY NextInOrder
<1> QED
  BY <1>1, <1>2, InitInv, NextInv, InitInOrder, PTL DEF Spec, ImplementsPipe, Pipe!Spec

\* What the abstract connection comes to: what was processed is a prefix of what
\* was typed.
Prefix ==
  \A c \in Clients : /\ Len(processed[c]) <= Len(typed[c])
                     /\ \A i \in 1..Len(processed[c]) : processed[c][i] = typed[c][i]

PipeType ==
  /\ typed \in [Clients -> Seq(Lines)]
  /\ processed \in [Clients -> Seq(Lines)]

LEMMA PipeStep ==
  ASSUME PipeType, Prefix, NEW c \in Clients, Pipe!Type(c) \/ Pipe!Process(c)
  PROVE  PipeType' /\ Prefix'
<1>1. /\ typed[c] \in Seq(Lines) /\ processed[c] \in Seq(Lines)
      /\ Len(typed[c]) \in Nat /\ Len(processed[c]) \in Nat
  <2>1. typed[c] \in Seq(Lines) /\ processed[c] \in Seq(Lines)
    BY DEF PipeType
  <2> QED
    BY <2>1
<1>2. CASE Pipe!Type(c)
  <2>1. PICK l \in Lines : typed' = [typed EXCEPT ![c] = Append(@, l)]
    BY <1>2 DEF Pipe!Type
  <2>2. /\ Append(typed[c], l) \in Seq(Lines)
        /\ Len(Append(typed[c], l)) = Len(typed[c]) + 1
        /\ \A i \in 1..Len(typed[c]) : Append(typed[c], l)[i] = typed[c][i]
    BY <1>1, AppendElements
  <2>3. typed' = [typed EXCEPT ![c] = Append(typed[c], l)] /\ processed' = processed
    BY <1>2, <2>1 DEF Pipe!Type
  <2>4. PipeType'
    BY <2>2, <2>3 DEF PipeType
  <2>5. ASSUME NEW d \in Clients
        PROVE  /\ Len(processed[d]) <= Len(typed'[d])
               /\ \A i \in 1..Len(processed[d]) : processed[d][i] = typed'[d][i]
    <3>1. CASE d = c
      <4>1. /\ Len(processed[c]) <= Len(typed[c])
            /\ \A i \in 1..Len(processed[c]) : processed[c][i] = typed[c][i]
        BY DEF Prefix
      <4>2. typed'[c] = Append(typed[c], l)
        BY <2>3 DEF PipeType
      <4>3. Len(processed[c]) <= Len(typed[c]) + 1
        BY <1>1, <4>1
      <4>4. \A i \in 1..Len(processed[c]) : i \in 1..Len(typed[c])
        BY <1>1, <4>1
      <4> QED
        BY <2>2, <3>1, <4>1, <4>2, <4>3, <4>4
    <3>2. CASE d # c
      BY <2>3, <3>2 DEF Prefix, PipeType
    <3> QED
      BY <3>1, <3>2
  <2> QED
    BY <2>3, <2>4, <2>5 DEF Prefix
<1>3. CASE Pipe!Process(c)
  <2> DEFINE k == Len(processed[c])
             l == typed[c][k + 1]
  <2>1. /\ k < Len(typed[c]) /\ typed' = typed
        /\ processed' = [processed EXCEPT ![c] = Append(processed[c], l)]
    BY <1>3 DEF Pipe!Process
  <2>2. l \in Lines
    BY <1>1, <2>1
  <2>3. /\ Append(processed[c], l) \in Seq(Lines)
        /\ Len(Append(processed[c], l)) = k + 1
        /\ \A i \in 1..k : Append(processed[c], l)[i] = processed[c][i]
        /\ Append(processed[c], l)[k + 1] = l
    <3> HIDE DEF l
    <3> QED
      BY <1>1, <2>2, AppendElements
  <2>4. PipeType'
    <3> HIDE DEF l
    <3> QED
      BY <2>1, <2>3 DEF PipeType
  <2>5. ASSUME NEW d \in Clients
        PROVE  /\ Len(processed'[d]) <= Len(typed[d])
               /\ \A i \in 1..Len(processed'[d]) : processed'[d][i] = typed[d][i]
    <3>1. CASE d = c
      <4>1. processed'[c] = Append(processed[c], l)
        BY <2>1 DEF PipeType
      <4>2. \A i \in 1..k : processed[c][i] = typed[c][i]
        BY DEF Prefix
      <4>3. k + 1 <= Len(typed[c]) /\ \A i \in 1..k + 1 : i \in 1..k \/ i = k + 1
        BY <1>1, <2>1
      <4> HIDE DEF k
      <4> QED
        BY <2>3, <3>1, <4>1, <4>2, <4>3
    <3>2. CASE d # c
      BY <2>1, <3>2 DEF Prefix, PipeType
    <3> QED
      BY <3>1, <3>2
  <2> QED
    BY <2>1, <2>4, <2>5 DEF Prefix
<1> QED
  BY <1>2, <1>3

\* Of the lines typed at a client the agent has at any time processed the first
\* ones, in order, and nothing else.
THEOREM ProcessedIsPrefix == Spec => []Prefix
<1>1. Pipe!Init => PipeType /\ Prefix
  BY DEF Pipe!Init, PipeType, Prefix
<1>2. PipeType /\ Prefix /\ [Pipe!Next]_<<typed, processed>> => PipeType' /\ Prefix'
  <2> SUFFICES ASSUME PipeType, Prefix, [Pipe!Next]_<<typed, processed>>
               PROVE  PipeType' /\ Prefix'
    OBVIOUS
  <2>1. CASE Pipe!Next
    BY <2>1, PipeStep DEF Pipe!Next
  <2>2. CASE UNCHANGED <<typed, processed>>
    BY <2>2 DEF PipeType, Prefix
  <2> QED
    BY <2>1, <2>2
<1>3. Pipe!Spec => []Prefix
  BY <1>1, <1>2, PTL DEF Pipe!Spec
<1> QED
  BY <1>3, StreamRefinement, PTL DEF ImplementsPipe
=============================================================================
