---------------------------- MODULE FileTransfer ----------------------------
(***************************************************************************)
(* The file transfer of the TCP assignment: client.c asks for files by     *)
(* name, server.c sends each one in chunks and waits for an "oki" after    *)
(* every chunk.  The connection is a stream of bytes: nothing is lost and  *)
(* the order is kept, but a read takes any first part of what has arrived, *)
(* a piece of a chunk or several messages together.  The few bytes of a    *)
(* control message or a name are one element of the stream and arrive      *)
(* together; a byte of a file is an element too.  No file has a control    *)
(* message as its contents, and the client has a directory of its own.     *)
(***************************************************************************)
EXTENDS Integers, Sequences

CONSTANTS
  Contents,     \* what the server's files hold, a sequence of bytes for every name
  CHUNK,        \* bytes in a chunk, 99999 in the source
  MaxCopy,      \* bound on the length of a copy (out of step, it can grow for ever)
  Inputs        \* what is typed at the client: sequences of commands, names after "get"

ASSUME FileTransferAssumption ==
  /\ \A f \in DOMAIN Contents : Contents[f] \in Seq(Nat)
  /\ CHUNK \in Nat \ {0} /\ MaxCopy \in Nat

VARIABLES
  typed,        \* the commands still to be given
  cplace, names,   \* the client: where it is, the names still to be sent
  asked,        \* and the name it works on
  copy,         \* its files, by name
  ended,        \* what it said of the names of the last "get": received or invalid
  splace,          \* the server: where it is
  sending,      \* the file it sends
  sent,         \* and the number of bytes it has sent
  toServer, toClient,  \* the connection
  mixed         \* some read took a part of a message, or more than one (not in the code)

FtrVars == <<typed, cplace, names, asked, copy, ended, splace, sending, sent, toServer, toClient, mixed>>

Message(k, x) == [kind |-> k, arg |-> x]
Control(k) == Message(k, 0)

FtrInit ==
  /\ typed \in Inputs
  /\ cplace = "prompt" /\ names = <<>> /\ asked = 0
  /\ copy = <<>> /\ ended = {}
  /\ splace = "command" /\ sending = 0 /\ sent = 0
  /\ toServer = <<>> /\ toClient = <<>>
  /\ mixed = FALSE

------------------------------------------------------------------------------
\* A read of the connection blocks while there is nothing, and takes what there
\* is or a first part of it.
Take(stream) == DOMAIN stream

First(stream, n) == SubSeq(stream, 1, n)
Rest(stream, n) == SubSeq(stream, n + 1, Len(stream))

\* The first n elements are one control message or what there is of a chunk.
OneMessage(stream, n) ==
  IF stream[1].kind = "data"
  THEN /\ \A i \in 1 .. n : stream[i].kind = "data"
       /\ n < Len(stream) => stream[n + 1].kind # "data"
  ELSE n = 1

ClientReads(n) ==
  /\ n \in Take(toClient)
  /\ toClient' = Rest(toClient, n)
  /\ mixed' = (mixed \/ ~OneMessage(toClient, n))

ServerReads(n) ==
  /\ n \in Take(toServer)
  /\ toServer' = Rest(toServer, n)
  /\ mixed' = (mixed \/ ~OneMessage(toServer, n))

------------------------------------------------------------------------------
(* client.c *)

ClientOnly == UNCHANGED <<splace, sending, sent>>

\* A line is typed: its first word is sent.
Command ==
  /\ cplace = "prompt" /\ typed # <<>>
  /\ toServer' = Append(toServer, Control(Head(typed).word))
  /\ names' = Head(typed).names
  /\ cplace' = "reply"
  /\ ended' = {}
  /\ UNCHANGED <<typed, asked, copy, toClient, mixed>> /\ ClientOnly

\* Whatever the server answers, the command is carried out.
Reply ==
  \E n \in 1 .. Len(toClient) :
    /\ cplace = "reply" /\ ClientReads(n)
    /\ cplace' = CASE Head(typed).word = "exit" -> "gone"
                [] Head(typed).word = "get" -> "names"
                [] OTHER -> "prompt"
    /\ typed' = Tail(typed)
    /\ UNCHANGED <<names, asked, copy, ended, toServer>> /\ ClientOnly

AskName ==
  /\ cplace = "names" /\ names # <<>>
  /\ toServer' = Append(toServer, Message("name", Head(names)))
  /\ asked' = Head(names) /\ names' = Tail(names)
  /\ ended' = {e \in ended : e.name # Head(names)}
  /\ cplace' = "size"
  /\ UNCHANGED <<typed, copy, toClient, mixed>> /\ ClientOnly

EndOfNames ==
  /\ cplace = "names" /\ names = <<>>
  /\ toServer' = Append(toServer, Control("end"))
  /\ cplace' = "prompt"
  /\ UNCHANGED <<typed, names, asked, copy, ended, toClient, mixed>> /\ ClientOnly

\* The answer to a name: "Invalid", or the size.  j, which says whether the file
\* was opened, is the place "first" or "data".
ReadSize ==
  \E n \in 1 .. Len(toClient) :
    /\ cplace = "size" /\ ClientReads(n)
    /\ IF toClient[1].kind = "Invalid"
       THEN /\ cplace' = "names" /\ ended' = ended \cup {[name |-> asked, ok |-> FALSE]}
            /\ UNCHANGED toServer
       ELSE /\ cplace' = "first" /\ toServer' = Append(toServer, Control("ok"))
            /\ UNCHANGED ended
    /\ UNCHANGED <<typed, names, asked, copy>> /\ ClientOnly

\* Mutant: a chunk is written without an answer to the server.
AckNone == <<>>

\* Every read of data is answered.
Ack == <<Control("oki")>>

\* Mutant: the file is opened anew for every chunk.
WrittenAnew(f, bytes) == bytes

\* The file is made and emptied by the first write.
Written(f, bytes) == IF cplace = "first" THEN bytes ELSE copy[f] \o bytes

ReadData ==
  \E n \in 1 .. Len(toClient) :
    /\ cplace \in {"first", "data"} /\ ClientReads(n)
    /\ cplace = "data" => Len(copy[asked]) < MaxCopy
    /\ IF toClient[1].kind \in {"Invalid", "end"}
       THEN /\ cplace' = "names" /\ ended' = ended \cup {[name |-> asked, ok |-> TRUE]}
            /\ UNCHANGED <<toServer, copy>>
       ELSE /\ cplace' = "data" /\ toServer' = toServer \o Ack
            /\ copy' = [f \in DOMAIN copy \cup {asked} |->
                          IF f = asked THEN Written(f, First(toClient, n)) ELSE copy[f]]
            /\ UNCHANGED ended
    /\ UNCHANGED <<typed, names, asked>> /\ ClientOnly

Client == Command \/ Reply \/ AskName \/ EndOfNames \/ ReadSize \/ ReadData

------------------------------------------------------------------------------
(* server.c *)

ServerOnly == UNCHANGED <<typed, cplace, names, asked, copy, ended>>

\* A command has no byte 0 at its end: with more behind it, it is not recognised.
ServeCommand ==
  \E n \in 1 .. Len(toServer) :
    /\ splace = "command" /\ ServerReads(n)
    /\ toClient' = Append(toClient, Control("ok"))
    /\ splace' = CASE n = 1 /\ toServer[1].kind = "get" -> "name"
                [] n = 1 /\ toServer[1].kind = "exit" -> "gone"
                [] OTHER -> "command"
    /\ UNCHANGED <<sending, sent>> /\ ServerOnly

\* Up to the byte 0 what was read is a name; what is behind it is not looked at.
ServeName ==
  \E n \in 1 .. Len(toServer) :
    LET m == toServer[1]
        exists == m.kind = "name" /\ m.arg \in DOMAIN Contents
    IN  /\ splace = "name" /\ ServerReads(n)
        /\ IF m.kind = "end" THEN splace' = "command" /\ UNCHANGED <<toClient, sending, sent>>
           ELSE IF exists
           THEN /\ toClient' = Append(toClient, Control("size"))
                /\ splace' = "ok" /\ sending' = m.arg /\ sent' = 0
           ELSE /\ toClient' = Append(toClient, Control("Invalid"))
                /\ UNCHANGED <<splace, sending, sent>>
        /\ ServerOnly

Chunk(f, k) ==
  LET n == Len(Contents[f]) IN SubSeq(Contents[f], k + 1, IF k + CHUNK <= n THEN k + CHUNK ELSE n)

\* The answer to the size, read with room for 5 bytes, and to a chunk, with room
\* for 4, is not looked at.  Then the next chunk is sent, or "end".
ServeChunk ==
  LET bytes == Chunk(sending, sent)
  IN  /\ splace \in {"ok", "oki"} /\ ServerReads(1)
      /\ IF bytes = <<>>
         THEN toClient' = Append(toClient, Control("end")) /\ splace' = "name"
         ELSE /\ toClient' = toClient \o [i \in DOMAIN bytes |-> Message("data", bytes[i])]
              /\ splace' = "oki"
      /\ sent' = sent + Len(bytes)
      /\ UNCHANGED sending /\ ServerOnly

\* That read takes a piece of the next message when there is one and room is
\* left: the two are out of step, and are followed no further.
OutOfStep ==
  /\ splace \in {"ok", "oki"} /\ Len(toServer) > 1
  /\ splace = "oki" => toServer[1].kind # "oki"
  /\ splace' = "lost" /\ toServer' = <<>> /\ mixed' = TRUE
  /\ UNCHANGED <<toClient, sending, sent>> /\ ServerOnly

\* The client has closed the connection: a read gives nothing and writing ends
\* the server.
ServerEnds ==
  /\ splace \notin {"gone", "lost"} /\ cplace = "gone" /\ toServer = <<>>
  /\ splace' = "gone"
  /\ UNCHANGED <<toServer, toClient, mixed, sending, sent>> /\ ServerOnly

Server == ServeCommand \/ ServeName \/ ServeChunk \/ OutOfStep \/ ServerEnds

FtrNext == Client \/ Server

FtrSpec == FtrInit /\ [][FtrNext]_FtrVars

------------------------------------------------------------------------------
Holds(f) == [i \in DOMAIN Contents[f] |-> Message("data", Contents[f][i])]

\* Client code 4 of the readme: when the client is through with a file, it has
\* what the server has under that name (the chunks that ReadData wrote).
ReceivedIsSent ==
  \A e \in ended :
    e.ok => e.name \in DOMAIN copy /\ copy[e.name] = Holds(e.name)

\* As long as every read takes exactly one message, a file the server has arrives
\* as it is and is never called invalid, and a file it has not is; but an empty
\* file is not made at the client, which opens it with the first chunk.
ReceivedUnlessMixed ==
  ~mixed =>
    \A e \in ended :
      /\ e.ok = (e.name \in DOMAIN Contents)
      /\ e.ok /\ Contents[e.name] # <<>> => e.name \in DOMAIN copy /\ copy[e.name] = Holds(e.name)
      /\ e.ok /\ Contents[e.name] = <<>> => e.name \notin DOMAIN copy

\* The client is through all that was typed, or some read did not take exactly one
\* message.
SessionEnded == mixed \/ (typed = <<>> /\ cplace \in {"prompt", "gone"})
=============================================================================
