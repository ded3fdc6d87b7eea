----------------------------- MODULE KvServer ------------------------------
(***************************************************************************)
(* The single-threaded key-value server of                                 *)
(* 09-networks-1/tasks/kv-server/main.c with its clients and the sockets   *)
(* between them.                                                           *)
(*                                                                         *)
(* A socket is a stream: the bytes the clients send carry no boundary      *)
(* between commands, and the server takes whatever one read returns for    *)
(* one command.  Text is a sequence of words and separators; words are     *)
(* atoms, so a read may end between two of them but not inside one.  A     *)
(* token of strtok is a maximal run of anything but spaces, so two words   *)
(* can end up in one token, and a newline is part of a token.              *)
(***************************************************************************)
EXTENDS Integers, Sequences, SequencesExt, FiniteSetsExt

CONSTANTS Conn,       \* connections, one socket each
          Keys, Values,   \* the words used as keys and values
          Terminator, \* what a client puts after a command: nothing or a newline
          Patient,    \* clients wait as those of test.py do (see below)
          MaxSends,   \* bound on the commands a client sends
          CLIENT_BUFFER_SIZE, \* words one read takes, plus one
          OutSize,    \* words the send buffer of a socket takes
          MaxFds      \* descriptors left for connections

ASSUME KvServerAssumption ==
    /\ Patient \in BOOLEAN
    /\ Terminator \in Seq({"newline"})
    /\ {"get", "set", "space", "newline"} \cap (Keys \cup Values) = {}
    /\ MaxSends \in Nat /\ OutSize \in Nat /\ MaxFds \in Nat
    /\ CLIENT_BUFFER_SIZE \in Nat \ {0, 1}

Space   == "space"
Newline == "newline"
Word    == {"get", "set", Space, Newline} \cup Keys \cup Values

VARIABLES conn,      \* what the server's end of each connection is in
          backlog,   \* connections the kernel holds for accept
          clients,   \* the list at clients_first, newest first
          pos,       \* current_client, as a place in that list
          pc,        \* where main_cycle is
          response,  \* what it is about to write
          storage,   \* the list of items, newest first
          sent,      \* all words sent by each client
          taken,     \* how many of them the server has read
          outbox     \* words the server wrote and the client has not read

vars == <<conn, backlog, clients, pos, pc, response, storage, sent, taken, outbox>>
network == <<conn, backlog, sent, taken, outbox>>

Init == /\ conn = [c \in Conn |-> "new"]
        /\ backlog = <<>> /\ clients = <<>>
        /\ pos = 1 /\ pc = "accept" /\ response = <<>>
        /\ storage = <<>>
        /\ sent = [c \in Conn |-> <<>>] /\ taken = [c \in Conn |-> 0]
        /\ outbox = [c \in Conn |-> <<>>]

Inbox(c) == SubSeq(sent[c], taken[c] + 1, Len(sent[c]))

----------------------------------------------------------------------------
(* The storage *)

\* Place of the item with the key, or 0.
find(key) == SelectInSeq(storage, LAMBDA item : item.key = key)

get(key) == IF find(key) = 0 THEN <<>> ELSE storage[find(key)].value

\* Mutant: an existing key changes the newest item, not the one found.
SetChangesHead(key, value) ==
    storage' = IF find(key) = 0
               THEN <<[key |-> key, value |-> value]>> \o storage
               ELSE [storage EXCEPT ![1].value = value]

\* Mutant: an existing key keeps its value.
SetKeepsValue(key, value) ==
    storage' = IF find(key) = 0
               THEN <<[key |-> key, value |-> value]>> \o storage
               ELSE storage

set(key, value) ==
    storage' = IF find(key) = 0
               THEN <<[key |-> key, value |-> value]>> \o storage
               ELSE [storage EXCEPT ![find(key)].value = value]

----------------------------------------------------------------------------
(* The clients *)

TextOf(cmd) == CASE cmd.op = "get" -> <<"get", Space, cmd.key>> \o Terminator
                 [] cmd.op = "set" ->
                        <<"set", Space, cmd.key, Space, cmd.value>> \o Terminator

Command == [op : {"get"}, key : Keys]
           \cup [op : {"set"}, key : Keys, value : Values]

\* A command of c is under way: not read yet, or its answer not read yet.
Waiting(c) == \/ Inbox(c) # <<>> \/ outbox[c] # <<>>
              \/ pc = "response" /\ clients[pos] = c

Connect(c) ==
    /\ conn[c] = "new"
    /\ conn' = [conn EXCEPT ![c] = "open"]
    /\ backlog' = Append(backlog, c)
    /\ UNCHANGED <<clients, pos, pc, response, storage, sent, taken, outbox>>

\* A client may write before it is accepted.  A patient one sleeps after
\* each command (test.py:19, :34) or waits for the answer.
Send(c) ==
    /\ conn[c] = "open" /\ pc # "exit"
    /\ Patient => ~ Waiting(c)
    /\ Len(SelectSeq(sent[c], LAMBDA w : w \in {"get", "set"})) < MaxSends
    /\ \E cmd \in Command : sent' = [sent EXCEPT ![c] = @ \o TextOf(cmd)]
    /\ UNCHANGED <<conn, backlog, clients, pos, pc, response, storage, taken, outbox>>

Receive(c) ==
    /\ conn[c] = "open" /\ outbox[c] # <<>>
    /\ outbox' = [outbox EXCEPT ![c] = <<>>]
    /\ UNCHANGED <<conn, backlog, clients, pos, pc, response, storage, sent, taken>>

\* A socket closed with unread data in it resets the connection.
Close(c) ==
    /\ conn[c] = "open"
    /\ Patient => ~ Waiting(c)
    /\ conn' = [conn EXCEPT ![c] = IF outbox[c] = <<>> THEN "closed" ELSE "reset"]
    /\ outbox' = [outbox EXCEPT ![c] = <<>>]
    /\ UNCHANGED <<backlog, clients, pos, pc, response, storage, sent, taken>>

----------------------------------------------------------------------------
(* main_cycle: one accept, then one read of every client in the list *)

\* Mutant: the new client replaces the list.
AcceptForgetsList ==
    /\ pc = "accept" /\ Len(clients) < MaxFds /\ backlog # <<>>
    /\ clients' = <<Head(backlog)>>
    /\ backlog' = Tail(backlog)
    /\ pc' = "read" /\ pos' = 1
    /\ UNCHANGED <<conn, response, storage, sent, taken, outbox>>

Accept ==
    /\ pc = "accept" /\ Len(clients) < MaxFds /\ backlog # <<>>
    /\ clients' = <<Head(backlog)>> \o clients
    /\ backlog' = Tail(backlog)
    /\ pc' = "read" /\ pos' = 1
    /\ UNCHANGED <<conn, response, storage, sent, taken, outbox>>

\* EAGAIN
AcceptNobody ==
    /\ pc = "accept" /\ Len(clients) < MaxFds /\ backlog = <<>>
    /\ pc' = "read" /\ pos' = 1
    /\ UNCHANGED <<network, clients, response, storage>>

\* EMFILE, whether or not anybody is waiting: every client that was ever
\* accepted keeps its descriptor.
AcceptFails ==
    /\ pc = "accept" /\ Len(clients) >= MaxFds
    /\ pc' = "exit"
    /\ UNCHANGED <<network, clients, pos, response, storage>>

ScanEnds ==
    /\ pc = "read" /\ pos > Len(clients)
    /\ pc' = "accept"
    /\ UNCHANGED <<network, clients, pos, response, storage>>

Reading(c) == pc = "read" /\ pos <= Len(clients) /\ c = clients[pos]

\* The connection was reset by the client, or broken by an answer that came
\* after the client had closed: the next read and the next write fail.
Dead(c) == conn[c] \in {"reset", "broken"}

\* EAGAIN, or end of file: a client that closed stays in the list for ever.
ReadNothing(c) ==
    /\ Reading(c) /\ Inbox(c) = <<>> /\ ~ Dead(c)
    /\ pos' = pos + 1
    /\ UNCHANGED <<network, clients, pc, response, storage>>

\* Mutant: EAGAIN is not told from other errors.
ReadFailsOnEagain(c) ==
    /\ Reading(c) /\ Inbox(c) = <<>> /\ (conn[c] = "open" \/ Dead(c))
    /\ pc' = "exit"
    /\ UNCHANGED <<network, clients, pos, response, storage>>

ReadFails(c) ==
    /\ Reading(c) /\ Inbox(c) = <<>> /\ Dead(c)
    /\ pc' = "exit"
    /\ UNCHANGED <<network, clients, pos, response, storage>>

\* strtok_r: the place of the next token at or after a place, a maximal run of
\* anything but spaces; the empty place after the end if there is none.
strtok_r(buffer) == [from \in 1 .. Len(buffer) + 1 |->
    LET end   == Len(buffer) + 1
        first == Min({i \in from .. end : i = end \/ buffer[i] # Space})
        after == Min({i \in first .. end : i = end \/ buffer[i] = Space})
    IN  [first |-> first, last |-> after - 1]]

Text(buffer, token) == SubSeq(buffer, token.first, token.last)

NULL == <<>>

\* The three tokens main_cycle asks for, NULL those that are not there.
Tokens(buffer) ==
    LET first  == strtok_r(buffer)[1]
        second == strtok_r(buffer)[first.last + 1]
        third  == strtok_r(buffer)[second.last + 1]
    IN  [command  |-> Text(buffer, first),
         argument |-> Text(buffer, second),
         value    |-> Text(buffer, third)]

\* A read returns what has arrived, at most a buffer of it.  A command that
\* is sent alone arrives whole.
ReadLengths(c) ==
    LET most == Min({Len(Inbox(c)), CLIENT_BUFFER_SIZE - 1})
    IN  IF Patient THEN {most} \ {0} ELSE 1 .. most

Reads(c) == {SubSeq(Inbox(c), 1, n) : n \in ReadLengths(c)}

ReadGet(c) ==
    /\ Reading(c)
    /\ \E buffer \in Reads(c) : \E tokens \in {Tokens(buffer)} :
        /\ tokens.argument # NULL /\ tokens.command[1] = "get"
        /\ taken' = [taken EXCEPT ![c] = @ + Len(buffer)]
        /\ response' = get(tokens.argument) \o <<Newline>>
        /\ pc' = "response"
        /\ UNCHANGED <<conn, backlog, clients, pos, storage, sent, outbox>>

ReadSet(c) ==
    /\ Reading(c)
    /\ \E buffer \in Reads(c) : \E tokens \in {Tokens(buffer)} :
        /\ tokens.argument # NULL /\ tokens.command[1] = "set"
        /\ tokens.value # NULL
        /\ taken' = [taken EXCEPT ![c] = @ + Len(buffer)]
        /\ set(tokens.argument, tokens.value)
        /\ pos' = pos + 1
        /\ UNCHANGED <<conn, backlog, clients, pc, response, sent, outbox>>

\* Anything else is read and forgotten.
ReadOther(c) ==
    /\ Reading(c)
    /\ \E buffer \in Reads(c) : \E tokens \in {Tokens(buffer)} :
        /\ tokens.argument # NULL =>
              /\ tokens.command[1] # "get"
              /\ tokens.command[1] = "set" => tokens.value = NULL
        /\ taken' = [taken EXCEPT ![c] = @ + Len(buffer)]
        /\ pos' = pos + 1
        /\ UNCHANGED <<conn, backlog, clients, pc, response, storage, sent, outbox>>

Responding(c) == pc = "response" /\ c = clients[pos]

\* Mutant: the answer goes to the newest client.
RespondToFirst(c) ==
    /\ Responding(c) /\ conn[c] = "open"
    /\ outbox' = [outbox EXCEPT ![clients[1]] = SubSeq(@ \o response, 1,
                        Min({OutSize, Len(@) + Len(response)}))]
    /\ pc' = "read" /\ pos' = pos + 1 /\ response' = <<>>
    /\ UNCHANGED <<conn, backlog, clients, storage, sent, taken>>

\* The socket does not block and the result of write is not looked at: what
\* does not fit is lost.
Respond(c) ==
    /\ Responding(c) /\ conn[c] = "open"
    /\ outbox' = [outbox EXCEPT ![c] = SubSeq(@ \o response, 1,
                        Min({OutSize, Len(@) + Len(response)}))]
    /\ pc' = "read" /\ pos' = pos + 1 /\ response' = <<>>
    /\ UNCHANGED <<conn, backlog, clients, storage, sent, taken>>

\* The system of a client that has closed answers the answer with a reset.
RespondToClosed(c) ==
    /\ Responding(c) /\ conn[c] # "open"
    /\ conn' = [conn EXCEPT ![c] = IF @ = "closed" THEN "broken" ELSE @]
    /\ pc' = "read" /\ pos' = pos + 1 /\ response' = <<>>
    /\ UNCHANGED <<backlog, clients, storage, sent, taken, outbox>>

\* On a dead connection a write may also kill the server with SIGPIPE.
RespondKills(c) ==
    /\ Responding(c) /\ Dead(c)
    /\ pc' = "exit"
    /\ UNCHANGED <<network, clients, pos, response, storage>>

----------------------------------------------------------------------------

Client(c) == Connect(c) \/ Send(c) \/ Receive(c) \/ Close(c)

Server == \/ Accept \/ AcceptNobody \/ AcceptFails \/ ScanEnds
          \/ \E c \in Conn : \/ ReadNothing(c) \/ ReadFails(c)
                             \/ ReadGet(c) \/ ReadSet(c) \/ ReadOther(c)
                             \/ Respond(c) \/ RespondToClosed(c) \/ RespondKills(c)

Next == Server \/ \E c \in Conn : Client(c)

Spec == Init /\ [][Next]_vars

\* The server never blocks, so it runs whenever it is scheduled.
FairSpec == Spec /\ WF_vars(Server)

----------------------------------------------------------------------------
(* Properties *)

\* Every variable stays in its type, and a socket within its buffer.
TypeOK ==
    /\ conn \in [Conn -> {"new", "open", "closed", "reset", "broken"}]
    /\ backlog \in Seq(Conn) /\ clients \in Seq(Conn)
    /\ pos \in 1 .. Len(clients) + 1
    /\ pc \in {"accept", "read", "response", "exit"}
    /\ response \in Seq(Word)
    /\ storage \in Seq([key : Seq(Word), value : Seq(Word)])
    /\ sent \in [Conn -> Seq(Word)]
    /\ taken \in [Conn -> Nat] /\ \A c \in Conn : taken[c] <= Len(sent[c])
    /\ outbox \in [Conn -> Seq(Word)]
    /\ \A c \in Conn : Len(outbox[c]) <= OutSize

Occurs(text, stream) ==
    \E i \in 0 .. Len(stream) - Len(text) : SubSeq(stream, i + 1, i + Len(text)) = text

\* A key and its value come from one stretch of one client's text: commands
\* of two clients are never mixed, however their reads alternate.  And no key is
\* in the list twice (`set' changes the value of a key that exists,
\* README.md:8), so the value find() sees is the only one.
ItemsFromOneClient ==
    /\ TypeOK
    /\ \A i \in DOMAIN storage : \E c \in Conn :
          Occurs(storage[i].key \o <<Space>> \o storage[i].value, sent[c])
    /\ \A i, j \in DOMAIN storage : storage[i].key = storage[j].key => i = j

Count(w, text) == Cardinality({i \in DOMAIN text : text[i] = w})

\* A client is answered only what it asked: it never has more lines to read
\* than the server read get words from it.
AnswersOnlyAskers ==
    \A c \in Conn : Count(Newline, outbox[c]) <=
                    Count("get", SubSeq(sent[c], 1, taken[c]))

\* Clients that wait their turn see a map with atomic commands
\* (README.md:7-8), whatever the order in which the server reads them.
CommandIn(text) == CHOOSE cmd \in Command : TextOf(cmd) = text
ValueOf(text) == IF text = <<>> THEN <<"no value">> ELSE text
AnswerIn(text) == ValueOf(SubSeq(text, 1, Len(text) - 1))

RequestIn(text) ==
    IF text = <<>> THEN [op |-> "none"]
    ELSE LET cmd == CommandIn(text) IN
         IF cmd.op = "get" THEN cmd ELSE [cmd EXCEPT !.value = <<@>>]
AnswerOf(c) ==
    IF pc = "response" /\ clients[pos] = c THEN AnswerIn(response)
    ELSE IF outbox[c] = <<>> THEN <<"no reply">> ELSE AnswerIn(outbox[c])

Map == INSTANCE AbstractKv WITH
    Key <- Keys, Value <- {<<v>> : v \in Values},
    map <- [k \in Keys |-> ValueOf(get(<<k>>))],
    request <- [c \in Conn |-> RequestIn(Inbox(c))],
    answer <- [c \in Conn |-> AnswerOf(c)]

AtomicMap == Map!ASpec

\* A patient client is always answered, however many others there are and
\* whether they have closed or not.
GetsAnswered ==
    \A c \in Conn : Count("get", Inbox(c)) > 0 ~> outbox[c] # <<>>

\* The server stops only for a client that reset its connection, for one that
\* sent a get and closed before the answer was written, or when its descriptors
\* are used up.  So clients that are slow or silent, or that close with nothing
\* but sets sent, never stop it for the others.  (That one client can stop it
\* at all is what the code does, not what README.md:10 asks for.)
Asked(c) == \E i \in 1 .. taken[c] : sent[c][i] = "get"

Excused(c) == conn[c] = "reset" \/ (conn[c] = "broken" /\ Asked(c))

StopsOnlyFor ==
    pc = "exit" => (\E c \in Conn : Excused(c)) \/ Len(clients) = MaxFds

\* The session of README.md:20-22, with one client: `set doll barbie' and then
\* `get doll' answer `barbie'.
SessionWorks ==
    \A c \in Conn, k \in Keys, v \in Values :
        /\ Responding(c)
        /\ SubSeq(sent[c], 1, taken[c]) =
              TextOf([op |-> "set", key |-> k, value |-> v])
                \o TextOf([op |-> "get", key |-> k])
        => response = <<v, Newline>>
=============================================================================
