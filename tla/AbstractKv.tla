---------------------------- MODULE AbstractKv -----------------------------
(***************************************************************************)
(* What the key-value server of 09-networks-1/tasks/kv-server promises to  *)
(* clients that wait for their turn (README.md:7-10): a map from keys to   *)
(* values on which each connection executes one command at a time, every   *)
(* command atomically.                                                     *)
(***************************************************************************)
CONSTANTS Conn, Key, Value

NoValue   == <<"no value">>
NoRequest == [op |-> "none"]
NoReply   == <<"no reply">>

VARIABLES map,       \* the value of every key
          request,   \* the command each connection waits for
          answer     \* the answer that waits for each connection

avars == <<map, request, answer>>

Command == [op : {"get"}, key : Key] \cup [op : {"set"}, key : Key, value : Value]

AInit == /\ map = [k \in Key |-> NoValue]
         /\ request = [c \in Conn |-> NoRequest]
         /\ answer = [c \in Conn |-> NoReply]

Ask(c) == /\ request[c] = NoRequest /\ answer[c] = NoReply
          /\ \E cmd \in Command : request' = [request EXCEPT ![c] = cmd]
          /\ UNCHANGED <<map, answer>>

DoGet(c) == /\ request[c].op = "get"
            /\ answer' = [answer EXCEPT ![c] = map[request[c].key]]
            /\ request' = [request EXCEPT ![c] = NoRequest]
            /\ UNCHANGED map

DoSet(c) == /\ request[c].op = "set"
            /\ map' = [map EXCEPT ![request[c].key] = request[c].value]
            /\ request' = [request EXCEPT ![c] = NoRequest]
            /\ UNCHANGED answer

Receive(c) == /\ answer[c] # NoReply
              /\ answer' = [answer EXCEPT ![c] = NoReply]
              /\ UNCHANGED <<map, request>>

ANext == \E c \in Conn : Ask(c) \/ DoGet(c) \/ DoSet(c) \/ Receive(c)

ASpec == AInit /\ [][ANext]_avars
=============================================================================
