------------------------------- MODULE WebSocket -------------------------------
(***************************************************************************)
(* The events a node sends to its WebSocket clients                        *)
(* (myriadnode-full/src/websocket.rs).  One broadcast channel feeds all    *)
(* clients; it keeps the last ChannelCapacity events, and a client that    *)
(* falls behind further is told so instead of being given the next one.    *)
(*                                                                         *)
(* An event is whether it can be written as JSON.  All those the code has, *)
(* made of strings and integers, can; the send task is written for one     *)
(* that cannot as well.                                                    *)
(***************************************************************************)
EXTENDS Integers, Sequences

CONSTANTS
  Clients,           \* connections, each made once
  ChannelCapacity    \* 100 in WsBroadcaster::new, which tokio rounds up to 128

ASSUME WebSocketAssumption == ChannelCapacity \in Nat \ {0}

VARIABLES
  events,   \* all that was broadcast since the process started
  client    \* client -> its connection

wsVars == <<events, client>>

-----------------------------------------------------------------------------
\* first: position of the first event broadcast after it subscribed; next: of
\* the next one its send task takes; got: the positions of those written to the
\* socket.
Connection(at, first, next, got) == [at |-> at, first |-> first, next |-> next, got |-> got]
Away == Connection("away", 0, 0, <<>>)
Gone == Connection("gone", 0, 0, <<>>)
Connected(c) == client[c] \notin {Away, Gone}

WsInit ==
  /\ events = <<>>
  /\ client = [c \in Clients |-> Away]

\* Nobody need be listening.
Broadcast(encodable) == events' = Append(events, encodable)

\* handle_socket subscribes before it writes its welcome, the first thing a
\* client gets.
Connect(c) ==
  /\ client[c] = Away
  /\ LET n == Len(events) + 1 IN client' = [client EXCEPT ![c] = Connection("open", n, n, <<>>)]
  /\ UNCHANGED events

\* What the channel no longer holds is lost: recv returns Lagged, which ends the
\* send task, and with it the connection.
Lagged(c) == Len(events) - client[c].next >= ChannelCapacity

\* An event that cannot be written is left out, and the task goes on.
Given(me, i) ==
  Connection("open", me.first, i + 1, IF events[i] THEN Append(me.got, i) ELSE me.got)

Forward_Mut(c) ==   \* goes on with the oldest event still there
  LET me == client[c] IN
  /\ me.at = "open" /\ me.next <= Len(events)
  /\ client' = [client EXCEPT ![c] =
       Given(me, IF Lagged(c) THEN Len(events) - ChannelCapacity + 1 ELSE me.next)]
  /\ UNCHANGED events
Forward(c) ==
  LET me == client[c] IN
  /\ me.at = "open" /\ me.next <= Len(events)
  /\ client' = [client EXCEPT ![c] = IF Lagged(c) THEN Gone ELSE Given(me, me.next)]
  /\ UNCHANGED events

\* A failed send, a close frame or an error on the socket: whichever task ends
\* first takes the other one along.
Disconnect(c) ==
  /\ Connected(c)
  /\ client' = [client EXCEPT ![c] = Gone]
  /\ UNCHANGED events

ClientStep(c) == Connect(c) \/ Forward(c) \/ Disconnect(c)

\* The process is gone.
WsReset ==
  /\ events' = <<>>
  /\ client' = [c \in Clients |-> IF Connected(c) THEN Gone ELSE client[c]]

-----------------------------------------------------------------------------
\* A client is given the events since it subscribed one after the other, all that
\* can be written, for as long as it is connected: one that is too slow for the
\* channel is disconnected and never continues behind a hole (websocket.rs,
\* handle_socket's send task).
ClientsSeeAll ==
  \A c \in Clients : Connected(c) =>
    LET me == client[c] IN
    /\ {me.got[j] : j \in 1..Len(me.got)} = {i \in me.first..(me.next - 1) : events[i]}
    /\ \A j, k \in 1..Len(me.got) : j < k => me.got[j] < me.got[k]
=============================================================================
