------------------------------- MODULE Chat -------------------------------
(***************************************************************************)
(* lectures/03-goroutines/chat/chat.go: handleConn and clientWriter of     *)
(* each connection, and the broadcaster, which owns the set of clients.    *)
(* All channels are unbuffered: a send is one step of both sides.  A       *)
(* client is known by its connection; a message is left out but for who    *)
(* sends it.                                                               *)
(***************************************************************************)
EXTENDS Integers, FiniteSets

CONSTANTS Conns,
          MaxLines   \* bound on the lines typed

VARIABLES conn,      \* conn[c]: where handleConn of c is
          chClients, \* the clients of the broadcaster
          toDeliver, \* those that have still to get the message it has in hand
          writer,    \* writer[c]: clientWriter waits, writes, or is over
          chClosed,  \* the clients whose channel is closed
          linesLeft

chatVars == <<conn, chClients, toDeliver, writer, chClosed, linesLeft>>

ChatInit == /\ conn = [c \in Conns |-> "accepted"]
            /\ chClients = {} /\ toDeliver = {} /\ chClosed = {}
            /\ writer = [c \in Conns |-> "wait"]
            /\ linesLeft = MaxLines

ConnAt(c, label) == conn' = [conn EXCEPT ![c] = label]
WriterAt(c, label) == writer' = [writer EXCEPT ![c] = label]

\* "You are ..." goes straight to the writer.
TellWho(c) == /\ conn[c] = "accepted" /\ writer[c] = "wait"
              /\ ConnAt(c, "arrived") /\ WriterAt(c, "write")
              /\ UNCHANGED <<chClients, toDeliver, chClosed, linesLeft>>

\* The broadcaster takes a message when it has delivered the last one.
TakeMessage(c) == /\ toDeliver = {}
                  /\ \/ conn[c] = "arrived" /\ ConnAt(c, "entering")
                     \/ conn[c] = "said" /\ ConnAt(c, "scan")
                     \/ conn[c] = "left" /\ ConnAt(c, "closed")
                  /\ toDeliver' = chClients
                  /\ UNCHANGED <<chClients, writer, chClosed, linesLeft>>

Enter(c) == /\ conn[c] = "entering" /\ toDeliver = {}
            /\ chClients' = chClients \union {c}
            /\ ConnAt(c, "scan")
            /\ UNCHANGED <<toDeliver, writer, chClosed, linesLeft>>

TypeLine(c) == /\ conn[c] = "scan" /\ linesLeft > 0
               /\ linesLeft' = linesLeft - 1
               /\ ConnAt(c, "said")
               /\ UNCHANGED <<chClients, toDeliver, writer, chClosed>>

HangUp(c) == /\ conn[c] = "scan"
             /\ ConnAt(c, "leaving")
             /\ UNCHANGED <<chClients, toDeliver, writer, chClosed, linesLeft>>

\* mutant: the client stays in the map
LeaveInMap(c) == /\ conn[c] = "leaving" /\ toDeliver = {}
                 /\ chClosed' = chClosed \union {c}
                 /\ ConnAt(c, "left")
                 /\ UNCHANGED <<chClients, toDeliver, writer, linesLeft>>

Leave(c) == /\ conn[c] = "leaving" /\ toDeliver = {}
            /\ chClients' = chClients \ {c}
            /\ chClosed' = chClosed \union {c}
            /\ ConnAt(c, "left")
            /\ UNCHANGED <<toDeliver, writer, linesLeft>>

Deliver1(c) == /\ c \in toDeliver /\ writer[c] = "wait"
               /\ toDeliver' = toDeliver \ {c}
               /\ WriterAt(c, "write")
               /\ UNCHANGED <<conn, chClients, chClosed, linesLeft>>

\* Fprintln returns, with or without an error.
Written(c) == /\ writer[c] = "write"
              /\ WriterAt(c, "wait")
              /\ UNCHANGED <<conn, chClients, toDeliver, chClosed, linesLeft>>

WriterOver(c) == /\ writer[c] = "wait" /\ c \in chClosed
                 /\ WriterAt(c, "over")
                 /\ UNCHANGED <<conn, chClients, toDeliver, chClosed, linesLeft>>

ConnStep(c) == TellWho(c) \/ TakeMessage(c) \/ Enter(c) \/ Leave(c)
WriterStep(c) == Deliver1(c) \/ Written(c) \/ WriterOver(c)

ChatNext == \E c \in Conns : ConnStep(c) \/ TypeLine(c) \/ HangUp(c) \/ WriterStep(c)

\* Channel sends are served in turn, writes to connections return.
ChatFairness == \A c \in Conns : SF_chatVars(ConnStep(c)) /\ WF_chatVars(WriterStep(c))

---------------------------------------------------------------------------
(* Properties                                                              *)

\* Nobody is sent a message on a closed channel, which would panic, and the
\* clients are those that have entered and not left (chat.go:31-38, 51-61).
NoSendToTheGone ==
  /\ (toDeliver \union chClients) \cap chClosed = {}
  /\ chClients = {c \in Conns : conn[c] \in {"scan", "said", "leaving"}}

\* Whoever hangs up is let go, and its writer ends (chat.go:59-63).
LeaversAreLetGo == \A c \in Conns : conn[c] = "leaving" ~> conn[c] = "closed" /\ writer[c] = "over"
============================================================================
