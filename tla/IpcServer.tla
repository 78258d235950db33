----------------------------- MODULE IpcServer ------------------------------
(***************************************************************************)
(* How requests reach the daemon and how it shuts down: the clients        *)
(* (client.rs), the thread that accepts and reads connections (server.rs,  *)
(* daemon.rs:86-101), the channel, the main loop that answers (daemon.rs:  *)
(* 103-116, :213-229) and the end of run() (daemon.rs:118-125).            *)
(*                                                                         *)
(* What a request does is the subject of module Daemon; here it is carried *)
(* out or it is not. A connection is named by its client, and WakeUp is    *)
(* the one main opens to itself. A client that quits closes its end, which *)
(* the daemon notices only when it uses the connection.                    *)
(***************************************************************************)
EXTENDS Integers, Sequences, FiniteSets

CONSTANTS
  Clients,      \* the processes that use Client::request
  WakeUp,       \* the connection run() opens to wake the accept thread
  Nobody,       \* no connection
  MaxRemovals   \* bound: removals of the socket file by another program

ASSUME ConnectionsAssumption ==
  WakeUp \notin Clients /\ Nobody \notin Clients \cup {WakeUp}
ASSUME RemovalsAssumption == MaxRemovals \in Nat

VARIABLES
  session,     \* what each client has done, and heard
  carriedOut,  \* history: the clients whose last request was carried out
  reachable,   \* whether the socket file is there, so connect() succeeds
  backlog,     \* the connections the listener has not accepted
  acceptor,    \* where the accept thread is
  inHand,      \* the connection it has accepted
  queue,       \* the channel from the accept thread to main
  receiver,    \* whether main still holds the receiver
  main,        \* where the main thread is
  answering,   \* the connection main has received
  shutdown,    \* SHUTDOWN_REQUESTED
  removals     \* bound: the removals so far

vars == <<session, carriedOut, reachable, backlog, acceptor, inHand, queue, receiver,
          main, answering, shutdown, removals>>
acceptVars == <<reachable, backlog, acceptor, inHand>>
mainVars == <<receiver, main, answering, shutdown>>

Elements(seq) == {seq[i] : i \in DOMAIN seq}

\* The daemon closes its end: the client hears nothing more, or is gone.
HangUp(connections) ==
  session' = [c \in Clients |->
                IF c \notin connections THEN session[c]
                ELSE IF session[c] \in {"gone", "left"} THEN "idle" ELSE "failed"]

Init ==
  /\ session = [c \in Clients |-> "idle"]
  /\ carriedOut = {}
  /\ reachable = TRUE
  /\ backlog = <<>> /\ queue = <<>>
  /\ acceptor = "unborn" /\ inHand = Nobody
  /\ receiver = TRUE
  /\ main = "booting" /\ answering = Nobody
  /\ shutdown = FALSE
  /\ removals = 0

-----------------------------------------------------------------------------
(* Clients.                                                                *)

Connect(c) ==
  /\ session[c] = "idle" /\ reachable
  /\ session' = [session EXCEPT ![c] = "connected"]
  /\ carriedOut' = carriedOut \ {c}
  /\ backlog' = Append(backlog, c)
  /\ UNCHANGED <<reachable, acceptor, inHand, queue, mainVars, removals>>

\* The request and the end of the stream, or more than MAX_MESSAGE_SIZE bytes.
Send(c) ==
  /\ session[c] = "connected"
  /\ \E sent \in {"sent", "oversized"} : session' = [session EXCEPT ![c] = sent]
  /\ UNCHANGED <<carriedOut, acceptVars, queue, mainVars, removals>>

Quit(c) ==
  /\ session[c] \in {"connected", "sent"}
  /\ session' = [session EXCEPT ![c] = IF @ = "sent" THEN "left" ELSE "gone"]
  /\ UNCHANGED <<carriedOut, acceptVars, queue, mainVars, removals>>

Done(c) ==
  /\ session[c] \in {"answered", "failed", "cut"}
  /\ session' = [session EXCEPT ![c] = "idle"]
  /\ UNCHANGED <<carriedOut, acceptVars, queue, mainVars, removals>>

-----------------------------------------------------------------------------
(* The accept thread.                                                      *)

\* The thread ends: the server is dropped and with it the socket file and
\* every connection not accepted yet.
EndThread(dropped) ==
  /\ acceptor' = "ended"
  /\ reachable' = FALSE
  /\ backlog' = <<>>
  /\ inHand' = Nobody
  /\ HangUp(Elements(backlog) \cup dropped)

CheckShutdown ==
  /\ acceptor = "checking"
  /\ IF shutdown
     THEN EndThread({})
     ELSE acceptor' = "accepting" /\ UNCHANGED <<session, reachable, backlog, inHand>>
  /\ UNCHANGED <<carriedOut, queue, mainVars, removals>>

Accept ==
  /\ acceptor = "accepting" /\ backlog # <<>>
  /\ inHand' = Head(backlog)
  /\ backlog' = Tail(backlog)
  /\ acceptor' = "reading"
  /\ UNCHANGED <<session, carriedOut, reachable, queue, mainVars, removals>>

\* What there is to read: the wake-up connection is closed as soon as it opens.
Sent(connection) == IF connection = WakeUp THEN "gone" ELSE session[connection]

\* A whole message, or what a client sent before it quit: parsed or not, it
\* is an Incoming.
Read ==
  /\ acceptor = "reading"
  /\ Sent(inHand) \in {"sent", "gone", "left"}
  /\ acceptor' = "sending"
  /\ UNCHANGED <<session, carriedOut, reachable, backlog, inHand, queue, mainVars,
                 removals>>

BuggyReadFails ==
  /\ acceptor = "reading"
  /\ Sent(inHand) = "oversized"
  /\ HangUp({inHand})
  /\ inHand' = Nobody
  /\ acceptor' = "checking"
  /\ UNCHANGED <<carriedOut, reachable, backlog, queue, mainVars, removals>>

\* CLIENT_IO_TIMEOUT passes without a byte, or the message is too large.
ReadFails ==
  /\ acceptor = "reading"
  /\ Sent(inHand) \in {"connected", "oversized"}
  /\ HangUp({inHand})
  /\ inHand' = Nobody
  /\ acceptor' = "checking"
  /\ UNCHANGED <<carriedOut, reachable, backlog, queue, mainVars, removals>>

BuggySendIncoming ==
  /\ acceptor = "sending"
  /\ IF receiver
     THEN /\ queue' = Append(queue, inHand)
          /\ acceptor' = "checking"
          /\ UNCHANGED <<session, reachable, backlog, inHand>>
     ELSE EndThread({inHand}) /\ UNCHANGED queue
  /\ UNCHANGED <<carriedOut, mainVars, removals>>

SendIncoming ==
  /\ acceptor = "sending"
  /\ IF receiver
     THEN /\ queue' = Append(queue, inHand)
          /\ inHand' = Nobody
          /\ acceptor' = "checking"
          /\ UNCHANGED <<session, reachable, backlog>>
     ELSE EndThread({inHand}) /\ UNCHANGED queue
  /\ UNCHANGED <<carriedOut, mainVars, removals>>

-----------------------------------------------------------------------------
(* The main thread.                                                        *)

Boot ==
  /\ main = "booting"
  /\ main' = "checking"
  /\ acceptor' = "checking"
  /\ UNCHANGED <<session, carriedOut, reachable, backlog, inHand, queue, receiver,
                 answering, shutdown, removals>>

\* The preferences or the displays cannot be read: run() returns the error.
BootFails ==
  /\ main = "booting"
  /\ main' = "ended"
  /\ EndThread({})
  /\ UNCHANGED <<carriedOut, queue, receiver, answering, shutdown, removals>>

Check ==
  /\ main = "checking"
  /\ main' = (IF shutdown THEN "closing" ELSE "receiving")
  /\ UNCHANGED <<session, carriedOut, acceptVars, queue, receiver, answering, shutdown,
                 removals>>

\* recv_timeout gives a message while there is one, though the sender is gone.
NothingReceived ==
  /\ main = "receiving" /\ queue = <<>>
  /\ main' = (IF acceptor = "ended" THEN "closing" ELSE "checking")
  /\ UNCHANGED <<session, carriedOut, acceptVars, queue, receiver, answering, shutdown,
                 removals>>

Complete(c) == c \in Clients /\ session[c] \in {"sent", "left"}

BuggyReceive ==
  /\ main = "receiving" /\ queue # <<>>
  /\ answering' = Head(queue)
  /\ carriedOut' = carriedOut \cup {c \in {Head(queue)} : Complete(c)}
  /\ main' = "answering"
  /\ UNCHANGED <<session, acceptVars, queue, receiver, shutdown, removals>>

Receive ==
  /\ main = "receiving" /\ queue # <<>>
  /\ answering' = Head(queue)
  /\ queue' = Tail(queue)
  /\ carriedOut' = carriedOut \cup {c \in {Head(queue)} : Complete(c)}
  /\ main' = "answering"
  /\ UNCHANGED <<session, acceptVars, receiver, shutdown, removals>>

\* The request's connection is closed; its client, if it is still there, has
\* heard the answer or only the end of the stream.
EndRequest(heard) ==
  /\ main = "answering"
  /\ session' = [c \in Clients |->
                   IF c # answering THEN session[c]
                   ELSE IF session[c] = "sent" THEN heard ELSE "idle"]
  /\ answering' = Nobody
  /\ main' = "checking"
  /\ UNCHANGED <<carriedOut, acceptVars, queue, receiver, shutdown, removals>>

BuggyRespond == EndRequest(IF shutdown THEN "failed" ELSE "answered")
Respond == EndRequest("answered")

\* The response is larger than MAX_MESSAGE_SIZE, or it cannot be written: the
\* error is logged, what the request did stands.
RespondFails == EndRequest("cut")

\* Requests nobody received are dropped with the channel.
DropReceiver ==
  /\ main = "closing"
  /\ shutdown' = TRUE
  /\ receiver' = FALSE
  /\ HangUp(Elements(queue))
  /\ queue' = <<>>
  /\ main' = "waking"
  /\ UNCHANGED <<carriedOut, acceptVars, answering, removals>>

BuggyWakeAcceptor ==
  /\ main = "waking"
  /\ main' = "joining"
  /\ UNCHANGED <<session, carriedOut, acceptVars, queue, receiver, answering, shutdown,
                 removals>>

WakeAcceptor ==
  /\ main = "waking"
  /\ backlog' = IF reachable THEN Append(backlog, WakeUp) ELSE backlog
  /\ main' = "joining"
  /\ UNCHANGED <<session, carriedOut, reachable, acceptor, inHand, queue, receiver,
                 answering, shutdown, removals>>

Join ==
  /\ main = "joining" /\ acceptor = "ended"
  /\ main' = "ended"
  /\ UNCHANGED <<session, carriedOut, acceptVars, queue, receiver, answering, shutdown,
                 removals>>

\* The daemon is started again, by launchd or by hand.
Restart ==
  /\ main = "ended"
  /\ main' = "booting"
  /\ acceptor' = "unborn"
  /\ reachable' = TRUE /\ receiver' = TRUE /\ shutdown' = FALSE
  /\ UNCHANGED <<session, carriedOut, backlog, inHand, queue, answering, removals>>

Signal ==
  /\ ~shutdown /\ main # "ended"
  /\ shutdown' = TRUE
  /\ UNCHANGED <<session, carriedOut, acceptVars, queue, receiver, main, answering,
                 removals>>

RemoveSocket ==
  /\ reachable /\ removals < MaxRemovals
  /\ reachable' = FALSE
  /\ removals' = removals + 1
  /\ UNCHANGED <<session, carriedOut, backlog, acceptor, inHand, queue, mainVars>>

-----------------------------------------------------------------------------
AcceptThread == CheckShutdown \/ Accept \/ Read \/ ReadFails \/ SendIncoming

MainThread == \/ Boot \/ BootFails \/ Check \/ NothingReceived \/ Receive \/ Respond
              \/ RespondFails \/ DropReceiver \/ WakeAcceptor \/ Join

Others == \/ \E c \in Clients : Connect(c) \/ Send(c) \/ Quit(c) \/ Done(c)
          \/ Restart \/ Signal \/ RemoveSocket

Next == AcceptThread \/ MainThread \/ Others

Spec == Init /\ [][Next]_vars

(***************************************************************************)
(* The two threads run when they can, and read() times out. Clients owe    *)
(* nothing: they may connect and say nothing, for ever.                    *)
(***************************************************************************)
Fairness == WF_vars(AcceptThread) /\ WF_vars(MainThread)

FairSpec == Spec /\ Fairness

-----------------------------------------------------------------------------
(* Properties.                                                             *)

Open == {c \in Clients : session[c] \notin {"idle", "answered", "failed", "cut"}}

\* Every variable is in its range, and each thread has a connection in its
\* hand exactly while it works on one (daemon.rs:88-90, :111-112).
TypeOK ==
  /\ session \in [Clients -> {"idle", "connected", "sent", "oversized", "gone", "left",
                              "answered", "failed", "cut"}]
  /\ carriedOut \subseteq Clients
  /\ reachable \in BOOLEAN /\ receiver \in BOOLEAN /\ shutdown \in BOOLEAN
  /\ backlog \in Seq(Clients \cup {WakeUp})
  /\ queue \in Seq(Clients \cup {WakeUp})
  /\ acceptor \in {"unborn", "checking", "accepting", "reading", "sending", "ended"}
  /\ inHand \in Clients \cup {WakeUp, Nobody}
  /\ inHand # Nobody <=> acceptor \in {"reading", "sending"}
  /\ main \in {"booting", "checking", "receiving", "answering", "closing", "waking",
               "joining", "ended"}
  /\ answering \in Clients \cup {WakeUp, Nobody}
  /\ answering # Nobody <=> main = "answering"
  /\ removals \in 0 .. MaxRemovals

\* Every open connection is in exactly one place, the backlog, the accept
\* thread, the channel or the main thread: no request is lost on the way or
\* carried out twice (daemon.rs:90, :112).
OneHolder ==
  \A c \in Clients :
    Cardinality({i \in DOMAIN backlog : backlog[i] = c})
      + Cardinality({i \in DOMAIN queue : queue[i] = c})
      + Cardinality({h \in {"acceptor"} : inHand = c})
      + Cardinality({h \in {"main"} : answering = c})
    = IF c \in Open THEN 1 ELSE 0

\* A client that sees the end of the stream instead of an answer may be sure
\* that its request was not carried out, whenever the daemon was told to stop
\* (daemon.rs:90, :112, :120); only the client whose own answer could not be
\* written may not (daemon.rs:226-228).
UnansweredMeansUndone == \A c \in Clients : session[c] = "failed" => c \notin carriedOut

\* A client that sent its request hears back, though other clients connect and
\* say nothing, its answer cannot be written, and the daemon is told to stop: an
\* answer or the end of the stream (server.rs:17, :43-44, daemon.rs:118-122,
\* :226-228).
ClientHearsBack ==
  \A c \in Clients : session[c] = "sent" ~> session[c] # "sent"

\* A daemon that was told to stop ends, wherever its two threads are then, as
\* long as nobody removes the socket file (daemon.rs:86-101, :118-125).
ShutdownEnds == shutdown ~> main = "ended" \/ removals > 0

\* CHANGELOG.md:13 says 'Stop ipc thread on shutdown'.
ShutdownStopsIpcThread == main = "joining" ~> acceptor = "ended"
=============================================================================
