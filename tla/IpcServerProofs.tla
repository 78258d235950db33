-------------------------- MODULE IpcServerProofs ---------------------------
(***************************************************************************)
(* Proofs about the transport of requests, for any clients and any number  *)
(* of removals of the socket file.                                         *)
(*                                                                         *)
(* A connection moves from the backlog to the accept thread, the channel,  *)
(* the main thread and out. Four disjoint places hold exactly the open     *)
(* ones, each once; so what one place hangs up on is in no other, and in   *)
(* particular is not the request that main is carrying out.                *)
(***************************************************************************)
EXTENDS IpcServer, FiniteSetTheorems, SequenceTheorems, TLAPS

Connections == Clients \cup {WakeUp}

\* No client has two entries in a list of connections.
Once(seq) ==
  \A i, j \in DOMAIN seq : seq[i] \in Clients /\ seq[i] = seq[j] => i = j

\* The four places a connection can be in are disjoint, as far as clients go.
PlacesInv ==
  /\ Once(backlog) /\ Once(queue)
  /\ \A c \in Clients :
       /\ c \in Elements(backlog) => c \notin Elements(queue)
       /\ inHand = c => c \notin Elements(backlog) \cup Elements(queue)
       /\ answering = c => c \notin Elements(backlog) \cup Elements(queue)
       /\ inHand = c => answering # c

\* What is in them is open, and what is open is in one of them.
OpenInv ==
  \A c \in Clients :
    c \in Open <=> \/ c \in Elements(backlog) \cup Elements(queue)
                   \/ inHand = c
                   \/ answering = c

\* A request that was carried out is being answered, or was.
CarriedOutInv ==
  \A c \in carriedOut : answering = c \/ session[c] \in {"idle", "answered", "cut"}

\* The accept thread is there from the boot to the join.
ThreadInv ==
  /\ main = "booting" => acceptor = "unborn"
  /\ main = "ended" => acceptor = "ended"

IpcInv == TypeOK /\ PlacesInv /\ OpenInv /\ CarriedOutInv /\ ThreadInv

-----------------------------------------------------------------------------
(***************************************************************************)
(* Lists of connections.                                                   *)
(***************************************************************************)
\* A list's elements are what its indices from 1 to its length lead to.
LEMMA ElementsDef ==
  ASSUME NEW seq \in Seq(Connections)
  PROVE  /\ Len(seq) \in Nat /\ DOMAIN seq = 1 .. Len(seq)
         /\ Elements(seq) \subseteq Connections
         /\ \A e : e \in Elements(seq) <=> \E i \in 1 .. Len(seq) : seq[i] = e
BY LenProperties, ElementOfSeq DEF Elements

\* Append adds one element at the end.
LEMMA ElementsAppend ==
  ASSUME NEW seq \in Seq(Connections), NEW e \in Connections
  PROVE  /\ Append(seq, e) \in Seq(Connections)
         /\ Elements(Append(seq, e)) = Elements(seq) \cup {e}
         /\ Once(seq) /\ (e \in Clients => e \notin Elements(seq))
              => Once(Append(seq, e))
<1> DEFINE new == Append(seq, e)
<1>1. /\ new \in Seq(Connections) /\ Len(new) = Len(seq) + 1
      /\ \A i \in 1 .. Len(seq) : new[i] = seq[i]
      /\ new[Len(seq) + 1] = e
  BY AppendProperties
<1>2. Len(seq) \in Nat /\ DOMAIN seq = 1 .. Len(seq) /\ DOMAIN new = 1 .. Len(new)
  BY <1>1, ElementsDef
<1> HIDE DEF new
<1>3. \A x : x \in Elements(new) <=> x \in Elements(seq) \/ x = e
  <2>1. ASSUME NEW x, x \in Elements(new) PROVE x \in Elements(seq) \/ x = e
    <3>1. PICK i \in 1 .. Len(new) : new[i] = x
      BY <1>1, <2>1, ElementsDef
    <3>2. i \in 1 .. Len(seq) \/ i = Len(seq) + 1
      BY <1>1, <1>2
    <3>3. QED
      BY <1>1, <3>1, <3>2, ElementsDef
  <2>2. ASSUME NEW x, x \in Elements(seq) PROVE x \in Elements(new)
    <3>1. PICK i \in 1 .. Len(seq) : seq[i] = x
      BY <2>2, ElementsDef
    <3>2. i \in 1 .. Len(new) /\ new[i] = x
      BY <1>1, <1>2, <3>1
    <3>3. QED
      BY <1>1, <3>2, ElementsDef
  <2>3. e \in Elements(new)
    <3>1. Len(seq) + 1 \in 1 .. Len(new)
      BY <1>1, <1>2
    <3>2. QED
      BY <1>1, <3>1, ElementsDef
  <2>4. QED
    BY <2>1, <2>2, <2>3
<1>4. ASSUME Once(seq), e \in Clients => e \notin Elements(seq)
      PROVE  Once(new)
  <2>1. SUFFICES ASSUME NEW i \in 1 .. Len(new), NEW j \in 1 .. Len(new),
                        new[i] \in Clients, new[i] = new[j]
                 PROVE  i = j
    BY <1>2 DEF Once
  <2>2. ASSUME NEW k \in 1 .. Len(seq), new[k] = e, e \in Clients PROVE FALSE
    BY <1>1, <1>4, <2>2, ElementsDef
  <2>3. CASE i \in 1 .. Len(seq) /\ j \in 1 .. Len(seq)
    BY <1>1, <1>2, <1>4, <2>1, <2>3 DEF Once
  <2>4. CASE i = Len(seq) + 1 /\ j \in 1 .. Len(seq)
    BY <1>1, <2>1, <2>2, <2>4
  <2>5. CASE j = Len(seq) + 1 /\ i \in 1 .. Len(seq)
    BY <1>1, <2>1, <2>2, <2>5
  <2>6. QED
    BY <1>1, <1>2, <2>3, <2>4, <2>5
<1>5. QED
  BY <1>1, <1>3, <1>4 DEF new

\* Tail takes the first element away, which is not left if it is a client.
LEMMA ElementsTail ==
  ASSUME NEW seq \in Seq(Connections), seq # <<>>
  PROVE  /\ Head(seq) \in Connections /\ Tail(seq) \in Seq(Connections)
         /\ Elements(seq) = Elements(Tail(seq)) \cup {Head(seq)}
         /\ Once(seq) => /\ Once(Tail(seq))
                         /\ Head(seq) \in Clients =>
                              Head(seq) \notin Elements(Tail(seq))
<1> DEFINE rest == Tail(seq)
<1>1. /\ rest \in Seq(Connections) /\ Len(rest) = Len(seq) - 1
      /\ Head(seq) \in Connections
      /\ \A i \in 1 .. Len(rest) : rest[i] = seq[i + 1]
  BY HeadTailProperties
<1>2. /\ Len(seq) \in Nat /\ Len(seq) > 0 /\ Head(seq) = seq[1]
      /\ DOMAIN seq = 1 .. Len(seq) /\ DOMAIN rest = 1 .. Len(rest)
  <2>1. Len(seq) \in Nat \ {0}
    BY EmptySeq
  <2>2. Head(seq) = seq[1]
    BY HeadTailProperties
  <2>3. QED
    BY <1>1, <2>1, <2>2, ElementsDef
<1> HIDE DEF rest
<1>3. \A i \in 1 .. Len(seq) : i = 1 \/ (i - 1 \in 1 .. Len(rest) /\ rest[i - 1] = seq[i])
  BY <1>1, <1>2
<1>4. \A x : x \in Elements(seq) <=> x \in Elements(rest) \/ x = Head(seq)
  <2>1. ASSUME NEW x, x \in Elements(seq)
        PROVE  x \in Elements(rest) \/ x = Head(seq)
    <3>1. PICK i \in 1 .. Len(seq) : seq[i] = x
      BY <2>1, ElementsDef
    <3>2. QED
      BY <1>1, <1>2, <1>3, <3>1, ElementsDef
  <2>2. ASSUME NEW x, x \in Elements(rest) PROVE x \in Elements(seq)
    <3>1. PICK i \in 1 .. Len(rest) : rest[i] = x
      BY <1>1, <2>2, ElementsDef
    <3>2. i + 1 \in 1 .. Len(seq) /\ seq[i + 1] = x
      BY <1>1, <1>2, <3>1
    <3>3. QED
      BY <3>2, ElementsDef
  <2>3. Head(seq) \in Elements(seq)
    <3>1. 1 \in 1 .. Len(seq)
      BY <1>2
    <3>2. QED
      BY <1>2, <3>1, ElementsDef
  <2>4. QED
    BY <2>1, <2>2, <2>3
<1>5. ASSUME Once(seq) PROVE Once(rest)
  <2>1. SUFFICES ASSUME NEW i \in 1 .. Len(rest), NEW j \in 1 .. Len(rest),
                        rest[i] \in Clients, rest[i] = rest[j]
                 PROVE  i = j
    BY <1>2 DEF Once
  <2>2. i + 1 \in 1 .. Len(seq) /\ j + 1 \in 1 .. Len(seq)
    BY <1>1, <1>2
  <2>3. i + 1 = j + 1
    BY <1>1, <1>2, <1>5, <2>1, <2>2 DEF Once
  <2>4. QED
    BY <2>3
<1>6. ASSUME Once(seq), Head(seq) \in Clients, Head(seq) \in Elements(rest)
      PROVE  FALSE
  <2>1. PICK i \in 1 .. Len(rest) : rest[i] = Head(seq)
    BY <1>1, <1>6, ElementsDef
  <2>2. i + 1 \in 1 .. Len(seq) /\ 1 \in 1 .. Len(seq) /\ i + 1 # 1
    BY <1>1, <1>2
  <2>3. seq[i + 1] = seq[1]
    BY <1>1, <1>2, <2>1
  <2>4. QED
    BY <1>2, <1>6, <2>2, <2>3 DEF Once
<1>7. QED
  BY <1>1, <1>4, <1>5, <1>6 DEF rest

\* Nothing is in the empty list.
LEMMA ElementsEmpty ==
  <<>> \in Seq(Connections) /\ Elements(<<>>) = {} /\ Once(<<>>)
BY DEF Elements, Once

\* An element has one index in a list where no client has two.
LEMMA CountOnce ==
  ASSUME NEW seq \in Seq(Connections), Once(seq), NEW c \in Clients
  PROVE  Cardinality({i \in DOMAIN seq : seq[i] = c})
           = IF c \in Elements(seq) THEN 1 ELSE 0
<1> DEFINE at == {i \in DOMAIN seq : seq[i] = c}
<1>1. CASE c \in Elements(seq)
  <2>1. PICK i \in DOMAIN seq : seq[i] = c
    BY <1>1 DEF Elements
  <2>2. at = {i}
    BY <2>1 DEF Once
  <2>3. QED
    BY <1>1, <2>2, FS_Singleton
<1>2. CASE c \notin Elements(seq)
  <2>1. at = {}
    BY <1>2 DEF Elements
  <2>2. QED
    BY <1>2, <2>1, FS_EmptySet
<1>3. QED
  BY <1>1, <1>2

\* The same for a place of one connection.
LEMMA CountHeld ==
  ASSUME NEW thread, NEW held, NEW c
  PROVE  Cardinality({h \in {thread} : held = c}) = IF held = c THEN 1 ELSE 0
<1>1. CASE held = c
  <2>1. {h \in {thread} : held = c} = {thread}
    BY <1>1
  <2>2. QED
    BY <1>1, <2>1, FS_Singleton
<1>2. CASE held # c
  <2>1. {h \in {thread} : held = c} = {}
    BY <1>2
  <2>2. QED
    BY <1>2, <2>1, FS_EmptySet
<1>3. QED
  BY <1>1, <1>2

-----------------------------------------------------------------------------
(***************************************************************************)
(* Clients.                                                                *)
(***************************************************************************)
Sessions == {"idle", "connected", "sent", "oversized", "gone", "left", "answered",
             "failed", "cut"}
ClosedSessions == {"idle", "answered", "failed", "cut"}

\* Who is open, by its session.
LEMMA OpenDef ==
  \A c \in Clients : /\ c \in Open <=> session[c] \notin ClosedSessions
                     /\ c \in Open' <=> session'[c] \notin ClosedSessions
BY DEF Open, ClosedSessions

\* A client that connects is one entry more in the backlog.
LEMMA ConnectSteps ==
  ASSUME IpcInv, NEW c \in Clients, Connect(c)
  PROVE  IpcInv'
<1>1. /\ session \in [Clients -> Sessions] /\ session[c] = "idle"
      /\ session' = [session EXCEPT ![c] = "connected"]
      /\ backlog \in Seq(Connections) /\ backlog' = Append(backlog, c)
      /\ carriedOut' = carriedOut \ {c}
  BY DEF IpcInv, TypeOK, Connect, Sessions, Connections
<1>2. UNCHANGED <<reachable, acceptor, inHand, queue, receiver, main, answering,
                  shutdown, removals>>
  BY DEF Connect, mainVars
<1>3. c \notin Elements(backlog) \cup Elements(queue) /\ inHand # c /\ answering # c
  BY <1>1, OpenDef DEF IpcInv, OpenInv, ClosedSessions
<1>4. /\ backlog' \in Seq(Connections)
      /\ Elements(backlog') = Elements(backlog) \cup {c}
      /\ Once(backlog')
  BY <1>1, <1>3, ElementsAppend DEF IpcInv, PlacesInv, Connections
<1>5. TypeOK'
  BY <1>1, <1>2, <1>4 DEF IpcInv, TypeOK, Sessions, Connections
<1>6. PlacesInv'
  BY <1>2, <1>3, <1>4 DEF IpcInv, PlacesInv
<1>7. OpenInv'
  <2>1. \A d \in Clients : d # c => (d \in Open' <=> d \in Open)
    BY <1>1, OpenDef
  <2>2. c \in Open'
    BY <1>1, OpenDef DEF ClosedSessions
  <2>3. QED
    BY <1>2, <1>4, <2>1, <2>2 DEF IpcInv, OpenInv
<1>8. CarriedOutInv'
  BY <1>1, <1>2 DEF IpcInv, CarriedOutInv, TypeOK
<1>9. QED
  BY <1>2, <1>5, <1>6, <1>7, <1>8 DEF IpcInv, ThreadInv

\* What a client does with its own session leaves it open, or closed.
LEMMA SessionSteps ==
  ASSUME IpcInv, NEW c \in Clients, NEW s \in Sessions,
         session' = [session EXCEPT ![c] = s],
         c \in Open <=> s \notin ClosedSessions,
         c \in carriedOut => answering = c \/ s = "idle",
         UNCHANGED <<carriedOut, acceptVars, queue, mainVars, removals>>
  PROVE  IpcInv'
<1>1. session \in [Clients -> Sessions]
  BY DEF IpcInv, TypeOK, Sessions
<1>2. UNCHANGED <<carriedOut, reachable, backlog, acceptor, inHand, queue, receiver,
                  main, answering, shutdown, removals>>
  BY DEF acceptVars, mainVars
<1>3. TypeOK'
  BY <1>1, <1>2 DEF IpcInv, TypeOK, Sessions
<1>4. PlacesInv'
  BY <1>2 DEF IpcInv, PlacesInv
<1>5. OpenInv'
  <2>1. \A d \in Clients : d \in Open' <=> d \in Open
    BY <1>1, OpenDef
  <2>2. QED
    BY <1>2, <2>1 DEF IpcInv, OpenInv
<1>6. CarriedOutInv'
  BY <1>1, <1>2 DEF IpcInv, CarriedOutInv, TypeOK
<1>7. QED
  BY <1>2, <1>3, <1>4, <1>5, <1>6 DEF IpcInv, ThreadInv

\* What was carried out and is open is being answered.
LEMMA CarriedOutIsAnswered ==
  ASSUME IpcInv, NEW c \in Clients, c \in carriedOut, c \in Open
  PROVE  answering = c
BY OpenDef DEF IpcInv, CarriedOutInv, ClosedSessions

\* Send, Quit and Done are such steps.
LEMMA ClientSteps ==
  ASSUME IpcInv, NEW c \in Clients, Send(c) \/ Quit(c) \/ Done(c)
  PROVE  IpcInv'
<1>1. CASE Send(c)
  <2>1. PICK s \in {"sent", "oversized"} : session' = [session EXCEPT ![c] = s]
    BY <1>1 DEF Send
  <2>2. c \in Open /\ s \in Sessions /\ s \notin ClosedSessions
    BY <1>1, OpenDef DEF Send, Sessions, ClosedSessions
  <2>3. QED
    BY <1>1, <2>1, <2>2, SessionSteps, CarriedOutIsAnswered DEF Send
<1>2. CASE Quit(c)
  <2>1. PICK s \in {"left", "gone"} : session' = [session EXCEPT ![c] = s]
    BY <1>2 DEF Quit
  <2>2. c \in Open /\ s \in Sessions /\ s \notin ClosedSessions
    BY <1>2, OpenDef DEF Quit, Sessions, ClosedSessions
  <2>3. QED
    BY <1>2, <2>1, <2>2, SessionSteps, CarriedOutIsAnswered DEF Quit
<1>3. CASE Done(c)
  <2>1. c \notin Open /\ "idle" \in Sessions /\ "idle" \in ClosedSessions
    BY <1>3, OpenDef DEF Done, Sessions, ClosedSessions
  <2>2. session' = [session EXCEPT ![c] = "idle"]
    BY <1>3 DEF Done
  <2>3. QED
    BY <1>3, <2>1, <2>2, SessionSteps DEF Done
<1>4. QED
  BY <1>1, <1>2, <1>3

-----------------------------------------------------------------------------
(***************************************************************************)
(* The accept thread.                                                      *)
(***************************************************************************)
\* Hanging up on open connections closes just those; when main is answering
\* none of them, what was carried out stays answered.
LEMMA HangUpEffect ==
  ASSUME IpcInv, NEW connections, HangUp(connections),
         \A c \in Clients : c \in connections => c \in Open /\ answering # c
  PROVE  /\ session' \in [Clients -> Sessions]
         /\ \A c \in Clients : c \in Open' <=> c \in Open /\ c \notin connections
         /\ \A c \in carriedOut :
              answering = c \/ session'[c] \in {"idle", "answered", "cut"}
<1>1. session \in [Clients -> Sessions] /\ carriedOut \subseteq Clients
  BY DEF IpcInv, TypeOK, Sessions
<1>2. \A c \in Clients :
        session'[c] = IF c \notin connections THEN session[c]
                      ELSE IF session[c] \in {"gone", "left"} THEN "idle"
                           ELSE "failed"
  BY DEF HangUp
<1>3. session' \in [Clients -> Sessions]
  BY <1>1 DEF HangUp, Sessions
<1>4. \A c \in Clients : c \in Open' <=> c \in Open /\ c \notin connections
  BY <1>2, OpenDef DEF ClosedSessions
<1>5. ASSUME NEW c \in carriedOut
      PROVE  answering = c \/ session'[c] \in {"idle", "answered", "cut"}
  <2>1. CASE c \in connections
    BY <1>1, <2>1, CarriedOutIsAnswered
  <2>2. CASE c \notin connections
    BY <1>1, <1>2, <2>2 DEF IpcInv, CarriedOutInv
  <2>3. QED
    BY <2>1, <2>2
<1>6. QED
  BY <1>3, <1>4, <1>5

\* Steps that leave every connection where it is.
LEMMA ConnectionsStay ==
  ASSUME IpcInv, UNCHANGED <<session, carriedOut, backlog, inHand, queue, answering>>
  PROVE  PlacesInv' /\ OpenInv' /\ CarriedOutInv'
<1>1. PlacesInv'
  BY DEF IpcInv, PlacesInv
<1>2. OpenInv'
  BY DEF IpcInv, OpenInv, Open
<1>3. CarriedOutInv'
  BY DEF IpcInv, CarriedOutInv
<1>4. QED
  BY <1>1, <1>2, <1>3

\* When the accept thread ends, it hangs up on the backlog and on what it has
\* in its hand.
LEMMA EndThreadSteps ==
  ASSUME IpcInv, NEW dropped, EndThread(dropped),
         \A c \in Clients : c \in dropped <=> inHand = c,
         UNCHANGED <<carriedOut, queue, receiver, answering, shutdown, removals>>,
         main' = (IF main = "booting" THEN "ended" ELSE main)
  PROVE  IpcInv'
<1> DEFINE hung == Elements(backlog) \cup dropped
<1>1. /\ acceptor' = "ended" /\ reachable' = FALSE /\ backlog' = <<>>
      /\ inHand' = Nobody /\ HangUp(hung)
  BY DEF EndThread
<1>2. \A c \in Clients : c \in hung <=> c \in Elements(backlog) \/ inHand = c
  OBVIOUS
<1> HIDE DEF hung
<1>3. \A c \in Clients : c \in hung => c \in Open /\ answering # c
  BY <1>2 DEF IpcInv, OpenInv, PlacesInv
<1>4. /\ session' \in [Clients -> Sessions]
      /\ \A c \in Clients : c \in Open' <=> c \in Open /\ c \notin hung
      /\ \A c \in carriedOut :
           answering = c \/ session'[c] \in {"idle", "answered", "cut"}
  BY <1>1, <1>3, HangUpEffect
<1>5. Elements(backlog') = {} /\ Once(backlog') /\ backlog' \in Seq(Connections)
  BY <1>1, ElementsEmpty
<1>6. main = "booting" => main' = "ended"
  OBVIOUS
<1>7. TypeOK'
  <2>1. main' \in {"booting", "checking", "receiving", "answering", "closing",
                   "waking", "joining", "ended"}
        /\ (answering' # Nobody <=> main' = "answering")
    BY DEF IpcInv, TypeOK
  <2>2. inHand' \in Clients \cup {WakeUp, Nobody}
        /\ (inHand' # Nobody <=> acceptor' \in {"reading", "sending"})
    BY <1>1
  <2>3. QED
    BY <1>1, <1>4, <1>5, <2>1, <2>2 DEF IpcInv, TypeOK, Sessions, Connections
<1>8. PlacesInv'
  BY <1>1, <1>5, ConnectionsAssumption DEF IpcInv, PlacesInv
<1>9. OpenInv'
  <2>1. ASSUME NEW c \in Clients
        PROVE  c \in Open' <=> c \in Elements(queue) \/ answering = c
    BY <1>2, <1>4 DEF IpcInv, OpenInv, PlacesInv
  <2>2. QED
    BY <1>1, <1>5, <2>1, ConnectionsAssumption DEF OpenInv
<1>10. CarriedOutInv'
  BY <1>4 DEF CarriedOutInv
<1>11. ThreadInv'
  BY <1>1 DEF ThreadInv, IpcInv
<1>12. QED
  BY <1>7, <1>8, <1>9, <1>10, <1>11 DEF IpcInv

\* The check before accept() ends the thread or moves nothing.
LEMMA CheckShutdownSteps ==
  ASSUME IpcInv, CheckShutdown
  PROVE  IpcInv'
<1>1. /\ inHand = Nobody /\ main # "booting"
      /\ UNCHANGED <<carriedOut, queue, receiver, main, answering, shutdown, removals>>
  BY DEF IpcInv, TypeOK, ThreadInv, CheckShutdown, mainVars
<1>2. CASE shutdown
  <2>1. EndThread({})
    BY <1>2 DEF CheckShutdown
  <2>2. \A c \in Clients : c \in {} <=> inHand = c
    BY <1>1, ConnectionsAssumption
  <2>3. QED
    BY <1>1, <2>1, <2>2, EndThreadSteps
<1>3. CASE ~shutdown
  <2>1. acceptor' = "accepting" /\ UNCHANGED <<session, reachable, backlog, inHand>>
    BY <1>3 DEF CheckShutdown
  <2>2. TypeOK'
    BY <1>1, <2>1 DEF IpcInv, TypeOK
  <2>3. ThreadInv'
    BY <1>1, <2>1 DEF IpcInv, ThreadInv, CheckShutdown
  <2>4. QED
    BY <1>1, <2>1, <2>2, <2>3, ConnectionsStay DEF IpcInv
<1>4. QED
  BY <1>2, <1>3

\* accept() moves the first of the backlog to the thread's hand.
LEMMA AcceptSteps ==
  ASSUME IpcInv, Accept
  PROVE  IpcInv'
<1>1. /\ acceptor = "accepting" /\ inHand = Nobody /\ acceptor' = "reading"
      /\ backlog \in Seq(Connections) /\ backlog # <<>>
      /\ inHand' = Head(backlog) /\ backlog' = Tail(backlog)
      /\ UNCHANGED <<session, carriedOut, reachable, queue, receiver, main, answering,
                     shutdown, removals>>
  BY DEF IpcInv, TypeOK, Accept, mainVars, Connections
<1>2. /\ inHand' \in Connections /\ backlog' \in Seq(Connections)
      /\ Elements(backlog) = Elements(backlog') \cup {inHand'}
      /\ Once(backlog')
      /\ inHand' \in Clients => inHand' \notin Elements(backlog')
  BY <1>1, ElementsTail DEF IpcInv, PlacesInv
<1>3. TypeOK'
  BY <1>1, <1>2, ConnectionsAssumption DEF IpcInv, TypeOK, Connections
<1>4. PlacesInv'
  BY <1>1, <1>2 DEF IpcInv, PlacesInv
<1>5. OpenInv'
  <2>1. \A c \in Clients : inHand # c
    BY <1>1, ConnectionsAssumption
  <2>2. QED
    BY <1>1, <1>2, <2>1 DEF IpcInv, OpenInv, Open
<1>6. CarriedOutInv'
  BY <1>1 DEF IpcInv, CarriedOutInv
<1>7. ThreadInv'
  BY <1>1 DEF IpcInv, ThreadInv
<1>8. QED
  BY <1>3, <1>4, <1>5, <1>6, <1>7 DEF IpcInv

\* A message that was read changes nothing yet.
LEMMA ReadSteps ==
  ASSUME IpcInv, Read
  PROVE  IpcInv'
<1>1. /\ acceptor = "reading" /\ acceptor' = "sending"
      /\ UNCHANGED <<session, carriedOut, reachable, backlog, inHand, queue, receiver,
                     main, answering, shutdown, removals>>
  BY DEF Read, mainVars
<1>2. TypeOK'
  BY <1>1 DEF IpcInv, TypeOK
<1>3. ThreadInv'
  BY <1>1 DEF IpcInv, ThreadInv
<1>4. QED
  BY <1>1, <1>2, <1>3, ConnectionsStay DEF IpcInv

\* A read that fails hangs up on the connection in hand.
LEMMA ReadFailsSteps ==
  ASSUME IpcInv, ReadFails
  PROVE  IpcInv'
<1>1. /\ acceptor = "reading" /\ acceptor' = "checking" /\ inHand' = Nobody
      /\ HangUp({inHand})
      /\ UNCHANGED <<carriedOut, reachable, backlog, queue, receiver, main, answering,
                     shutdown, removals>>
  BY DEF ReadFails, mainVars
<1>2. \A c \in Clients : c \in {inHand} => c \in Open /\ answering # c
  BY DEF IpcInv, OpenInv, PlacesInv
<1>3. /\ session' \in [Clients -> Sessions]
      /\ \A c \in Clients : c \in Open' <=> c \in Open /\ c \notin {inHand}
      /\ \A c \in carriedOut :
           answering = c \/ session'[c] \in {"idle", "answered", "cut"}
  BY <1>1, <1>2, HangUpEffect
<1>4. TypeOK'
  BY <1>1, <1>3 DEF IpcInv, TypeOK, Sessions
<1>5. PlacesInv'
  BY <1>1, ConnectionsAssumption DEF IpcInv, PlacesInv
<1>6. OpenInv'
  BY <1>1, <1>3, ConnectionsAssumption DEF IpcInv, OpenInv, PlacesInv
<1>7. CarriedOutInv'
  BY <1>1, <1>3 DEF CarriedOutInv
<1>8. ThreadInv'
  BY <1>1 DEF IpcInv, ThreadInv
<1>9. QED
  BY <1>4, <1>5, <1>6, <1>7, <1>8 DEF IpcInv

\* A request goes into the channel, or ends the thread with it.
LEMMA SendIncomingSteps ==
  ASSUME IpcInv, SendIncoming
  PROVE  IpcInv'
<1>1. /\ acceptor = "sending" /\ main # "booting" /\ inHand \in Connections
      /\ queue \in Seq(Connections)
      /\ UNCHANGED <<carriedOut, receiver, main, answering, shutdown, removals>>
  BY DEF IpcInv, TypeOK, ThreadInv, SendIncoming, mainVars, Connections
<1>2. CASE ~receiver
  <2>1. EndThread({inHand}) /\ queue' = queue
    BY <1>2 DEF SendIncoming
  <2>2. \A c \in Clients : c \in {inHand} <=> inHand = c
    OBVIOUS
  <2>3. QED
    BY <1>1, <2>1, <2>2, EndThreadSteps
<1>3. CASE receiver
  <2>1. /\ queue' = Append(queue, inHand) /\ inHand' = Nobody
        /\ acceptor' = "checking" /\ UNCHANGED <<session, reachable, backlog>>
    BY <1>3 DEF SendIncoming
  <2>2. inHand \in Clients => inHand \notin Elements(queue)
    BY DEF IpcInv, PlacesInv
  <2>3. /\ queue' \in Seq(Connections) /\ Once(queue')
        /\ Elements(queue') = Elements(queue) \cup {inHand}
    BY <1>1, <2>1, <2>2, ElementsAppend DEF IpcInv, PlacesInv
  <2>4. TypeOK'
    BY <1>1, <2>1, <2>3 DEF IpcInv, TypeOK, Connections
  <2>5. PlacesInv'
    BY <1>1, <2>1, <2>3, ConnectionsAssumption DEF IpcInv, PlacesInv
  <2>6. OpenInv'
    BY <1>1, <2>1, <2>3, ConnectionsAssumption DEF IpcInv, OpenInv, Open
  <2>7. CarriedOutInv'
    BY <1>1, <2>1 DEF IpcInv, CarriedOutInv
  <2>8. ThreadInv'
    BY <1>1, <2>1 DEF IpcInv, ThreadInv
  <2>9. QED
    BY <2>4, <2>5, <2>6, <2>7, <2>8 DEF IpcInv
<1>4. QED
  BY <1>2, <1>3

-----------------------------------------------------------------------------
(***************************************************************************)
(* The main thread, and the world around it.                               *)
(***************************************************************************)
\* A boot that fails ends the thread that was never started.
LEMMA BootFailsSteps ==
  ASSUME IpcInv, BootFails
  PROVE  IpcInv'
<1>1. EndThread({}) /\ main = "booting" /\ main' = "ended"
  BY DEF BootFails
<1>2. \A c \in Clients : c \in {} <=> inHand = c
  BY <1>1, ConnectionsAssumption DEF IpcInv, TypeOK, ThreadInv
<1>3. UNCHANGED <<carriedOut, queue, receiver, answering, shutdown, removals>>
  BY DEF BootFails
<1>4. QED
  BY <1>1, <1>2, <1>3, EndThreadSteps

\* Steps that move no connection, and only say where the two threads are, or
\* what they have been told.
LEMMA QuietSteps ==
  ASSUME IpcInv,
         \/ Boot \/ Check \/ NothingReceived \/ Join \/ Restart \/ Signal
         \/ RemoveSocket
  PROVE  IpcInv'
<1>1. UNCHANGED <<session, carriedOut, backlog, inHand, queue, answering>>
  BY DEF Boot, Check, NothingReceived, Join, Restart, Signal, RemoveSocket,
         acceptVars, mainVars
<1>2. removals' \in 0 .. MaxRemovals
  <2>1. CASE RemoveSocket
    BY <2>1, RemovalsAssumption DEF IpcInv, TypeOK, RemoveSocket
  <2>2. CASE ~RemoveSocket
    <3>1. removals' = removals
      BY <2>2 DEF Boot, Check, NothingReceived, Join, Restart, Signal
    <3>2. QED
      BY <3>1 DEF IpcInv, TypeOK
  <2>3. QED
    BY <2>1, <2>2
<1>3. /\ reachable' \in BOOLEAN /\ receiver' \in BOOLEAN /\ shutdown' \in BOOLEAN
      /\ acceptor' \in {"unborn", "checking", "accepting", "reading", "sending", "ended"}
      /\ (acceptor' \in {"reading", "sending"} <=> acceptor \in {"reading", "sending"})
      /\ main' \in {"booting", "checking", "receiving", "answering", "closing",
                    "waking", "joining", "ended"}
      /\ (main' = "answering" <=> main = "answering")
  BY DEF IpcInv, TypeOK, ThreadInv, Boot, Check, NothingReceived, Join, Restart,
         Signal, RemoveSocket, acceptVars, mainVars
<1>4. TypeOK'
  BY <1>1, <1>2, <1>3 DEF IpcInv, TypeOK
<1>5. ThreadInv'
  BY DEF IpcInv, ThreadInv, Boot, Check, NothingReceived, Join, Restart, Signal,
         RemoveSocket, acceptVars, mainVars
<1>6. QED
  BY <1>1, <1>4, <1>5, ConnectionsStay DEF IpcInv

\* main takes the first request of the channel and carries it out.
LEMMA ReceiveSteps ==
  ASSUME IpcInv, Receive
  PROVE  IpcInv'
<1>1. /\ main = "receiving" /\ answering = Nobody /\ main' = "answering"
      /\ queue \in Seq(Connections) /\ queue # <<>>
      /\ answering' = Head(queue) /\ queue' = Tail(queue)
      /\ UNCHANGED <<session, reachable, backlog, acceptor, inHand, receiver,
                     shutdown, removals>>
  BY DEF IpcInv, TypeOK, Receive, acceptVars, Connections
<1>2. /\ answering' \in Connections /\ queue' \in Seq(Connections)
      /\ Elements(queue) = Elements(queue') \cup {answering'}
      /\ Once(queue')
      /\ answering' \in Clients => answering' \notin Elements(queue')
  BY <1>1, ElementsTail DEF IpcInv, PlacesInv
<1>3. /\ carriedOut' \subseteq Clients
      /\ \A c \in carriedOut' : c \in carriedOut \/ answering' = c
  BY <1>1 DEF Receive, Complete, IpcInv, TypeOK
<1>4. TypeOK'
  BY <1>1, <1>2, <1>3, ConnectionsAssumption DEF IpcInv, TypeOK, Connections
<1>5. PlacesInv'
  BY <1>1, <1>2 DEF IpcInv, PlacesInv
<1>6. \A c \in Clients : answering # c
  BY <1>1, ConnectionsAssumption
<1>7. OpenInv'
  BY <1>1, <1>2, <1>6 DEF IpcInv, OpenInv, Open
<1>8. CarriedOutInv'
  <2>1. carriedOut \subseteq Clients
    BY DEF IpcInv, TypeOK
  <2>2. QED
    BY <1>1, <1>3, <1>6, <2>1 DEF IpcInv, CarriedOutInv
<1>9. ThreadInv'
  BY <1>1 DEF IpcInv, ThreadInv
<1>10. QED
  BY <1>4, <1>5, <1>7, <1>8, <1>9 DEF IpcInv

\* The answer closes the connection, written or not.
LEMMA EndRequestSteps ==
  ASSUME IpcInv, NEW heard \in {"answered", "cut"}, EndRequest(heard)
  PROVE  IpcInv'
<1>1. /\ main = "answering" /\ main' = "checking" /\ answering' = Nobody
      /\ UNCHANGED <<carriedOut, reachable, backlog, acceptor, inHand, queue, receiver,
                     shutdown, removals>>
  BY DEF EndRequest, acceptVars
<1>2. /\ session' \in [Clients -> Sessions]
      /\ \A c \in Clients :
           session'[c] = IF c # answering THEN session[c]
                         ELSE IF session[c] = "sent" THEN heard ELSE "idle"
  BY DEF EndRequest, IpcInv, TypeOK, Sessions
<1>3. \A c \in Clients : c \in Open' <=> c \in Open /\ c # answering
  BY <1>2, OpenDef DEF ClosedSessions
<1>4. TypeOK'
  BY <1>1, <1>2 DEF IpcInv, TypeOK, Sessions
<1>5. PlacesInv'
  BY <1>1, ConnectionsAssumption DEF IpcInv, PlacesInv
<1>6. OpenInv'
  BY <1>1, <1>3, ConnectionsAssumption DEF IpcInv, OpenInv, PlacesInv
<1>7. CarriedOutInv'
  BY <1>1, <1>2 DEF IpcInv, CarriedOutInv, TypeOK
<1>8. ThreadInv'
  BY <1>1 DEF IpcInv, ThreadInv
<1>9. QED
  BY <1>4, <1>5, <1>6, <1>7, <1>8 DEF IpcInv

\* The channel is dropped, and with it what nobody received.
LEMMA DropReceiverSteps ==
  ASSUME IpcInv, DropReceiver
  PROVE  IpcInv'
<1> DEFINE hung == Elements(queue)
<1>1. /\ main = "closing" /\ main' = "waking" /\ shutdown' = TRUE
      /\ receiver' = FALSE /\ queue' = <<>> /\ HangUp(hung)
      /\ UNCHANGED <<carriedOut, reachable, backlog, acceptor, inHand, answering,
                     removals>>
  BY DEF DropReceiver, acceptVars
<1>2. \A c \in Clients : c \in hung => c \in Open /\ answering # c
  BY DEF IpcInv, OpenInv, PlacesInv
<1>3. /\ session' \in [Clients -> Sessions]
      /\ \A c \in Clients : c \in Open' <=> c \in Open /\ c \notin hung
      /\ \A c \in carriedOut :
           answering = c \/ session'[c] \in {"idle", "answered", "cut"}
  BY <1>1, <1>2, HangUpEffect
<1>4. Elements(queue') = {} /\ Once(queue') /\ queue' \in Seq(Connections)
  BY <1>1, ElementsEmpty
<1>5. TypeOK'
  BY <1>1, <1>3, <1>4 DEF IpcInv, TypeOK, Sessions, Connections
<1>6. PlacesInv'
  BY <1>1, <1>4 DEF IpcInv, PlacesInv
<1>7. OpenInv'
  BY <1>1, <1>3, <1>4 DEF IpcInv, OpenInv, PlacesInv
<1>8. CarriedOutInv'
  BY <1>1, <1>3 DEF CarriedOutInv
<1>9. ThreadInv'
  BY <1>1 DEF IpcInv, ThreadInv
<1>10. QED
  BY <1>5, <1>6, <1>7, <1>8, <1>9 DEF IpcInv

\* The wake-up connection is not a client's.
LEMMA WakeAcceptorSteps ==
  ASSUME IpcInv, WakeAcceptor
  PROVE  IpcInv'
<1>1. /\ main = "waking" /\ main' = "joining"
      /\ UNCHANGED <<session, carriedOut, reachable, acceptor, inHand, queue, receiver,
                     answering, shutdown, removals>>
      /\ backlog \in Seq(Connections)
  BY DEF IpcInv, TypeOK, WakeAcceptor, Connections
<1>2. /\ backlog' \in Seq(Connections) /\ Once(backlog')
      /\ \A c \in Clients : c \in Elements(backlog') <=> c \in Elements(backlog)
  <2>1. CASE reachable
    <3>1. backlog' = Append(backlog, WakeUp)
      BY <2>1 DEF WakeAcceptor
    <3>2. WakeUp \in Connections /\ WakeUp \notin Clients
      BY ConnectionsAssumption DEF Connections
    <3>3. QED
      BY <1>1, <3>1, <3>2, ElementsAppend DEF IpcInv, PlacesInv
  <2>2. CASE ~reachable
    BY <1>1, <2>2 DEF WakeAcceptor, IpcInv, PlacesInv
  <2>3. QED
    BY <2>1, <2>2
<1>3. TypeOK'
  BY <1>1, <1>2 DEF IpcInv, TypeOK, Connections
<1>4. PlacesInv'
  BY <1>1, <1>2 DEF IpcInv, PlacesInv
<1>5. OpenInv'
  BY <1>1, <1>2 DEF IpcInv, OpenInv, Open
<1>6. CarriedOutInv'
  BY <1>1 DEF IpcInv, CarriedOutInv
<1>7. ThreadInv'
  BY <1>1 DEF IpcInv, ThreadInv
<1>8. QED
  BY <1>3, <1>4, <1>5, <1>6, <1>7 DEF IpcInv

-----------------------------------------------------------------------------
(***************************************************************************)
(* The invariant, and what the runs check.                                 *)
(***************************************************************************)
\* At first nobody is connected.
LEMMA IpcInit == Init => IpcInv
<1> SUFFICES ASSUME Init PROVE IpcInv
  OBVIOUS
<1>1. /\ Elements(backlog) = {} /\ Once(backlog) /\ backlog \in Seq(Connections)
      /\ Elements(queue) = {} /\ Once(queue) /\ queue \in Seq(Connections)
  BY ElementsEmpty DEF Init
<1>2. TypeOK
  <2>1. removals \in 0 .. MaxRemovals
    BY RemovalsAssumption DEF Init
  <2>2. reachable \in BOOLEAN /\ receiver \in BOOLEAN /\ shutdown \in BOOLEAN
    BY DEF Init
  <2>3. QED
    BY <1>1, <2>1, <2>2 DEF Init, TypeOK, Connections
<1>3. PlacesInv
  BY <1>1, ConnectionsAssumption DEF Init, PlacesInv
<1>4. OpenInv
  BY <1>1, OpenDef, ConnectionsAssumption DEF Init, OpenInv, ClosedSessions
<1>5. CarriedOutInv /\ ThreadInv
  BY DEF Init, CarriedOutInv, ThreadInv
<1>6. QED
  BY <1>2, <1>3, <1>4, <1>5 DEF IpcInv

\* Every step keeps the invariant.
LEMMA IpcNext == IpcInv /\ [Next]_vars => IpcInv'
<1> SUFFICES ASSUME IpcInv, [Next]_vars PROVE IpcInv'
  OBVIOUS
<1>1. CASE AcceptThread
  BY <1>1, CheckShutdownSteps, AcceptSteps, ReadSteps, ReadFailsSteps,
     SendIncomingSteps DEF AcceptThread
<1>2. CASE MainThread
  BY <1>2, QuietSteps, BootFailsSteps, ReceiveSteps, EndRequestSteps,
     DropReceiverSteps, WakeAcceptorSteps DEF MainThread, Respond, RespondFails
<1>3. CASE Others
  BY <1>3, ConnectSteps, ClientSteps, QuietSteps DEF Others
<1>4. CASE UNCHANGED vars
  <2>1. UNCHANGED <<session, carriedOut, backlog, inHand, queue, answering>>
    BY <1>4 DEF vars
  <2>2. TypeOK' /\ ThreadInv'
    BY <1>4 DEF vars, IpcInv, TypeOK, ThreadInv
  <2>3. QED
    BY <2>1, <2>2, ConnectionsStay DEF IpcInv
<1>5. QED
  BY <1>1, <1>2, <1>3, <1>4 DEF Next

\* In every state the backlog, the accept thread, the channel and the main
\* thread hold exactly the open connections, each once, and a request that was
\* carried out is being answered or was (daemon.rs:86-122).
THEOREM IpcInvariant == Spec => []IpcInv
BY IpcInit, IpcNext, PTL DEF Spec

\* Every variable stays in its range, and each thread has a connection in its
\* hand exactly while it works on one.
THEOREM TypeCorrect == Spec => []TypeOK
<1>1. IpcInv => TypeOK
  BY DEF IpcInv
<1>2. QED
  BY <1>1, IpcInvariant, PTL

\* No connection is lost on the way or handled twice (daemon.rs:90, :112).
THEOREM ConnectionsHaveOneHolder == Spec => []OneHolder
<1>1. IpcInv => OneHolder
  <2> SUFFICES ASSUME IpcInv, NEW c \in Clients
               PROVE  Cardinality({i \in DOMAIN backlog : backlog[i] = c})
                        + Cardinality({i \in DOMAIN queue : queue[i] = c})
                        + Cardinality({h \in {"acceptor"} : inHand = c})
                        + Cardinality({h \in {"main"} : answering = c})
                      = IF c \in Open THEN 1 ELSE 0
    BY DEF OneHolder
  <2>1. Cardinality({i \in DOMAIN backlog : backlog[i] = c})
          = IF c \in Elements(backlog) THEN 1 ELSE 0
    BY CountOnce DEF IpcInv, TypeOK, PlacesInv, Connections
  <2>2. Cardinality({i \in DOMAIN queue : queue[i] = c})
          = IF c \in Elements(queue) THEN 1 ELSE 0
    BY CountOnce DEF IpcInv, TypeOK, PlacesInv, Connections
  <2>3. Cardinality({h \in {"acceptor"} : inHand = c}) = IF inHand = c THEN 1 ELSE 0
    BY CountHeld
  <2>4. Cardinality({h \in {"main"} : answering = c}) = IF answering = c THEN 1 ELSE 0
    BY CountHeld
  <2>5. /\ c \in Elements(backlog) => c \notin Elements(queue)
        /\ inHand = c => c \notin Elements(backlog) \cup Elements(queue)
        /\ answering = c => c \notin Elements(backlog) \cup Elements(queue)
        /\ inHand = c => answering # c
        /\ c \in Open <=> \/ c \in Elements(backlog) \cup Elements(queue)
                          \/ inHand = c
                          \/ answering = c
    BY DEF IpcInv, PlacesInv, OpenInv
  <2>6. QED
    BY <2>1, <2>2, <2>3, <2>4, <2>5
<1>2. QED
  BY <1>1, IpcInvariant, PTL

\* A client that sees the end of the stream instead of an answer may be sure
\* that nothing was done, unless its own answer could not be written
\* (daemon.rs:90, :112, :120, :226-228).
THEOREM UnansweredIsUndone == Spec => []UnansweredMeansUndone
<1>1. IpcInv => UnansweredMeansUndone
  <2> SUFFICES ASSUME IpcInv, NEW c \in Clients, session[c] = "failed",
                      c \in carriedOut
               PROVE  FALSE
    BY DEF UnansweredMeansUndone
  <2>1. answering = c
    BY DEF IpcInv, CarriedOutInv
  <2>2. c \in Open
    BY <2>1 DEF IpcInv, OpenInv
  <2>3. QED
    BY <2>2, OpenDef DEF ClosedSessions
<1>2. QED
  BY <1>1, IpcInvariant, PTL
=============================================================================
