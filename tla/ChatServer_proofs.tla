------------------------- MODULE ChatServer_proofs -------------------------
(***************************************************************************)
(* Proofs about ChatServer, for every set of connections, every number of  *)
(* lines and every socket capacity.  The inductive invariant IInv ties     *)
(* where each goroutine is to what the sockets and the log hold.           *)
(***************************************************************************)
EXTENDS ChatServer, TLAPS

\* The range over clientMap runs only while a received message is written.
BroadcasterPhase ==
  /\ phase = "select" => todo = {}
  /\ phase = "write" => Len(log) > 0

\* A connection that has not joined was written nothing and scanned nothing;
\* a handler that offers a line has scanned one.
HandlerProgress ==
  \A c \in Conns :
    /\ handler[c] \in {"none", "join"} => sock[c] = <<>> /\ scanned[c] = 0
    /\ handler[c] = "send" => scanned[c] > 0

IInv ==
  /\ TypeOK
  /\ BroadcasterPhase
  /\ HandlerProgress
  /\ MapHoldsOpenConns
  /\ NobodyMisses
  /\ ViewIsSlice

\* Appending to a sequence of entries: its length and its elements.
LEMMA AppendFacts ==
  ASSUME NEW S, NEW s \in Seq(S), NEW e \in S
  PROVE  /\ Append(s, e) \in Seq(S)
         /\ Len(Append(s, e)) = Len(s) + 1
         /\ \A i \in 1..Len(s) : Append(s, e)[i] = s[i]
         /\ Append(s, e)[Len(s) + 1] = e
  OBVIOUS

LEMMA InitIInv == Init => IInv
<1> SUFFICES ASSUME Init PROVE IInv
  OBVIOUS
<1> USE ChatAssumption DEF Init
<1>1. TypeOK
  BY DEF TypeOK, PeerStates, HandlerStates
<1>2. BroadcasterPhase /\ HandlerProgress /\ MapHoldsOpenConns
  BY DEF BroadcasterPhase, HandlerProgress, MapHoldsOpenConns
<1>3. NobodyMisses /\ ViewIsSlice
  BY DEF NobodyMisses, ViewIsSlice
<1> QED
  BY <1>1, <1>2, <1>3 DEF IInv

\* The peers change only their own end of the connections.
LEMMA PeerNextIInv ==
  ASSUME IInv, NEW c \in Conns, PeerNext(c)
  PROVE  IInv'
<1> USE ChatAssumption DEF IInv
<1>1. UNCHANGED <<up, scanned, handler, clientMap, phase, todo, log, sock, joinAt>>
  BY DEF PeerNext, Dial, TypeLine, PeerRead, HangUp, roomVars
<1>2. TypeOK'
  <2>1. CASE Dial(c)
    BY <2>1 DEF TypeOK, Dial, roomVars, PeerStates, HandlerStates
  <2>2. CASE TypeLine(c)
    BY <2>2 DEF TypeOK, TypeLine, roomVars, PeerStates, HandlerStates
  <2>3. CASE PeerRead(c)
    BY <2>3 DEF TypeOK, PeerRead, roomVars, PeerStates, HandlerStates
  <2>4. CASE HangUp(c)
    BY <2>4 DEF TypeOK, HangUp, roomVars, PeerStates, HandlerStates
  <2> QED
    BY <2>1, <2>2, <2>3, <2>4 DEF PeerNext
<1>3. BroadcasterPhase' /\ HandlerProgress' /\ MapHoldsOpenConns' /\ ViewIsSlice'
  BY <1>1 DEF BroadcasterPhase, HandlerProgress, MapHoldsOpenConns, ViewIsSlice
<1>4. \A d \in Conns : Dead(d) => Dead(d)'
  BY <1>1 DEF PeerNext, Dial, TypeLine, PeerRead, HangUp, Dead, TypeOK
<1>5. NobodyMisses'
  BY <1>1, <1>4 DEF NobodyMisses, TypeOK
<1> QED
  BY <1>2, <1>3, <1>5

\* The accept loop and the handlers change no connection's view.
LEMMA HandlerNextIInv ==
  ASSUME IInv, NEW c \in Conns, HandlerNext(c)
  PROVE  IInv'
<1> USE ChatAssumption DEF IInv
<1>1. UNCHANGED <<up, peer, typed, read, clientMap, phase, todo, log, sock, joinAt>>
  BY DEF HandlerNext, Accept, Scan, ScanEnds, CloseConn, roomVars, peerVars
<1>2. TypeOK' /\ HandlerProgress'
  <2>1. CASE Accept(c)
    BY <1>1, <2>1 DEF TypeOK, Accept, HandlerStates, HandlerProgress
  <2>2. CASE Scan(c)
    BY <1>1, <2>2 DEF TypeOK, Scan, HandlerStates, HandlerProgress
  <2>3. CASE ScanEnds(c)
    BY <1>1, <2>3 DEF TypeOK, ScanEnds, HandlerStates, HandlerProgress
  <2>4. CASE CloseConn(c)
    BY <1>1, <2>4 DEF TypeOK, CloseConn, HandlerStates, HandlerProgress
  <2> QED
    BY <2>1, <2>2, <2>3, <2>4 DEF HandlerNext
<1>3. BroadcasterPhase' /\ ViewIsSlice'
  BY <1>1 DEF BroadcasterPhase, ViewIsSlice
<1>4. MapHoldsOpenConns'
  BY <1>1 DEF HandlerNext, Accept, Scan, ScanEnds, CloseConn, TypeOK,
              MapHoldsOpenConns
<1>5. \A d \in clientMap : Dead(d) => Dead(d)'
  BY <1>1 DEF HandlerNext, Accept, Scan, ScanEnds, CloseConn, TypeOK, Dead,
              MapHoldsOpenConns
<1>6. NobodyMisses'
  BY <1>1, <1>5 DEF NobodyMisses
<1> QED
  BY <1>2, <1>3, <1>4, <1>6

\* A received message lengthens the log while no member has anything to see.
LEMMA RecvMessageIInv ==
  ASSUME IInv, NEW c \in Conns, RecvMessage(c)
  PROVE  IInv'
<1> USE ChatAssumption DEF IInv
<1> DEFINE e == [from |-> c, no |-> scanned[c]]
<1>1. /\ UNCHANGED <<up, peer, typed, read, scanned, clientMap, sock, joinAt>>
      /\ handler[c] = "send" /\ handler' = [handler EXCEPT ![c] = "scan"]
      /\ phase = "select" /\ phase' = "write"
      /\ log' = Append(log, e) /\ todo' = clientMap
  BY DEF RecvMessage, peerVars
<1>2. e \in Entry /\ log \in Seq(Entry)
  BY <1>1 DEF TypeOK, HandlerProgress, Entry
<1>3. /\ log' \in Seq(Entry) /\ Len(log') = Len(log) + 1 /\ Len(log) \in Nat
      /\ \A i \in 1..Len(log) : log'[i] = log[i]
  BY <1>1, <1>2, AppendFacts
<1>4. TypeOK'
  BY <1>1, <1>3 DEF TypeOK, HandlerStates
<1>5. BroadcasterPhase' /\ HandlerProgress' /\ MapHoldsOpenConns'
  BY <1>1, <1>3 DEF BroadcasterPhase, HandlerProgress, MapHoldsOpenConns, TypeOK
<1>6. NobodyMisses'
  <2>1. todo = {}
    BY <1>1 DEF BroadcasterPhase
  <2>2. \A d \in clientMap : Dead(d) => Dead(d)'
    BY <1>1 DEF Dead, TypeOK, MapHoldsOpenConns
  <2> QED
    BY <1>1, <1>3, <2>1, <2>2 DEF NobodyMisses
<1>7. ViewIsSlice'
  <2> SUFFICES ASSUME NEW d \in Conns
               PROVE  /\ joinAt[d] + Len(sock[d]) <= Len(log')
                      /\ \A i \in 1..Len(sock[d]) : sock[d][i] = log'[joinAt[d] + i]
    BY <1>1 DEF ViewIsSlice
  <2>1. joinAt[d] \in Nat /\ Len(sock[d]) \in Nat
    BY DEF TypeOK
  <2>2. joinAt[d] + Len(sock[d]) <= Len(log)
    BY DEF ViewIsSlice
  <2>3. ASSUME NEW i \in 1..Len(sock[d])
        PROVE  sock[d][i] = log'[joinAt[d] + i]
    <3>1. sock[d][i] = log[joinAt[d] + i]
      BY DEF ViewIsSlice
    <3>2. joinAt[d] + i \in 1..Len(log)
      BY <1>3, <2>1, <2>2
    <3> QED
      BY <1>3, <3>1, <3>2
  <2>4. joinAt[d] + Len(sock[d]) <= Len(log')
    BY <1>3, <2>1, <2>2
  <2> QED
    BY <2>3, <2>4
<1> QED
  BY <1>4, <1>5, <1>6, <1>7

\* One write gives the connection the only entry it has not seen.
LEMMA WriteToIInv ==
  ASSUME IInv, NEW c \in Conns, WriteTo(c)
  PROVE  IInv'
<1> USE ChatAssumption DEF IInv
<1>1. /\ UNCHANGED <<up, peer, typed, read, scanned, handler, clientMap, phase,
                     log, joinAt>>
      /\ phase = "write" /\ c \in todo /\ todo' = todo \ {c}
  BY DEF WriteTo, peerVars
<1>2. BroadcasterPhase' /\ \A d \in Conns : Dead(d)' = Dead(d)
  BY <1>1 DEF BroadcasterPhase, Dead
<1>3. CASE WriteFails(c) /\ UNCHANGED sock
  <2>1. TypeOK' /\ HandlerProgress' /\ MapHoldsOpenConns' /\ ViewIsSlice'
    BY <1>1, <1>3 DEF TypeOK, HandlerProgress, MapHoldsOpenConns, ViewIsSlice
  <2>2. NobodyMisses'
    BY <1>1, <1>2, <1>3 DEF NobodyMisses, WriteFails, TypeOK
  <2> QED
    BY <1>2, <2>1, <2>2
<1>4. CASE /\ ~Dead(c) /\ HasRoom(c)
           /\ sock' = [sock EXCEPT ![c] = Append(@, log[Len(log)])]
  <2>1. c \in clientMap /\ handler[c] \in {"scan", "send", "leave"}
    BY <1>1 DEF MapHoldsOpenConns
  <2>2. Len(log) \in Nat /\ Len(log) > 0 /\ log[Len(log)] \in Entry
    BY <1>1 DEF TypeOK, BroadcasterPhase
  <2>3. /\ sock[c] \in Seq(Entry) /\ joinAt[c] \in Nat /\ read[c] \in Nat
        /\ Len(sock[c]) \in Nat
    BY DEF TypeOK
  <2>4. joinAt[c] + Len(sock[c]) = Len(log) - 1
    BY <1>1, <1>4, <2>1 DEF NobodyMisses
  <2>5. /\ sock'[c] = Append(sock[c], log[Len(log)])
        /\ \A d \in Conns \ {c} : sock'[d] = sock[d]
        /\ sock' \in [Conns -> Seq(Entry)]
    BY <1>4, <2>2, <2>3 DEF TypeOK
  <2>6. /\ Len(sock'[c]) = Len(sock[c]) + 1
        /\ \A i \in 1..Len(sock[c]) : sock'[c][i] = sock[c][i]
        /\ sock'[c][Len(sock[c]) + 1] = log[Len(log)]
    BY <2>2, <2>3, <2>5, AppendFacts
  <2>7. TypeOK'
    <3>1. \A d \in Conns :
             read[d] <= Len(sock'[d]) /\ Len(sock'[d]) <= read[d] + SockCap
      <4> SUFFICES ASSUME NEW d \in Conns
                   PROVE  /\ read[d] <= Len(sock'[d])
                          /\ Len(sock'[d]) <= read[d] + SockCap
        OBVIOUS
      <4>1. read[d] <= Len(sock[d]) /\ Len(sock[d]) <= read[d] + SockCap
        BY DEF TypeOK
      <4>2. CASE d = c
        <5>1. Len(sock[c]) < read[c] + SockCap
          BY <1>4, <2>3, ChatAssumption DEF HasRoom
        <5> HIDE DEF IInv
        <5> QED
          BY <2>3, <2>6, <4>1, <4>2, <5>1, ChatAssumption
      <4>3. CASE d # c
        BY <2>5, <4>1, <4>3
      <4> QED
        BY <4>2, <4>3
    <3> QED
      BY <1>1, <2>5, <3>1 DEF TypeOK
  <2>8. HandlerProgress' /\ MapHoldsOpenConns'
    BY <1>1, <2>1, <2>5 DEF HandlerProgress, MapHoldsOpenConns
  <2>9. NobodyMisses'
    <3> SUFFICES ASSUME NEW d \in clientMap, ~Dead(d)
                 PROVE  joinAt[d] + Len(sock'[d]) =
                          IF d \in todo' THEN Len(log) - 1 ELSE Len(log)
      BY <1>1, <1>2 DEF NobodyMisses, TypeOK
    <3>1. CASE d = c
      BY <1>1, <2>2, <2>3, <2>4, <2>6, <3>1
    <3>2. CASE d # c
      BY <1>1, <2>5, <3>2 DEF NobodyMisses, TypeOK
    <3> QED
      BY <3>1, <3>2
  <2>10. ViewIsSlice'
    <3> SUFFICES ASSUME NEW d \in Conns
                 PROVE  /\ joinAt[d] + Len(sock'[d]) <= Len(log)
                        /\ \A i \in 1..Len(sock'[d]) :
                             sock'[d][i] = log[joinAt[d] + i]
      BY <1>1 DEF ViewIsSlice
    <3>1. CASE d = c
      <4>1. joinAt[c] + Len(sock'[c]) = Len(log)
        BY <2>2, <2>3, <2>4, <2>6
      <4>2. ASSUME NEW i \in 1..Len(sock'[c])
            PROVE  sock'[c][i] = log[joinAt[c] + i]
        <5>1. CASE i \in 1..Len(sock[c])
          BY <2>6, <5>1 DEF ViewIsSlice
        <5>2. CASE i = Len(sock[c]) + 1
          <6>1. joinAt[c] + i = Len(log)
            BY <2>2, <2>3, <2>4, <5>2
          <6> QED
            BY <2>6, <5>2, <6>1
        <5> QED
          BY <2>3, <2>6, <5>1, <5>2
      <4> QED
        BY <2>2, <3>1, <4>1, <4>2
    <3>2. CASE d # c
      BY <2>5, <3>2 DEF ViewIsSlice
    <3> QED
      BY <3>1, <3>2
  <2> QED
    BY <1>2, <2>7, <2>8, <2>9, <2>10
<1> QED
  BY <1>3, <1>4 DEF WriteTo

\* Joins and leaves happen only between two messages.
LEMMA JoinLeaveIInv ==
  ASSUME IInv, NEW c \in Conns, Join(c) \/ Leave(c)
  PROVE  IInv'
<1> USE ChatAssumption DEF IInv
<1>1. /\ UNCHANGED <<up, peer, typed, read, scanned, phase, todo, log, sock>>
      /\ phase = "select" /\ todo = {}
  BY DEF Join, Leave, peerVars, BroadcasterPhase
<1>2. TypeOK' /\ BroadcasterPhase'
  <2>1. BroadcasterPhase'
    BY <1>1 DEF BroadcasterPhase
  <2>2. CASE Join(c)
    BY <1>1, <2>1, <2>2 DEF Join, TypeOK, HandlerStates
  <2>3. CASE Leave(c)
    BY <1>1, <2>1, <2>3 DEF Leave, TypeOK, HandlerStates
  <2> QED
    BY <2>1, <2>2, <2>3
<1>3. HandlerProgress' /\ MapHoldsOpenConns'
  BY <1>1 DEF Join, Leave, TypeOK, HandlerProgress, MapHoldsOpenConns
<1>4. CASE Join(c)
  <2>1. /\ handler[c] = "join" /\ sock[c] = <<>> /\ Len(log) \in Nat
        /\ clientMap' = clientMap \cup {c}
        /\ joinAt' = [joinAt EXCEPT ![c] = Len(log)]
    BY <1>4 DEF Join, HandlerProgress, TypeOK
  <2>2. joinAt'[c] = Len(log) /\ \A d \in Conns \ {c} : joinAt'[d] = joinAt[d]
    BY <2>1 DEF TypeOK
  <2>3. \A d \in Conns \ {c} : Dead(d)' = Dead(d)
    BY <1>1, <1>4 DEF Join, Dead, TypeOK
  <2>4. NobodyMisses'
    BY <1>1, <2>1, <2>2, <2>3 DEF NobodyMisses, TypeOK
  <2>5. ViewIsSlice'
    BY <1>1, <2>1, <2>2 DEF ViewIsSlice
  <2> QED
    BY <1>2, <1>3, <2>4, <2>5
<1>5. CASE Leave(c)
  <2>1. \A d \in Conns : Dead(d)' = Dead(d)
    BY <1>1, <1>5 DEF Leave, Dead, TypeOK
  <2>2. NobodyMisses' /\ ViewIsSlice'
    BY <1>1, <1>5, <2>1 DEF Leave, NobodyMisses, ViewIsSlice, TypeOK
  <2> QED
    BY <1>2, <1>3, <2>2
<1> QED
  BY <1>4, <1>5

\* The end of the range and the death of the process change no view.
LEMMA RestIInv ==
  ASSUME IInv, AcceptError \/ WriteEnds \/ UNCHANGED vars
  PROVE  IInv'
<1>1. /\ UNCHANGED <<peer, typed, scanned, handler, clientMap, todo, log, sock,
                     read, joinAt>>
      /\ up' \in BOOLEAN /\ phase' \in {"select", "write"}
      /\ phase' = phase \/ (phase' = "select" /\ todo = {})
  BY DEF IInv, TypeOK, AcceptError, WriteEnds, vars, peerVars, roomVars
<1>2. \A d \in Conns : Dead(d)' = Dead(d)
  BY <1>1 DEF Dead
<1> QED
  BY <1>1, <1>2 DEF IInv, TypeOK, BroadcasterPhase, HandlerProgress,
                    MapHoldsOpenConns, NobodyMisses, ViewIsSlice

LEMMA NextIInv == IInv /\ [Next]_vars => IInv'
BY PeerNextIInv, HandlerNextIInv, RecvMessageIInv, WriteToIInv, JoinLeaveIInv,
   RestIInv DEF Next, BroadcasterNext

THEOREM SpecIInv == Spec => []IInv
BY InitIInv, NextIInv, PTL DEF Spec

\* Only the receive of a message changes the log, and what the broadcaster
\* has received of anybody: a scanned line is counted once it is received.
LEMMA OnlyReceivingPosts ==
  ASSUME IInv, [Next]_vars, \A c \in Conns : ~RecvMessage(c)
  PROVE  log' = log /\ \A d \in Conns : Posted(d)' = Posted(d)
<1>1. \A c \in Conns : scanned[c] \in Nat
  BY DEF IInv, TypeOK
<1>2. ASSUME NEW c \in Conns, PeerNext(c) \/ WriteTo(c)
      PROVE  log' = log /\ \A d \in Conns : Posted(d)' = Posted(d)
  BY <1>2 DEF PeerNext, Dial, TypeLine, PeerRead, HangUp, WriteTo, roomVars, Posted
<1>3. ASSUME NEW c \in Conns, HandlerNext(c) \/ Join(c) \/ Leave(c)
      PROVE  log' = log /\ \A d \in Conns : Posted(d)' = Posted(d)
  <2>1. log' = log
    BY <1>3 DEF HandlerNext, Accept, Scan, ScanEnds, CloseConn, Join, Leave, roomVars
  <2>2. handler \in [Conns -> HandlerStates] /\ scanned \in [Conns -> Nat]
    BY DEF IInv, TypeOK
  <2>3. /\ handler[c] # "send"
        /\ \A d \in Conns \ {c} : handler'[d] = handler[d] /\ scanned'[d] = scanned[d]
        /\ \/ handler'[c] # "send" /\ scanned'[c] = scanned[c]
           \/ handler'[c] = "send" /\ scanned'[c] = scanned[c] + 1
    BY <1>3, <2>2 DEF HandlerNext, Accept, Scan, ScanEnds, CloseConn, Join, Leave
  <2>4. Posted(c)' = Posted(c)
    BY <1>1, <2>3 DEF Posted
  <2> QED
    BY <2>1, <2>3, <2>4 DEF Posted
<1>4. CASE AcceptError \/ WriteEnds \/ UNCHANGED vars
  BY <1>4 DEF AcceptError, WriteEnds, vars, peerVars, roomVars, Posted
<1> QED
  BY <1>2, <1>3, <1>4 DEF Next, HandlerNext, BroadcasterNext

\* The received line is the next one of its sender, and ends the log.
LEMMA ReceivedIsNext ==
  ASSUME IInv, NEW c \in Conns, RecvMessage(c)
  PROVE  /\ Posted(c) \in Nat /\ Posted(c)' = Posted(c) + 1
         /\ \A d \in Conns \ {c} : Posted(d)' = Posted(d)
         /\ Len(log) \in Nat /\ Len(log') = Len(log) + 1
         /\ \A i \in 1..Len(log) : log'[i] = log[i]
         /\ log'[Len(log) + 1] = [from |-> c, no |-> Posted(c) + 1]
<1>1. /\ handler[c] = "send" /\ handler' = [handler EXCEPT ![c] = "scan"]
      /\ log' = Append(log, [from |-> c, no |-> scanned[c]])
      /\ scanned' = scanned
  BY DEF RecvMessage
<1>2. /\ scanned[c] \in Nat /\ scanned[c] > 0 /\ log \in Seq(Entry)
      /\ handler'[c] = "scan" /\ \A d \in Conns \ {c} : handler'[d] = handler[d]
  BY <1>1 DEF IInv, TypeOK, HandlerProgress
<1>3. Posted(c) = scanned[c] - 1 /\ Posted(c)' = scanned[c]
  BY <1>1, <1>2 DEF Posted
<1>4. \A d \in Conns \ {c} : Posted(d)' = Posted(d)
  BY <1>1, <1>2 DEF Posted
<1>5. [from |-> c, no |-> scanned[c]] \in Entry
  BY <1>2 DEF Entry
<1>6. /\ Len(log) \in Nat /\ Len(log') = Len(log) + 1
      /\ \A i \in 1..Len(log) : log'[i] = log[i]
      /\ log'[Len(log) + 1] = [from |-> c, no |-> scanned[c]]
  BY <1>1, <1>2, <1>5, AppendFacts
<1>7. scanned[c] = Posted(c) + 1
  BY <1>2, <1>3
<1> QED
  BY <1>2, <1>3, <1>4, <1>6, <1>7

LEMMA ReceivePostsOnce ==
  ASSUME IInv, LinesPostedOnceInOrder, NEW c \in Conns, RecvMessage(c)
  PROVE  LinesPostedOnceInOrder'
<1>1. /\ Posted(c) \in Nat /\ Posted(c)' = Posted(c) + 1
      /\ \A d \in Conns \ {c} : Posted(d)' = Posted(d)
      /\ Len(log) \in Nat /\ Len(log') = Len(log) + 1
      /\ \A i \in 1..Len(log) : log'[i] = log[i]
      /\ log'[Len(log) + 1] = [from |-> c, no |-> Posted(c) + 1]
  BY ReceivedIsNext
<1>2. \A i \in 1..Len(log) : log[i].no \in Nat
  <2>1. \A i \in 1..Len(log) : log[i] \in Entry
    BY DEF IInv, TypeOK
  <2> QED
    BY <2>1 DEF Entry
<1> SUFFICES ASSUME NEW d \in Conns
             PROVE  /\ \A n \in 1..Posted(d)' :
                         \E i \in 1..Len(log') : log'[i] = [from |-> d, no |-> n]
                    /\ \A i, j \in 1..Len(log') :
                         (i < j /\ log'[i].from = d /\ log'[j].from = d)
                           => log'[i].no < log'[j].no
                    /\ \A i \in 1..Len(log') :
                         log'[i].from = d => log'[i].no <= Posted(d)'
  BY DEF LinesPostedOnceInOrder
<1>3. /\ \A n \in 1..Posted(d) :
           \E i \in 1..Len(log) : log[i] = [from |-> d, no |-> n]
      /\ \A i, j \in 1..Len(log) :
           (i < j /\ log[i].from = d /\ log[j].from = d) => log[i].no < log[j].no
      /\ \A i \in 1..Len(log) : log[i].from = d => log[i].no <= Posted(d)
  BY DEF LinesPostedOnceInOrder
<1>4. CASE d = c
  <2>1. ASSUME NEW n \in 1..Posted(d)'
        PROVE  \E i \in 1..Len(log') : log'[i] = [from |-> d, no |-> n]
    <3>1. CASE n = Posted(c) + 1
      BY <1>1, <1>4, <3>1
    <3>2. CASE n \in 1..Posted(c)
      <4>1. PICK i \in 1..Len(log) : log[i] = [from |-> d, no |-> n]
        BY <1>3, <1>4, <3>2
      <4>2. i \in 1..Len(log') /\ log'[i] = log[i]
        BY <1>1
      <4> QED
        BY <4>1, <4>2
    <3> QED
      BY <1>1, <1>4, <3>1, <3>2
  <2>2. ASSUME NEW i \in 1..Len(log'), NEW j \in 1..Len(log'),
               i < j, log'[i].from = d, log'[j].from = d
        PROVE  log'[i].no < log'[j].no
    <3>1. i \in 1..Len(log) /\ log'[i] = log[i]
      BY <1>1, <2>2
    <3>2. CASE j \in 1..Len(log)
      BY <1>1, <1>3, <2>2, <3>1, <3>2
    <3>3. CASE j = Len(log) + 1
      BY <1>1, <1>2, <1>3, <1>4, <2>2, <3>1, <3>3
    <3> QED
      BY <1>1, <3>2, <3>3
  <2>3. ASSUME NEW i \in 1..Len(log'), log'[i].from = d
        PROVE  log'[i].no <= Posted(d)'
    <3>1. CASE i \in 1..Len(log)
      BY <1>1, <1>2, <1>3, <1>4, <2>3, <3>1
    <3>2. CASE i = Len(log) + 1
      BY <1>1, <1>4, <3>2
    <3> QED
      BY <1>1, <3>1, <3>2
  <2> QED
    BY <2>1, <2>2, <2>3
<1>5. CASE d # c
  <2>1. \A i \in 1..Len(log') : log'[i].from = d => i \in 1..Len(log)
    BY <1>1, <1>5
  <2>2. Posted(d)' = Posted(d)
    BY <1>1, <1>5
  <2>3. ASSUME NEW n \in 1..Posted(d)
        PROVE  \E i \in 1..Len(log') : log'[i] = [from |-> d, no |-> n]
    <3>1. PICK i \in 1..Len(log) : log[i] = [from |-> d, no |-> n]
      BY <1>3
    <3>2. i \in 1..Len(log') /\ log'[i] = log[i]
      BY <1>1
    <3> QED
      BY <3>1, <3>2
  <2>4. \A i, j \in 1..Len(log') :
           (i < j /\ log'[i].from = d /\ log'[j].from = d) => log'[i].no < log'[j].no
    BY <1>1, <1>3, <2>1
  <2>5. \A i \in 1..Len(log') : log'[i].from = d => log'[i].no <= Posted(d)
    BY <1>1, <1>3, <2>1
  <2> QED
    BY <2>2, <2>3, <2>4, <2>5
<1> QED
  BY <1>4, <1>5

LEMMA InitPostsNothing == Init => LinesPostedOnceInOrder
<1> SUFFICES ASSUME Init PROVE LinesPostedOnceInOrder
  OBVIOUS
<1>1. Len(log) = 0 /\ \A c \in Conns : Posted(c) = 0
  BY DEF Init, Posted
<1>2. 1..Len(log) = {} /\ \A c \in Conns : 1..Posted(c) = {}
  BY <1>1
<1> QED
  BY <1>2, Zenon DEF LinesPostedOnceInOrder

LEMMA NextPostsOnce ==
  ASSUME IInv, LinesPostedOnceInOrder, [Next]_vars
  PROVE  LinesPostedOnceInOrder'
<1>1. CASE \E c \in Conns : RecvMessage(c)
  BY <1>1, ReceivePostsOnce
<1>2. CASE \A c \in Conns : ~RecvMessage(c)
  <2>1. log' = log /\ \A d \in Conns : Posted(d)' = Posted(d)
    BY <1>2, OnlyReceivingPosts
  <2> QED
    BY <2>1 DEF LinesPostedOnceInOrder
<1> QED
  BY <1>1, <1>2

\* However the handlers' sends interleave, each line the broadcaster received
\* of a connection is in the log exactly once and in the order it was typed.
THEOREM EveryLineOnceInOrder == Spec => []LinesPostedOnceInOrder
<1>1. Init => LinesPostedOnceInOrder
  BY InitPostsNothing
<1>2. IInv /\ LinesPostedOnceInOrder /\ [Next]_vars => LinesPostedOnceInOrder'
  BY NextPostsOnce
<1> QED
  BY <1>1, <1>2, SpecIInv, PTL DEF Spec

\* Every goroutine, socket and peer is always in one of its states, and no
\* socket ever holds more than its capacity.
THEOREM TypeCorrect == Spec => []TypeOK
BY SpecIInv, PTL DEF IInv

\* What is written to a connection is the log from its join on: everybody in
\* the room sees one conversation.
THEOREM OneConversation == Spec => []ViewIsSlice
BY SpecIInv, PTL DEF IInv

\* A connection in clientMap whose writes cannot fail misses no message.
THEOREM NothingMissed == Spec => []NobodyMisses
BY SpecIInv, PTL DEF IInv

\* broadcaster holds exactly the connections that joined and have not left, so
\* it never writes to one whose handler has closed it.
THEOREM MapIsCurrent == Spec => []MapHoldsOpenConns
BY SpecIInv, PTL DEF IInv

-----------------------------------------------------------------------------
(* The refinement of ChatRoom.                                             *)

LEMMA RoomInit == Init => Room!Init
BY DEF Init, Room!Init, Posted

\* A step that keeps what the room is made of is a stutter of the room.
LEMMA RoomStutter ==
  ASSUME UNCHANGED <<clientMap, log, joinAt, sock>>,
         \A c \in Conns : Posted(c)' = Posted(c),
         \A c \in Conns : (peer[c] = "closed")' = (peer[c] = "closed")
  PROVE  UNCHANGED Room!vars
BY DEF Room!vars

\* Of the peers' steps only hanging up is visible in the room.
LEMMA PeerNextRoom ==
  ASSUME IInv, NEW c \in Conns, PeerNext(c)
  PROVE  [Room!Next]_Room!vars
<1>1. UNCHANGED <<scanned, handler, clientMap, log, joinAt, sock>>
  BY DEF PeerNext, Dial, TypeLine, PeerRead, HangUp, roomVars
<1>2. \A d \in Conns : Posted(d)' = Posted(d)
  BY <1>1 DEF Posted
<1>3. CASE HangUp(c)
  <2>1. {d \in Conns : peer'[d] = "closed"} =
        {d \in Conns : peer[d] = "closed"} \cup {c}
    BY <1>3 DEF HangUp, IInv, TypeOK
  <2>2. Room!Lose(c)
    BY <1>1, <1>2, <2>1 DEF Room!Lose
  <2> QED
    BY <2>2 DEF Room!Next
<1>4. CASE ~HangUp(c)
  <2>1. \A d \in Conns : (peer[d] = "closed")' = (peer[d] = "closed")
    BY <1>4 DEF PeerNext, Dial, TypeLine, PeerRead, IInv, TypeOK
  <2> QED
    BY <1>1, <1>2, <2>1, RoomStutter
<1> QED
  BY <1>3, <1>4

\* Nothing the handlers do on their own is visible in the room.
LEMMA HandlerNextRoom ==
  ASSUME IInv, NEW c \in Conns, HandlerNext(c)
  PROVE  [Room!Next]_Room!vars
<1>1. UNCHANGED <<peer, clientMap, log, joinAt, sock>>
  BY DEF HandlerNext, Accept, Scan, ScanEnds, CloseConn, roomVars, peerVars
<1>2. \A d \in Conns : Posted(d)' = Posted(d)
  BY DEF HandlerNext, Accept, Scan, ScanEnds, CloseConn, Posted, IInv, TypeOK
<1> QED
  BY <1>1, <1>2, RoomStutter

\* Receiving a message is posting it: everybody who listens is caught up.
LEMMA RecvMessageRoom ==
  ASSUME IInv, NEW c \in Conns, RecvMessage(c)
  PROVE  [Room!Next]_Room!vars
<1>1. /\ UNCHANGED <<peer, scanned, clientMap, sock, joinAt>>
      /\ handler[c] = "send" /\ handler' = [handler EXCEPT ![c] = "scan"]
      /\ phase = "select"
      /\ log' = Append(log, [from |-> c, no |-> scanned[c]])
  BY DEF RecvMessage, peerVars
<1>2. todo = {} /\ c \in clientMap
  BY <1>1 DEF IInv, BroadcasterPhase, MapHoldsOpenConns
<1>3. \A d \in clientMap \ {d \in Conns : peer[d] = "closed"} : Room!CaughtUp(d)
  <2> SUFFICES ASSUME NEW d \in clientMap, peer[d] # "closed"
               PROVE  Room!CaughtUp(d)
    BY DEF IInv, TypeOK
  <2>1. ~Dead(d)
    BY DEF IInv, TypeOK, MapHoldsOpenConns, Dead
  <2> QED
    BY <1>2, <2>1 DEF IInv, NobodyMisses, Room!CaughtUp
<1>4. Posted(c) + 1 = scanned[c] /\ Posted(c)' = scanned[c]
  BY <1>1 DEF Posted, IInv, TypeOK
<1>5. \A d \in Conns \ {c} : Posted(d)' = Posted(d)
  BY <1>1 DEF Posted, IInv, TypeOK
<1>6. [d \in Conns |-> Posted(d)]' =
      [[d \in Conns |-> Posted(d)] EXCEPT ![c] = @ + 1]
  BY <1>4, <1>5
<1>7. Room!Post(c)
  BY <1>1, <1>2, <1>3, <1>4, <1>6 DEF Room!Post
<1> QED
  BY <1>7 DEF Room!Next

\* A write shows its connection the next entry, or the connection is lost.
LEMMA WriteToRoom ==
  ASSUME IInv, NEW c \in Conns, WriteTo(c)
  PROVE  [Room!Next]_Room!vars
<1>1. /\ UNCHANGED <<peer, scanned, handler, clientMap, log, joinAt>>
      /\ c \in todo /\ c \in clientMap
  BY DEF WriteTo, peerVars, IInv, MapHoldsOpenConns
<1>2. \A d \in Conns : Posted(d)' = Posted(d)
  BY <1>1 DEF Posted
<1>3. CASE UNCHANGED sock
  BY <1>1, <1>2, <1>3, RoomStutter
<1>4. CASE ~Dead(c) /\ sock' = [sock EXCEPT ![c] = Append(@, log[Len(log)])]
  <2>1. Len(log) \in Nat /\ joinAt[c] \in Nat /\ Len(sock[c]) \in Nat
    BY DEF IInv, TypeOK
  <2>2. joinAt[c] + Len(sock[c]) = Len(log) - 1
    BY <1>1, <1>4 DEF IInv, NobodyMisses
  <2>3. joinAt[c] + Len(sock[c]) + 1 = Len(log) /\ ~Room!CaughtUp(c)
    BY <2>1, <2>2 DEF Room!CaughtUp
  <2>4. c \in clientMap \ {d \in Conns : peer[d] = "closed"}
    BY <1>1, <1>4 DEF Dead
  <2>5. sock' = [sock EXCEPT ![c] = Append(@, log[joinAt[c] + Len(@) + 1])]
    BY <1>4, <2>3
  <2>6. Room!Show(c)
    BY <1>1, <1>2, <2>3, <2>4, <2>5 DEF Room!Show
  <2> QED
    BY <2>6 DEF Room!Next
<1> QED
  BY <1>3, <1>4 DEF WriteTo

LEMMA JoinLeaveRoom ==
  ASSUME IInv, NEW c \in Conns, Join(c) \/ Leave(c)
  PROVE  [Room!Next]_Room!vars
<1>1. UNCHANGED <<peer, scanned, log, sock>>
  BY DEF Join, Leave, peerVars
<1>2. \A d \in Conns : Posted(d)' = Posted(d)
  BY DEF Join, Leave, Posted, peerVars, IInv, TypeOK
<1>3. CASE Join(c)
  <2>1. c \notin clientMap /\ sock[c] = <<>> /\ Posted(c) = 0
    BY <1>3 DEF Join, IInv, MapHoldsOpenConns, HandlerProgress, Posted
  <2>2. Room!Enter(c)
    BY <1>1, <1>2, <1>3, <2>1 DEF Join, Room!Enter
  <2> QED
    BY <2>2 DEF Room!Next
<1>4. CASE Leave(c)
  <2>1. c \in clientMap
    BY <1>4 DEF Leave, IInv, MapHoldsOpenConns
  <2>2. Room!Exit(c)
    BY <1>1, <1>2, <1>4, <2>1 DEF Leave, Room!Exit
  <2> QED
    BY <2>2 DEF Room!Next
<1> QED
  BY <1>3, <1>4

LEMMA RestRoom ==
  ASSUME AcceptError \/ WriteEnds \/ UNCHANGED vars
  PROVE  [Room!Next]_Room!vars
<1>1. UNCHANGED <<peer, scanned, handler, clientMap, log, joinAt, sock>>
  BY DEF AcceptError, WriteEnds, vars, peerVars, roomVars
<1>2. \A d \in Conns : Posted(d)' = Posted(d)
  BY <1>1 DEF Posted
<1> QED
  BY <1>1, <1>2, RoomStutter

LEMMA NextRoom == IInv /\ [Next]_vars => [Room!Next]_Room!vars
BY PeerNextRoom, HandlerNextRoom, RecvMessageRoom, WriteToRoom, JoinLeaveRoom,
   RestRoom DEF Next, BroadcasterNext

\* The goroutines, channels and sockets of server.go implement the room: one
\* log, joined and left by name, in which nobody posts while a member that
\* still listens has something left to see.
THEOREM ServerImplementsRoom == Spec => RoomSpec
BY SpecIInv, RoomInit, NextRoom, PTL DEF Spec, RoomSpec, Room!Spec

=============================================================================
