----------------------------- MODULE ChatServer -----------------------------
(***************************************************************************)
(* go-chat-app/server.go: one broadcaster goroutine that owns the map of   *)
(* connections, one handleConn goroutine per accepted connection, and two  *)
(* unbuffered channels between them.  A send on an unbuffered channel and  *)
(* its receive are one step.  Beyond the server, a peer dials, types       *)
(* lines, reads what it is sent and hangs up.                              *)
(*                                                                         *)
(* A line is identified by its sender and its number among that sender's   *)
(* lines; its text is never looked at by the server.                       *)
(***************************************************************************)
EXTENDS Naturals, Sequences

CONSTANTS
  Conns,         \* the connections the listener may return, each used once
  MaxLines,      \* bound: MaxLines[c] is the number of lines the peer of c types
  SockCap,       \* the lines a socket holds before a Write to it blocks
  AcceptErrors   \* TRUE when listener.Accept may fail

ASSUME ChatAssumption ==
  /\ MaxLines \in [Conns -> Nat]
  /\ SockCap \in Nat \ {0}
  /\ AcceptErrors \in BOOLEAN

VARIABLES
  up,         \* the process is running
  peer,       \* peer[c]: the far end of c
  typed,      \* typed[c]: how many lines the peer of c has written to it
  scanned,    \* scanned[c]: how many of them the Scanner has returned
  handler,    \* handler[c]: where the handleConn goroutine of c is
  clientMap,  \* the keys of broadcaster's clientMap
  phase,      \* broadcaster waits in its select, or writes a message out
  todo,       \* the connections the range over clientMap has still to reach
  log,        \* every message broadcaster received, in order (history)
  sock,       \* sock[c]: every message written to c, in order
  read,       \* read[c]: how many of them the peer of c has read
  joinAt      \* joinAt[c]: the length of log when c joined (history)

vars == <<up, peer, typed, scanned, handler, clientMap, phase, todo, log,
          sock, read, joinAt>>

peerVars == <<peer, typed, read>>
roomVars == <<clientMap, phase, todo, log, sock, joinAt>>

PeerStates == {"away", "open", "closed"}
HandlerStates == {"none", "join", "scan", "send", "leave", "close", "done"}
Entry == [from : Conns, no : Nat \ {0}]

Init ==
  /\ up = TRUE
  /\ peer = [c \in Conns |-> "away"]
  /\ typed = [c \in Conns |-> 0]
  /\ scanned = [c \in Conns |-> 0]
  /\ handler = [c \in Conns |-> "none"]
  /\ clientMap = {}
  /\ phase = "select"
  /\ todo = {}
  /\ log = <<>>
  /\ sock = [c \in Conns |-> <<>>]
  /\ read = [c \in Conns |-> 0]
  /\ joinAt = [c \in Conns |-> 0]

-----------------------------------------------------------------------------
(* The peers: what the far end of a TCP connection may do.                 *)

Dial(c) ==
  /\ peer[c] = "away"
  /\ peer' = [peer EXCEPT ![c] = "open"]
  /\ UNCHANGED <<up, typed, scanned, handler, read, roomVars>>

TypeLine(c) ==
  /\ peer[c] = "open"
  /\ typed[c] < MaxLines[c]
  /\ typed' = [typed EXCEPT ![c] = @ + 1]
  /\ UNCHANGED <<up, peer, scanned, handler, read, roomVars>>

PeerRead(c) ==
  /\ peer[c] = "open"
  /\ read[c] < Len(sock[c])
  /\ read' = [read EXCEPT ![c] = @ + 1]
  /\ UNCHANGED <<up, peer, typed, scanned, handler, roomVars>>

HangUp(c) ==
  /\ peer[c] = "open"
  /\ peer' = [peer EXCEPT ![c] = "closed"]
  /\ UNCHANGED <<up, typed, scanned, handler, read, roomVars>>

-----------------------------------------------------------------------------
(* main: the accept loop.                                                  *)

\* A connection waits in the backlog even if its peer has gone meanwhile.
Accept(c) ==
  /\ up
  /\ handler[c] = "none"
  /\ peer[c] # "away"
  /\ handler' = [handler EXCEPT ![c] = "join"]
  /\ UNCHANGED <<up, peerVars, scanned, roomVars>>

\* The error of Accept is dropped and handleConn runs on a nil net.Conn: its
\* "defer c.Close()" panics, and a panic in a goroutine ends the process.
AcceptError ==
  /\ up
  /\ AcceptErrors
  /\ up' = FALSE
  /\ UNCHANGED <<peerVars, scanned, handler, roomVars>>

-----------------------------------------------------------------------------
(* handleConn.                                                             *)

\* Variant: the line count is not compared before the next line is taken.
ScanUnguarded(c) ==
  /\ up
  /\ handler[c] = "scan"
  /\ scanned' = [scanned EXCEPT ![c] = @ + 1]
  /\ handler' = [handler EXCEPT ![c] = "send"]
  /\ UNCHANGED <<up, peerVars, roomVars>>

\* scanner.Scan() returns a line, which the goroutine then offers on messages.
Scan(c) ==
  /\ up
  /\ handler[c] = "scan"
  /\ scanned[c] < typed[c]
  /\ scanned' = [scanned EXCEPT ![c] = @ + 1]
  /\ handler' = [handler EXCEPT ![c] = "send"]
  /\ UNCHANGED <<up, peerVars, roomVars>>

\* Variant: the deferred "leave" is missing, only Close is deferred.
ScanEndsWithoutLeave(c) ==
  /\ up
  /\ handler[c] = "scan"
  /\ peer[c] = "closed" \/ scanned[c] < typed[c]
  /\ handler' = [handler EXCEPT ![c] = "close"]
  /\ UNCHANGED <<up, peerVars, scanned, roomVars>>

\* scanner.Scan() returns false: end of file, a read error (which may discard
\* lines not yet read), or a line longer than the Scanner's buffer.  The
\* deferred functions run last in, first out: leave, then Close.
ScanEnds(c) ==
  /\ up
  /\ handler[c] = "scan"
  /\ \/ peer[c] = "closed"
     \/ scanned[c] < typed[c]
  /\ handler' = [handler EXCEPT ![c] = "leave"]
  /\ UNCHANGED <<up, peerVars, scanned, roomVars>>

CloseConn(c) ==
  /\ up
  /\ handler[c] = "close"
  /\ handler' = [handler EXCEPT ![c] = "done"]
  /\ UNCHANGED <<up, peerVars, scanned, roomVars>>

-----------------------------------------------------------------------------
(* broadcaster.                                                            *)

\* Variant: the goroutine stays at its send, as if the receive did not end it.
RecvMessageTwice(c) ==
  /\ up
  /\ phase = "select"
  /\ handler[c] = "send"
  /\ Len(log) < 3
  /\ log' = Append(log, [from |-> c, no |-> scanned[c]])
  /\ phase' = "write"
  /\ todo' = clientMap
  /\ UNCHANGED <<up, peerVars, scanned, handler, clientMap, sock, joinAt>>

\* case msg := <-messages, up to the start of the range over clientMap.
RecvMessage(c) ==
  /\ up
  /\ phase = "select"
  /\ handler[c] = "send"
  /\ handler' = [handler EXCEPT ![c] = "scan"]
  /\ log' = Append(log, [from |-> c, no |-> scanned[c]])
  /\ phase' = "write"
  /\ todo' = clientMap
  /\ UNCHANGED <<up, peerVars, scanned, clientMap, sock, joinAt>>

\* A Write to c reaches nobody: the peer is gone or Close has been called.
Dead(c) == peer[c] = "closed" \/ handler[c] = "done"

HasRoom(c) == Len(sock[c]) - read[c] < SockCap

\* Variant: a write deadline that gives up on a slow peer and goes on.
WriteFailsWhenSlow(c) == Dead(c) \/ ~HasRoom(c)

\* Variant: on a write error broadcaster itself sends a leave on clients, the
\* channel that only it receives from, so the failing Write is never passed.
WriteFailsForEver(c) == FALSE

\* A Write that returns an error, which the caller drops, or whose bytes the
\* kernel takes and throws away.
WriteFails(c) == Dead(c)

\* One fmt.Fprintln(c, msg): it blocks while the socket is full.  The range
\* visits the map in any order.
WriteTo(c) ==
  /\ up
  /\ phase = "write"
  /\ c \in todo
  /\ \/ /\ ~Dead(c)
        /\ HasRoom(c)
        /\ sock' = [sock EXCEPT ![c] = Append(@, log[Len(log)])]
     \/ /\ WriteFails(c)
        /\ UNCHANGED sock
  /\ todo' = todo \ {c}
  /\ UNCHANGED <<up, peerVars, scanned, handler, clientMap, phase, log, joinAt>>

\* Variant: the first write error breaks out of the range.
WriteEndsOnError ==
  /\ up
  /\ phase = "write"
  /\ todo = {} \/ \E c \in todo : Dead(c)
  /\ phase' = "select"
  /\ todo' = {}
  /\ UNCHANGED <<up, peerVars, scanned, handler, clientMap, log, sock, joinAt>>

\* The range is over; back to the select.
WriteEnds ==
  /\ up
  /\ phase = "write"
  /\ todo = {}
  /\ phase' = "select"
  /\ UNCHANGED <<up, peerVars, scanned, handler, clientMap, todo, log, sock,
                 joinAt>>

\* Variant: the join is handled while a message is being written out.
JoinAnyTime(c) ==
  /\ up
  /\ handler[c] = "join"
  /\ handler' = [handler EXCEPT ![c] = "scan"]
  /\ clientMap' = clientMap \cup {c}
  /\ todo' = IF phase = "write" THEN todo \cup {c} ELSE todo
  /\ joinAt' = [joinAt EXCEPT ![c] = Len(log)]
  /\ UNCHANGED <<up, peerVars, scanned, phase, log, sock>>

\* case client := <-clients with action "join".
Join(c) ==
  /\ up
  /\ phase = "select"
  /\ handler[c] = "join"
  /\ handler' = [handler EXCEPT ![c] = "scan"]
  /\ clientMap' = clientMap \cup {c}
  /\ joinAt' = [joinAt EXCEPT ![c] = Len(log)]
  /\ UNCHANGED <<up, peerVars, scanned, phase, todo, log, sock>>

\* Variant: the connection is looked up but not deleted.
LeaveKeepsConn(c) ==
  /\ up
  /\ phase = "select"
  /\ handler[c] = "leave"
  /\ handler' = [handler EXCEPT ![c] = "close"]
  /\ UNCHANGED <<up, peerVars, scanned, roomVars>>

\* case client := <-clients with any other action.
Leave(c) ==
  /\ up
  /\ phase = "select"
  /\ handler[c] = "leave"
  /\ handler' = [handler EXCEPT ![c] = "close"]
  /\ clientMap' = clientMap \ {c}
  /\ UNCHANGED <<up, peerVars, scanned, phase, todo, log, sock, joinAt>>

-----------------------------------------------------------------------------

PeerNext(c) == Dial(c) \/ TypeLine(c) \/ PeerRead(c) \/ HangUp(c)

HandlerNext(c) == Accept(c) \/ Scan(c) \/ ScanEnds(c) \/ CloseConn(c)

BroadcasterNext(c) == RecvMessage(c) \/ WriteTo(c) \/ Join(c) \/ Leave(c)

Next ==
  \/ \E c \in Conns : PeerNext(c) \/ HandlerNext(c) \/ BroadcasterNext(c)
  \/ AcceptError
  \/ WriteEnds

Spec == Init /\ [][Next]_vars

(***************************************************************************)
(* Fairness.  The Go scheduler runs every goroutine that can run.  Several *)
(* handlers may wait for the broadcaster at once: the runtime queues the   *)
(* senders of a channel first in, first out, and select picks among ready  *)
(* channels at random, so none waits forever (strong fairness).  Peers are *)
(* obliged to nothing.                                                     *)
(***************************************************************************)
Fairness ==
  /\ WF_vars(WriteEnds)
  /\ \A c \in Conns :
       /\ WF_vars(Accept(c))
       /\ WF_vars(Scan(c) \/ ScanEnds(c))
       /\ WF_vars(CloseConn(c))
       /\ WF_vars(WriteTo(c))
       /\ SF_vars(RecvMessage(c))
       /\ SF_vars(Join(c))
       /\ SF_vars(Leave(c))

FairSpec == Spec /\ Fairness

-----------------------------------------------------------------------------
(* Properties.                                                             *)

\* How many lines of c the broadcaster has received.
Posted(c) == IF handler[c] = "send" THEN scanned[c] - 1 ELSE scanned[c]

\* Type invariant: the state of every goroutine, socket and peer.
TypeOK ==
  /\ up \in BOOLEAN
  /\ peer \in [Conns -> PeerStates]
  /\ typed \in [Conns -> Nat]
  /\ scanned \in [Conns -> Nat]
  /\ \A c \in Conns : scanned[c] <= typed[c] /\ typed[c] <= MaxLines[c]
  /\ handler \in [Conns -> HandlerStates]
  /\ clientMap \in SUBSET Conns
  /\ phase \in {"select", "write"}
  /\ todo \in SUBSET Conns
  /\ log \in Seq(Entry)
  /\ sock \in [Conns -> Seq(Entry)]
  /\ read \in [Conns -> Nat]
  /\ \A c \in Conns : read[c] <= Len(sock[c]) /\ Len(sock[c]) <= read[c] + SockCap
  /\ joinAt \in [Conns -> Nat]

\* Everyone sees one conversation: what was written to a connection is the log
\* from its join on, in order, with nothing skipped and nothing repeated,
\* although every message is a separate loop of separate blocking writes.
ViewIsSlice ==
  \A c \in Conns :
    /\ joinAt[c] + Len(sock[c]) <= Len(log)
    /\ \A i \in 1..Len(sock[c]) : sock[c][i] = log[joinAt[c] + i]

\* Nobody in the map misses a message: a connection whose writes cannot fail
\* has been written every message since its join, except the one the loop in
\* progress has not reached it with.
NobodyMisses ==
  \A c \in clientMap :
    ~Dead(c) =>
      joinAt[c] + Len(sock[c]) = IF c \in todo THEN Len(log) - 1 ELSE Len(log)

\* Each line a peer typed and the Scanner returned is in the log exactly once,
\* in the order typed, or is the one its handler is offering.
LinesPostedOnceInOrder ==
  \A c \in Conns :
    /\ \A n \in 1..Posted(c) :
         \E i \in 1..Len(log) : log[i] = [from |-> c, no |-> n]
    /\ \A i, j \in 1..Len(log) :
         (i < j /\ log[i].from = c /\ log[j].from = c)
           => log[i].no < log[j].no
    /\ \A i \in 1..Len(log) : log[i].from = c => log[i].no <= Posted(c)

\* The broadcaster never holds a connection whose handler has closed it, or
\* has not joined: the deferred leave is handled before the deferred Close.
MapHoldsOpenConns ==
  /\ todo \subseteq clientMap
  /\ \A c \in Conns :
       c \in clientMap <=> handler[c] \in {"scan", "send", "leave"}

\* The chat server implements the room: a connection is a member while it is
\* in clientMap, and lost once its peer has hung up.
Room == INSTANCE ChatRoom WITH
  members <- clientMap,
  lost <- {c \in Conns : peer[c] = "closed"},
  posted <- [c \in Conns |-> Posted(c)],
  view <- sock

RoomSpec == Room!Spec

\* No peer leaves its socket full for ever without hanging up.  The code sets
\* no write deadline, so liveness rests on this promise of the peers.
PeersKeepReading == \A c \in Conns : []<>(Dead(c) \/ HasRoom(c))

\* While the process runs, a line taken from a peer reaches the log: no
\* handler waits for ever for the broadcaster, provided every peer reads.
LineIsPosted ==
  PeersKeepReading =>
    \A c \in Conns :
      handler[c] = "send"
        ~> (~up \/ \E i \in 1..Len(log) :
                      log[i] = [from |-> c, no |-> scanned[c]])

\* While the process runs, an accepted connection whose peer hung up is taken
\* out of the map and closed, provided every other peer reads.
GoneIsForgotten ==
  PeersKeepReading =>
    \A c \in Conns :
      peer[c] = "closed" ~> (~up \/ (handler[c] = "done" /\ c \notin clientMap))

=============================================================================
