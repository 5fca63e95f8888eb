---------------------------- MODULE SocketProxy -----------------------------
(***************************************************************************)
(* The socket proxy of the agents (modules/pkgs/socketproxy): a connection *)
(* of an application to a local socket ("client") is carried over a gRPC   *)
(* stream to the socket of an application in another VM ("server").        *)
(*                                                                         *)
(* One connection is modelled, from Accept to the end of StreamData on     *)
(* both sides; connections share nothing but the listener.  On each side   *)
(* two goroutines forward: one receives frames and writes them to the      *)
(* socket, one reads the socket and sends frames.  The bytes an            *)
(* application writes are numbered, and a frame is a range of them.        *)
(***************************************************************************)
EXTENDS Naturals, Sequences, FiniteSets

CONSTANTS
  MaxBytes,   \* bound: bytes the application of each side writes
  ChunkSize,  \* socketReadChunkSize
  Window,     \* frames the flow control of the stream lets through unread
  SockCap,    \* unread bytes at which a write to a socket blocks
  MaxFaults   \* bound: 1 to let the stream break or the dial fail

Side == {"client", "server"}
Peer(s) == CHOOSE t \in Side : t # s

ASSUME ProxyAssumption ==
  /\ MaxBytes \in [Side -> Nat] /\ MaxFaults \in Nat
  /\ ChunkSize \in Nat \ {0} /\ Window \in Nat \ {0} /\ SockCap \in Nat \ {0}

VARIABLES
  opened,     \* whether the call of TransferData has been made
  conn,       \* the proxy's end of the socket of each side
  closed,     \* the sides whose application has closed its end
  written,    \* bytes the application of each side has written
  taken,      \* bytes of these that the proxy has read
  arrived,    \* the bytes that were written to the socket of each side
  unread,     \* how many of these its application has not read
  wire,       \* wire[s]: frames underway from s to its peer
  rcv, snd,   \* the goroutines of StreamData
  inHand,     \* the frame the receiving one writes, EOF when it has none
  outHand,    \* the frame the sending one sends
  cancelled,  \* sides on which a goroutine has failed, which ends the context
  over,       \* sides on which StreamData has returned
  broken,     \* the stream has failed
  quit,       \* history: sides whose sender left without an EOF frame
  faults

appVars == <<closed, written, unread>>
rcvVars == <<rcv, inHand, arrived>>
sndVars == <<snd, outHand, taken, quit>>
vars == <<opened, conn, appVars, rcvVars, sndVars, wire, cancelled, over, broken, faults>>

Frame == [lo : Nat, hi : Nat]
EOF == [lo |-> 0, hi |-> 0]

(* Every variable has its type, no more frames are underway than the       *)
(* window allows, and all that has arrived was read on the other side.     *)
TypeOK ==
  /\ opened \in BOOLEAN /\ broken \in BOOLEAN
  /\ conn \in [Side -> {"none", "open", "closed"}]
  /\ closed \subseteq Side /\ cancelled \subseteq Side
  /\ over \subseteq Side /\ quit \subseteq Side
  /\ written \in [Side -> Nat] /\ taken \in [Side -> Nat]
  /\ arrived \in [Side -> Seq(Nat)] /\ unread \in [Side -> Nat]
  /\ wire \in [Side -> Seq(Frame)]
  /\ rcv \in [Side -> {"none", "select", "recv", "write", "done"}]
  /\ snd \in [Side -> {"none", "select", "read", "send", "done"}]
  /\ inHand \in [Side -> Frame] /\ outHand \in [Side -> Frame]
  /\ faults \in Nat
  /\ \A s \in Side : /\ taken[s] <= written[s]
                     /\ Len(arrived[s]) <= taken[Peer(s)]
                     /\ Len(wire[s]) <= Window

(* An application has connected to the socket, and Accept has returned.    *)
Init ==
  /\ opened = FALSE
  /\ conn = [s \in Side |-> IF s = "client" THEN "open" ELSE "none"]
  /\ closed = {}
  /\ written = [s \in Side |-> 0] /\ taken = [s \in Side |-> 0]
  /\ arrived = [s \in Side |-> <<>>] /\ unread = [s \in Side |-> 0]
  /\ wire = [s \in Side |-> <<>>]
  /\ rcv = [s \in Side |-> "none"] /\ snd = [s \in Side |-> "none"]
  /\ inHand = [s \in Side |-> EOF] /\ outHand = [s \in Side |-> EOF]
  /\ cancelled = {} /\ over = {} /\ broken = FALSE /\ quit = {}
  /\ faults = 0

-----------------------------------------------------------------------------
(* The applications.                                                       *)

AppWrite(s) ==
  /\ conn[s] = "open" /\ s \notin closed
  /\ written[s] < MaxBytes[s]
  /\ written' = [written EXCEPT ![s] = @ + 1]
  /\ UNCHANGED <<opened, conn, closed, unread, rcvVars, sndVars, wire, cancelled, over,
                 broken, faults>>

AppRead(s) ==
  /\ unread[s] > 0
  /\ unread' = [unread EXCEPT ![s] = @ - 1]
  /\ UNCHANGED <<opened, conn, closed, written, rcvVars, sndVars, wire, cancelled, over,
                 broken, faults>>

AppClose(s) ==
  /\ conn[s] # "none" /\ s \notin closed
  /\ closed' = closed \cup {s}
  /\ unread' = [unread EXCEPT ![s] = 0]
  /\ UNCHANGED <<opened, conn, written, rcvVars, sndVars, wire, cancelled, over, broken,
                 faults>>

-----------------------------------------------------------------------------
(* Setting up.                                                             *)

(* The call of TransferData; until it succeeds it is repeated.             *)
Open ==
  /\ ~opened
  /\ opened' = TRUE
  /\ rcv' = [rcv EXCEPT !["client"] = "select"]
  /\ snd' = [snd EXCEPT !["client"] = "select"]
  /\ UNCHANGED <<conn, appVars, inHand, arrived, outHand, taken, quit, wire, cancelled, over,
                 broken, faults>>

(* The handler of TransferData dials to the socket ...                     *)
Dial ==
  /\ opened /\ conn["server"] = "none" /\ "server" \notin over
  /\ conn' = [conn EXCEPT !["server"] = "open"]
  /\ rcv' = [rcv EXCEPT !["server"] = "select"]
  /\ snd' = [snd EXCEPT !["server"] = "select"]
  /\ UNCHANGED <<opened, appVars, inHand, arrived, outHand, taken, quit, wire, cancelled, over,
                 broken, faults>>

(* ... and returns an error if it cannot.                                  *)
DialFails ==
  /\ opened /\ conn["server"] = "none" /\ "server" \notin over
  /\ faults < MaxFaults /\ faults' = faults + 1
  /\ over' = over \cup {"server"}
  /\ broken' = TRUE
  /\ UNCHANGED <<opened, conn, appVars, rcvVars, sndVars, wire, cancelled>>

(* The connection between the agents is lost, or the client's is stopped.  *)
Break ==
  /\ opened /\ ~broken
  /\ faults < MaxFaults /\ faults' = faults + 1
  /\ broken' = TRUE
  /\ UNCHANGED <<opened, conn, appVars, rcvVars, sndVars, wire, cancelled, over>>

-----------------------------------------------------------------------------
(* StreamData, from the stream to the socket.                              *)

(* ctx.Done(): a goroutine of this side has failed, or the stream has.     *)
Done(s) == s \in cancelled \/ broken

RecvSelect(s) ==
  /\ rcv[s] = "select"
  /\ rcv' = [rcv EXCEPT ![s] = IF Done(s) THEN "done" ELSE "recv"]
  /\ UNCHANGED <<opened, conn, appVars, inHand, arrived, sndVars, wire, cancelled, over, broken,
                 faults>>

(* Bug: the end of the stream leaves the socket open.                      *)
RecvFrameLeavesOpen(s) ==
  /\ rcv[s] = "recv"
  /\ wire[Peer(s)] # <<>>
  /\ LET f == Head(wire[Peer(s)]) IN
     /\ inHand' = [inHand EXCEPT ![s] = f]
     /\ rcv' = [rcv EXCEPT ![s] = IF f = EOF THEN "done" ELSE "write"]
  /\ wire' = [wire EXCEPT ![Peer(s)] = Tail(@)]
  /\ UNCHANGED <<opened, conn, appVars, arrived, sndVars, cancelled, over, broken, faults>>

(* A frame that says EOF closes the socket.                                *)
RecvFrame(s) ==
  /\ rcv[s] = "recv"
  /\ wire[Peer(s)] # <<>>
  /\ LET f == Head(wire[Peer(s)]) IN
     /\ inHand' = [inHand EXCEPT ![s] = f]
     /\ rcv' = [rcv EXCEPT ![s] = IF f = EOF THEN "done" ELSE "write"]
     /\ conn' = [conn EXCEPT ![s] = IF f = EOF THEN "closed" ELSE @]
  /\ wire' = [wire EXCEPT ![Peer(s)] = Tail(@)]
  /\ UNCHANGED <<opened, appVars, arrived, sndVars, cancelled, over, broken, faults>>

(* The stream has failed, or the other side has finished: the server's     *)
(* handler has returned, or the client has called CloseSend.               *)
RecvFails(s) ==
  /\ rcv[s] = "recv"
  /\ broken \/ (Peer(s) \in over /\ wire[Peer(s)] = <<>>)
  /\ rcv' = [rcv EXCEPT ![s] = "done"]
  /\ cancelled' = cancelled \cup {s}
  /\ UNCHANGED <<opened, conn, appVars, inHand, arrived, sndVars, wire, over, broken, faults>>

WriteSocket(s) ==
  LET f == inHand[s] n == f.hi - f.lo + 1 IN
  /\ rcv[s] = "write" /\ s \notin closed
  /\ unread[s] < SockCap
  /\ arrived' = [arrived EXCEPT ![s] = @ \o [i \in 1 .. n |-> f.lo + i - 1]]
  /\ unread' = [unread EXCEPT ![s] = @ + n]
  /\ rcv' = [rcv EXCEPT ![s] = "select"]
  /\ inHand' = [inHand EXCEPT ![s] = EOF]
  /\ UNCHANGED <<opened, conn, closed, written, sndVars, wire, cancelled, over, broken,
                 faults>>

WriteFails(s) ==
  /\ rcv[s] = "write" /\ s \in closed
  /\ rcv' = [rcv EXCEPT ![s] = "done"]
  /\ inHand' = [inHand EXCEPT ![s] = EOF]
  /\ cancelled' = cancelled \cup {s}
  /\ UNCHANGED <<opened, conn, appVars, arrived, sndVars, wire, over, broken, faults>>

-----------------------------------------------------------------------------
(* StreamData, from the socket to the stream.                              *)

(* With the context ended the goroutine leaves, and no EOF frame goes out. *)
SendSelect(s) ==
  /\ snd[s] = "select"
  /\ snd' = [snd EXCEPT ![s] = IF Done(s) THEN "done" ELSE "read"]
  /\ quit' = IF Done(s) THEN quit \cup {s} ELSE quit
  /\ UNCHANGED <<opened, conn, appVars, rcvVars, outHand, taken, wire, cancelled, over, broken,
                 faults>>

Least(a, b) == IF a <= b THEN a ELSE b

(* Read returns what there is, up to socketReadChunkSize.                  *)
ReadSocket(s) ==
  LET n == Least(ChunkSize, written[s] - taken[s]) IN
  /\ snd[s] = "read"
  /\ conn[s] = "open" /\ n > 0
  /\ outHand' = [outHand EXCEPT ![s] = [lo |-> taken[s] + 1, hi |-> taken[s] + n]]
  /\ taken' = [taken EXCEPT ![s] = @ + n]
  /\ snd' = [snd EXCEPT ![s] = "send"]
  /\ UNCHANGED <<opened, conn, appVars, rcvVars, quit, wire, cancelled, over, broken, faults>>

(* Bug: the error is returned although there are bytes to return.          *)
ReadFailsEarly(s) ==
  /\ snd[s] = "read"
  /\ conn[s] = "closed" \/ s \in closed
  /\ outHand' = [outHand EXCEPT ![s] = EOF]
  /\ snd' = [snd EXCEPT ![s] = "send"]
  /\ UNCHANGED <<opened, conn, appVars, rcvVars, taken, quit, wire, cancelled, over, broken,
                 faults>>

(* Bug: the goroutine returns without telling the other side.              *)
ReadFailsSilently(s) ==
  /\ snd[s] = "read"
  /\ conn[s] = "closed" \/ (s \in closed /\ taken[s] = written[s])
  /\ snd' = [snd EXCEPT ![s] = "done"]
  /\ UNCHANGED <<opened, conn, appVars, rcvVars, outHand, taken, quit, wire, cancelled, over,
                 broken, faults>>

(* Read fails once the application has closed and its bytes are read, or   *)
(* when the other goroutine has closed the socket.                         *)
ReadFails(s) ==
  /\ snd[s] = "read"
  /\ conn[s] = "closed" \/ (s \in closed /\ taken[s] = written[s])
  /\ outHand' = [outHand EXCEPT ![s] = EOF]
  /\ snd' = [snd EXCEPT ![s] = "send"]
  /\ UNCHANGED <<opened, conn, appVars, rcvVars, taken, quit, wire, cancelled, over, broken,
                 faults>>

(* Bug: frames go out whatever the other side has room for.                *)
SendFrameUnbounded(s) ==
  /\ snd[s] = "send" /\ ~broken
  /\ wire' = [wire EXCEPT ![s] = Append(@, outHand[s])]
  /\ snd' = [snd EXCEPT ![s] = IF outHand[s] = EOF THEN "done" ELSE "select"]
  /\ outHand' = [outHand EXCEPT ![s] = EOF]
  /\ UNCHANGED <<opened, conn, appVars, rcvVars, taken, quit, cancelled, over, broken,
                 faults>>

(* After an EOF frame the goroutine returns nil, and the context goes on.  *)
SendFrame(s) ==
  /\ snd[s] = "send" /\ ~broken
  /\ Len(wire[s]) < Window
  /\ wire' = [wire EXCEPT ![s] = Append(@, outHand[s])]
  /\ snd' = [snd EXCEPT ![s] = IF outHand[s] = EOF THEN "done" ELSE "select"]
  /\ outHand' = [outHand EXCEPT ![s] = EOF]
  /\ UNCHANGED <<opened, conn, appVars, rcvVars, taken, quit, cancelled, over, broken,
                 faults>>

(* Send fails on a broken stream, and for the client when the handler has  *)
(* returned.  CloseSend of the client does not make the server's fail.     *)
SendFails(s) ==
  /\ snd[s] = "send"
  /\ broken \/ (s = "client" /\ "server" \in over)
  /\ snd' = [snd EXCEPT ![s] = "done"]
  /\ outHand' = [outHand EXCEPT ![s] = EOF]
  /\ quit' = quit \cup {s}
  /\ cancelled' = cancelled \cup {s}
  /\ UNCHANGED <<opened, conn, appVars, rcvVars, taken, wire, over, broken,
                 faults>>

(* group.Wait and the rest of StreamData; then the client calls CloseSend, *)
(* and the server's handler returns.                                       *)
Finish(s) ==
  /\ rcv[s] = "done" /\ snd[s] = "done" /\ s \notin over
  /\ over' = over \cup {s}
  /\ conn' = [conn EXCEPT ![s] = "closed"]
  /\ UNCHANGED <<opened, appVars, rcvVars, sndVars, wire, cancelled, broken, faults>>

-----------------------------------------------------------------------------
Application(s) == AppWrite(s) \/ AppRead(s) \/ AppClose(s)

Receiver(s) ==
  RecvSelect(s) \/ RecvFrame(s) \/ RecvFails(s) \/ WriteSocket(s) \/ WriteFails(s)

Sender(s) ==
  SendSelect(s) \/ ReadSocket(s) \/ ReadFails(s) \/ SendFrame(s) \/ SendFails(s)

Next ==
  \/ \E s \in Side : Application(s) \/ Receiver(s) \/ Sender(s) \/ Finish(s)
  \/ Open \/ Dial \/ DialFails \/ Break

Spec == Init /\ [][Next]_vars

(* The goroutines run, the handler dials, and applications read what has   *)
(* arrived.  Nothing makes an application write or close, the network      *)
(* break or a call of TransferData succeed.                                *)
Fairness ==
  /\ \A s \in Side : WF_vars(Receiver(s)) /\ WF_vars(Sender(s)) /\ WF_vars(Finish(s))
  /\ \A s \in Side : WF_vars(AppRead(s))
  /\ WF_vars(Dial \/ DialFails)

FairSpec == Spec /\ Fairness

-----------------------------------------------------------------------------
(* Properties.                                                             *)

(* The connection as the applications see it.  It counts as down when the  *)
(* stream has broken, and when a sender has left without an EOF frame:     *)
(* that happens when the write of a late answer to an application that has *)
(* closed fails while the sender is between two reads, and on the client's *)
(* side when it sends to a server that has finished.  Its receiver then    *)
(* ends too, and frames of the server that are still underway are lost.    *)
P == INSTANCE Pipe WITH hungup <- {s \in Side : conn[s] = "closed"},
                        down <- broken \/ quit # {}

(* StreamData on both sides (transport.go:148-252) implements a local      *)
(* stream socket: bytes arrive once and in order whatever the chunks are,  *)
(* and an application that has not closed is hung up on only after all     *)
(* that the other one wrote before it closed has arrived.                  *)
PipeSpec == P!Spec

(* A sender waits for the window while nobody receives any more ...        *)
Stuck(s) ==
  snd[s] = "send" /\ Len(wire[s]) = Window /\ rcv[Peer(s)] = "done"

(* ... which does not end by itself for the server's, when the client has  *)
(* returned (CloseSend leaves the frames to it unread) or is stuck too.    *)
Clogged == Stuck("server") /\ ("client" \in over \/ Stuck("client"))

(* Once an application has closed, StreamData returns on its side          *)
(* (transport.go:231-252), whatever the other application and the network  *)
(* do, unless frames that nobody receives any more fill the window.        *)
Released == \A s \in Side : (opened /\ s \in closed) ~> (s \in over \/ Clogged)

(* "The end of a socket connection must be forwarded to the remote"        *)
(* (transport.go:14-16): when an application closes, the connection of the *)
(* other one is closed if it has not closed it itself, unless the stream   *)
(* broke or the sender left without an EOF frame.                          *)
CloseReaches ==
  \A s \in Side : (opened /\ s \in closed) ~>
    (conn[Peer(s)] = "closed" \/ Peer(s) \in closed \/ broken \/ s \in quit)
=============================================================================
