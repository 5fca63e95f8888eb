-------------------------------- MODULE Pipe --------------------------------
(***************************************************************************)
(* What a socket proxy promises the two applications it connects: the      *)
(* connection looks like one local stream socket, apart from breaking      *)
(* down.  Bytes arrive in the order they were written, none twice and none *)
(* left out, and a side that has not closed is hung up on only after all   *)
(* the other side wrote before it closed has arrived.                      *)
(***************************************************************************)
EXTENDS Naturals, Sequences

CONSTANT Side

VARIABLES
  written,  \* written[s]: how many bytes the application of s has written
  arrived,  \* arrived[s]: the numbers of the bytes that have reached s
  closed,   \* the sides whose application has closed
  hungup,   \* the sides whose connection the proxy has closed
  down      \* the connection broke down

vars == <<written, arrived, closed, hungup, down>>

Peer(s) == CHOOSE t \in Side : t # s

Init ==
  /\ written = [s \in Side |-> 0]
  /\ arrived = [s \in Side |-> <<>>]
  /\ closed = {} /\ hungup = {}
  /\ down = FALSE

Write(s) ==
  /\ s \notin closed
  /\ written' = [written EXCEPT ![s] = @ + 1]
  /\ UNCHANGED <<arrived, closed, hungup, down>>

(* The next n bytes arrive at s.                                           *)
Arrive(s, n) ==
  /\ s \notin closed \cup hungup
  /\ Len(arrived[s]) + n <= written[Peer(s)]
  /\ arrived' = [arrived EXCEPT ![s] = @ \o [i \in 1 .. n |-> Len(@) + i]]
  /\ UNCHANGED <<written, closed, hungup, down>>

Close(s) ==
  /\ closed' = closed \cup {s}
  /\ UNCHANGED <<written, arrived, hungup, down>>

HangUp(s) ==
  /\ \/ s \in closed
     \/ down
     \/ Peer(s) \in closed /\ Len(arrived[s]) = written[Peer(s)]
  /\ hungup' = hungup \cup {s}
  /\ UNCHANGED <<written, arrived, closed, down>>

BreakDown == down' = TRUE /\ UNCHANGED <<written, arrived, closed, hungup>>

Next ==
  \/ \E s \in Side : Write(s) \/ Close(s) \/ HangUp(s)
  \/ \E s \in Side : \E n \in 1 .. written[Peer(s)] : Arrive(s, n)
  \/ BreakDown

Spec == Init /\ [][Next]_vars
=============================================================================
