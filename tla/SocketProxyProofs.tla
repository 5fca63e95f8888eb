------------------------- MODULE SocketProxyProofs --------------------------
(***************************************************************************)
(* Proofs about SocketProxy: type correctness, and that the two halves of  *)
(* StreamData implement Pipe, for every chunk size, flow control window,   *)
(* capacity of the sockets and number of bytes.                            *)
(*                                                                         *)
(* Both rest on one inductive invariant.  InOrder says that what has been  *)
(* written to a socket, the frame being written, the frames underway and   *)
(* the frame being sent are consecutive pieces of what the other           *)
(* application wrote; the rest says why a sender, a receiver or a socket   *)
(* can have come to its end.                                               *)
(***************************************************************************)
EXTENDS SocketProxy, TLAPS

(* What Pipe counts as the connection being down.                          *)
Down == broken \/ quit # {}

(* The sender of s has returned, or is about to with an EOF frame.         *)
Ended(s) == snd[s] = "done" \/ (snd[s] = "send" /\ outHand[s] = EOF)

(* The last byte that the receiver of s has taken from the wire ...        *)
Reached(s) == IF rcv[s] = "write" THEN inHand[s].hi ELSE Len(arrived[s])

(* ... the last one before frame i of those underway to s ...              *)
Before(s, i) == IF i = 1 THEN Reached(s) ELSE wire[Peer(s)][i - 1].hi

(* ... and the last one that the sender of s has put on the wire.          *)
Sent(s) == IF snd[s] = "send" /\ outHand[s] # EOF THEN outHand[s].lo - 1 ELSE taken[s]

(* The frames underway to s continue what its receiver has taken, up to    *)
(* what the sender of the other side has sent.  An EOF frame follows all   *)
(* that the other side has read.                                           *)
InOrder(s) ==
  LET t == Peer(s) IN
  rcv[s] # "done" =>
    /\ Reached(s) <= taken[t]
    /\ \A i \in 1 .. Len(wire[t]) :
         /\ wire[t][i] = EOF => Before(s, i) = taken[t]
         /\ wire[t][i] # EOF => /\ wire[t][i].lo = Before(s, i) + 1
                                /\ wire[t][i].lo <= wire[t][i].hi
                                /\ wire[t][i].hi <= taken[t]
    /\ snd[t] # "done" => Before(s, Len(wire[t]) + 1) = Sent(t)
    /\ snd[t] = "done" /\ ~Down => wire[t] # <<>> /\ wire[t][Len(wire[t])] = EOF

(* An EOF frame is the last one.                                           *)
EofIsLast(s) ==
  \A i \in 1 .. Len(wire[s]) : wire[s][i] = EOF => i = Len(wire[s]) /\ snd[s] = "done"

(* The frames in the hands of the goroutines.                              *)
HandsOK(s) ==
  /\ rcv[s] = "write" => /\ inHand[s].lo = Len(arrived[s]) + 1
                         /\ inHand[s].lo <= inHand[s].hi
  /\ snd[s] = "send" /\ outHand[s] # EOF => /\ 1 <= outHand[s].lo
                                            /\ outHand[s].lo <= outHand[s].hi
                                            /\ outHand[s].hi = taken[s]

(* Where the goroutines are, for what the connection is.                   *)
Phases(s) ==
  /\ rcv[s] \in {"select", "recv", "write"} => conn[s] = "open"
  /\ ~opened => rcv[s] = "none" /\ snd[s] = "none" /\ conn[s] # "closed"
  /\ conn[s] = "none" => s = "server" /\ rcv[s] = "none" /\ snd[s] = "none"
  /\ s \in over => (rcv[s] = "done" /\ snd[s] = "done") \/ broken
  /\ rcv[s] = "done" => conn[s] = "closed" \/ s \in closed \/ Down
  /\ s \in cancelled => s \in closed \/ Down

(* Why a sender has ended, a socket was closed and an EOF frame was sent.  *)
EndsRightly(s) ==
  LET t == Peer(s) IN
  /\ Ended(s) /\ ~Ended(t) => Down \/ s \in closed
  /\ conn[s] = "closed" /\ snd[s] # "done" => Ended(t)
  /\ \/ snd[s] = "send" /\ outHand[s] = EOF
     \/ \E i \in 1 .. Len(wire[s]) : wire[s][i] = EOF
     => Down \/ t \in closed \/ (s \in closed /\ taken[s] = written[s])
  /\ conn[s] = "closed" =>
       Down \/ s \in closed \/ (t \in closed /\ Len(arrived[s]) = written[t])

(* The inductive invariant.                                                *)
ProxyIInv ==
  /\ TypeOK
  /\ \A s \in Side : InOrder(s) /\ EofIsLast(s) /\ HandsOK(s) /\ Phases(s) /\ EndsRightly(s)

-----------------------------------------------------------------------------
(* The two sides.                                                          *)
LEMMA PeerFacts ==
  ASSUME NEW s \in Side
  PROVE  /\ Peer(s) \in Side /\ Peer(s) # s /\ Peer(Peer(s)) = s
         /\ \A r \in Side : r = s \/ r = Peer(s)
BY DEF Peer, Side

(* What the type invariant says of one side.                               *)
LEMMA SideTypes ==
  ASSUME TypeOK, NEW s \in Side
  PROVE  /\ written[s] \in Nat /\ taken[s] \in Nat /\ unread[s] \in Nat
         /\ wire[s] \in Seq(Frame) /\ Len(wire[s]) \in Nat
         /\ arrived[s] \in Seq(Nat) /\ Len(arrived[s]) \in Nat
         /\ inHand[s] \in Frame /\ outHand[s] \in Frame
         /\ inHand[s].lo \in Nat /\ inHand[s].hi \in Nat
         /\ outHand[s].lo \in Nat /\ outHand[s].hi \in Nat
         /\ \A i \in 1 .. Len(wire[s]) :
              wire[s][i] \in Frame /\ wire[s][i].lo \in Nat /\ wire[s][i].hi \in Nat
         /\ taken[s] <= written[s] /\ Len(arrived[s]) <= taken[Peer(s)]
         /\ Len(wire[s]) <= Window
<1>1. /\ written[s] \in Nat /\ taken[s] \in Nat /\ unread[s] \in Nat
      /\ wire[s] \in Seq(Frame) /\ arrived[s] \in Seq(Nat)
      /\ inHand[s] \in Frame /\ outHand[s] \in Frame
      /\ taken[s] <= written[s] /\ Len(arrived[s]) <= taken[Peer(s)]
      /\ Len(wire[s]) <= Window
  BY DEF TypeOK
<1>2. Len(wire[s]) \in Nat /\ Len(arrived[s]) \in Nat
  BY <1>1
<1>3. \A i \in 1 .. Len(wire[s]) : wire[s][i] \in Frame
  BY <1>1
<1>4. \A f \in Frame : f.lo \in Nat /\ f.hi \in Nat
  BY DEF Frame
<1> QED BY <1>1, <1>2, <1>3, <1>4

(* Taking the first of a sequence.                                         *)
LEMMA TailFacts ==
  ASSUME NEW S, NEW q \in Seq(S), q # <<>>
  PROVE  /\ Len(q) \in Nat /\ Len(Tail(q)) \in Nat /\ Len(q) = Len(Tail(q)) + 1
         /\ Tail(q) \in Seq(S) /\ Head(q) = q[1] /\ q[1] \in S
         /\ \A i \in 1 .. Len(Tail(q)) : Tail(q)[i] = q[i + 1]
         /\ Tail(q) = <<>> => Len(Tail(q)) = 0
<1>1. Len(q) \in Nat /\ Len(q) # 0
  OBVIOUS
<1>2. Tail(q) \in Seq(S) /\ Len(Tail(q)) = Len(q) - 1
      /\ \A i \in 1 .. Len(Tail(q)) : Tail(q)[i] = q[i + 1]
  OBVIOUS
<1>3. Head(q) = q[1]
  OBVIOUS
<1>4. q[1] \in S
  BY <1>1
<1>5. Len(Tail(q)) \in Nat /\ Len(q) = Len(Tail(q)) + 1
  BY <1>1, <1>2
<1>6. Len(<<>>) = 0
  OBVIOUS
<1> QED BY <1>1, <1>2, <1>3, <1>4, <1>5, <1>6, ZenonT(30)

(* ... which moves the others forward by one.                              *)
LEMMA ShiftFacts ==
  ASSUME NEW q, NEW r, Len(q) \in Nat, Len(r) \in Nat, Len(q) = Len(r) + 1,
         \A i \in 1 .. Len(r) : r[i] = q[i + 1], NEW i \in 1 .. Len(r)
  PROVE  /\ i + 1 \in 1 .. Len(q) /\ q[i + 1] = r[i]
         /\ i + 1 = Len(q) => i = Len(r)
OBVIOUS

(* Joining two sequences.                                                  *)
LEMMA ConcatFacts ==
  ASSUME NEW S, NEW q \in Seq(S), NEW r \in Seq(S)
  PROVE  q \o r \in Seq(S) /\ Len(q \o r) = Len(q) + Len(r)
OBVIOUS

(* Adding to the end of a sequence.                                        *)
LEMMA AppendFacts ==
  ASSUME NEW S, NEW q \in Seq(S), NEW x \in S
  PROVE  /\ Append(q, x) \in Seq(S) /\ Append(q, x) # <<>>
         /\ Len(Append(q, x)) = Len(q) + 1
         /\ \A i \in 1 .. Len(q) : Append(q, x)[i] = q[i]
         /\ Append(q, x)[Len(q) + 1] = x
OBVIOUS

(* The bytes of a frame.                                                   *)
LEMMA RunFacts ==
  ASSUME NEW n \in Nat, NEW lo \in Nat \ {0}
  PROVE  /\ [i \in 1 .. n |-> lo + i - 1] \in Seq(Nat)
         /\ Len([i \in 1 .. n |-> lo + i - 1]) = n
OBVIOUS

(* How much a frame that continues the first k bytes of w adds.            *)
LEMMA RunLength ==
  ASSUME NEW lo \in Nat, NEW hi \in Nat, NEW k \in Nat, NEW m \in Nat, NEW w \in Nat,
         lo = k + 1, lo <= hi, hi <= m, m <= w
  PROVE  hi - lo + 1 \in 1 .. w /\ k + (hi - lo + 1) <= w
OBVIOUS

(* The initial state.                                                      *)
LEMMA ProxyInitIInv == Init => ProxyIInv
<1> SUFFICES ASSUME Init PROVE ProxyIInv
  OBVIOUS
<1>1. TypeOK
  <2>1. \A s \in Side : Len(arrived[s]) = 0 /\ Len(wire[s]) = 0
    BY DEF Init
  <2>2. EOF \in Frame
    BY DEF EOF, Frame
  <2>3. opened \in BOOLEAN /\ broken \in BOOLEAN
    BY ZenonT(30) DEF Init
  <2>4. conn \in [Side -> {"none", "open", "closed"}]
    BY DEF Init
  <2>5. /\ arrived \in [Side -> Seq(Nat)] /\ wire \in [Side -> Seq(Frame)]
        /\ inHand \in [Side -> Frame] /\ outHand \in [Side -> Frame]
    BY <2>2 DEF Init
  <2> QED BY <2>1, <2>3, <2>4, <2>5, PeerFacts, ProxyAssumption DEF Init, TypeOK
<1>2. ASSUME NEW s \in Side
      PROVE  InOrder(s) /\ EofIsLast(s) /\ HandsOK(s) /\ Phases(s) /\ EndsRightly(s)
  BY PeerFacts DEF Init, InOrder, EofIsLast, HandsOK, Phases, EndsRightly, Ended, Reached, Before,
     Sent, Down, Side
<1> QED BY <1>1, <1>2 DEF ProxyIInv

-----------------------------------------------------------------------------
(* What each part of the invariant depends on: it is kept by a step that   *)
(* leaves the rest alone.                                                  *)

LEMMA InOrderKept ==
  ASSUME NEW r \in Side, InOrder(r), Down => Down',
         rcv'[r] = rcv[r] \/ rcv'[r] = "done" \/ (rcv[r] # "done" /\ rcv[r] # "write" /\ rcv'[r] # "write"),
         inHand'[r] = inHand[r] \/ rcv'[r] # "write", arrived'[r] = arrived[r],
         wire'[Peer(r)] = wire[Peer(r)], taken'[Peer(r)] = taken[Peer(r)],
         snd'[Peer(r)] = snd[Peer(r)], outHand'[Peer(r)] = outHand[Peer(r)]
  PROVE  InOrder(r)'
BY DEF InOrder, Reached, Before, Sent

LEMMA EofIsLastKept ==
  ASSUME NEW r \in Side, EofIsLast(r), wire'[r] = wire[r],
         snd[r] = "done" => snd'[r] = "done"
  PROVE  EofIsLast(r)'
BY DEF EofIsLast

LEMMA HandsKept ==
  ASSUME NEW r \in Side, HandsOK(r), taken'[r] = taken[r],
         rcv'[r] = "write" => /\ rcv[r] = "write"
                              /\ inHand'[r] = inHand[r] /\ arrived'[r] = arrived[r],
         snd'[r] = "send" => snd[r] = "send" /\ outHand'[r] = outHand[r]
  PROVE  HandsOK(r)'
BY DEF HandsOK

LEMMA PhasesKept ==
  ASSUME NEW r \in Side, Phases(r), Down => Down', broken => broken', opened => opened',
         conn'[r] = conn[r], rcv'[r] = rcv[r], snd'[r] = snd[r],
         r \in closed => r \in closed', r \in over' => r \in over,
         r \in cancelled' => r \in cancelled
  PROVE  Phases(r)'
BY DEF Phases

LEMMA EndsRightlyKept ==
  ASSUME NEW r \in Side, EndsRightly(r), Down => Down', closed \subseteq closed',
         Ended(r)' <=> Ended(r), Ended(Peer(r))' <=> Ended(Peer(r)),
         snd'[r] = snd[r] \/ snd'[r] # "send", outHand'[r] = outHand[r],
         snd[r] = "done" => snd'[r] = "done",
         conn'[r] = conn[r], wire'[r] = wire[r], taken'[r] = taken[r],
         written'[r] = written[r] \/ r \notin closed,
         written'[Peer(r)] = written[Peer(r)] \/ Peer(r) \notin closed,
         arrived'[r] = arrived[r]
  PROVE  EndsRightly(r)'
BY PeerFacts DEF EndsRightly

(* The type invariant in three parts.                                      *)
FlagsOK == opened \in BOOLEAN /\ broken \in BOOLEAN

ShapesOK ==
  /\ conn \in [Side -> {"none", "open", "closed"}]
  /\ closed \subseteq Side /\ cancelled \subseteq Side
  /\ over \subseteq Side /\ quit \subseteq Side
  /\ written \in [Side -> Nat] /\ taken \in [Side -> Nat]
  /\ arrived \in [Side -> Seq(Nat)] /\ unread \in [Side -> Nat]
  /\ wire \in [Side -> Seq(Frame)]
  /\ rcv \in [Side -> {"none", "select", "recv", "write", "done"}]
  /\ snd \in [Side -> {"none", "select", "read", "send", "done"}]
  /\ inHand \in [Side -> Frame] /\ outHand \in [Side -> Frame]
  /\ faults \in Nat

BoundsOK(s) ==
  /\ taken[s] <= written[s]
  /\ Len(arrived[s]) <= taken[Peer(s)]
  /\ Len(wire[s]) <= Window

(* The parts make the type invariant ...                                   *)
LEMMA TypeParts == TypeOK <=> FlagsOK /\ ShapesOK /\ \A s \in Side : BoundsOK(s)
BY Zenon DEF TypeOK, FlagsOK, ShapesOK, BoundsOK

(* ... in the next state too.                                              *)
LEMMA TypePartsNext == TypeOK' <=> (FlagsOK /\ ShapesOK /\ \A s \in Side : BoundsOK(s))'
BY TypeParts, PTL

(* The flags that a step may set.                                          *)
LEMMA FlagsKept ==
  ASSUME FlagsOK, opened' = opened \/ opened' = TRUE, broken' = broken \/ broken' = TRUE
  PROVE  FlagsOK'
BY ZenonT(30) DEF FlagsOK

(* The parts of the inductive invariant for one side.                      *)
SideIInv(s) == InOrder(s) /\ EofIsLast(s) /\ HandsOK(s) /\ Phases(s) /\ EndsRightly(s)

LEMMA IInvParts == ProxyIInv <=> TypeOK /\ \A s \in Side : SideIInv(s)
BY DEF ProxyIInv, SideIInv

LEMMA IInvPartsNext == ProxyIInv' <=> (TypeOK /\ \A s \in Side : SideIInv(s))'
BY IInvParts, PTL

-----------------------------------------------------------------------------
(* The applications.                                                       *)

(* A write of an application keeps the invariant.                          *)
LEMMA AppWriteOK ==
  ASSUME ProxyIInv, NEW s \in Side, AppWrite(s)
  PROVE  ProxyIInv'
<1>1. TypeOK'
  <2>1. FlagsOK'
    BY FlagsKept, IInvParts, TypeParts DEF AppWrite
  <2>2. ShapesOK'
    BY IInvParts, TypeParts, SMTT(30) DEF ShapesOK, AppWrite, rcvVars, sndVars
  <2>3. \A r \in Side : BoundsOK(r)'
    BY IInvParts, TypeParts, SideTypes DEF BoundsOK, ShapesOK, AppWrite, rcvVars, sndVars
  <2> QED BY <2>1, <2>2, <2>3, TypePartsNext
<1>2. ASSUME NEW r \in Side PROVE SideIInv(r)'
  <2>1. SideIInv(r)
    BY IInvParts
  <2>2. /\ UNCHANGED <<opened, conn, closed, rcv, inHand, arrived, snd, outHand, taken, quit,
                       wire, cancelled, over, broken>>
        /\ \A q \in Side : written'[q] = written[q] \/ q \notin closed
    BY IInvParts, TypeParts DEF AppWrite, rcvVars, sndVars, ShapesOK
  <2>3. Down' <=> Down
    BY <2>2 DEF Down
  <2>4. \A q \in Side : Ended(q)' <=> Ended(q)
    BY <2>2 DEF Ended
  <2>5. InOrder(r)' /\ EofIsLast(r)' /\ HandsOK(r)' /\ Phases(r)'
    BY <2>1, <2>2, <2>3, InOrderKept, EofIsLastKept, HandsKept, PhasesKept, Zenon DEF SideIInv
  <2>6. EndsRightly(r)'
    BY <2>1, <2>2, <2>3, <2>4, EndsRightlyKept, PeerFacts, Zenon DEF SideIInv
  <2> QED BY <2>5, <2>6 DEF SideIInv
<1> QED BY <1>1, <1>2, IInvPartsNext

(* A read of an application keeps the invariant.                           *)
LEMMA AppReadOK ==
  ASSUME ProxyIInv, NEW s \in Side, AppRead(s)
  PROVE  ProxyIInv'
<1>0. /\ UNCHANGED <<opened, conn, closed, written, rcv, inHand, arrived, snd, outHand, taken,
                     quit, wire, cancelled, over, broken, faults>>
      /\ unread' = [unread EXCEPT ![s] = @ - 1] /\ unread[s] > 0
  BY DEF AppRead, rcvVars, sndVars
<1>1. TypeOK'
  <2>1. FlagsOK'
    BY <1>0, FlagsKept, IInvParts, TypeParts, Zenon
  <2>2. ShapesOK'
    BY <1>0, IInvParts, TypeParts, SMTT(30) DEF ShapesOK
  <2>3. \A r \in Side : BoundsOK(r)'
    BY <1>0, IInvParts, TypeParts, Zenon DEF BoundsOK
  <2> QED BY <2>1, <2>2, <2>3, TypePartsNext
<1>2. ASSUME NEW r \in Side PROVE SideIInv(r)'
  <2>1. SideIInv(r)
    BY IInvParts
  <2>2. (Down' <=> Down) /\ \A q \in Side : Ended(q)' <=> Ended(q)
    BY <1>0, Zenon DEF Down, Ended
  <2>3. InOrder(r)' /\ EofIsLast(r)' /\ HandsOK(r)' /\ Phases(r)' /\ EndsRightly(r)'
    BY <1>0, <2>1, <2>2, InOrderKept, EofIsLastKept, HandsKept, PhasesKept, EndsRightlyKept,
       PeerFacts, Zenon DEF SideIInv
  <2> QED BY <2>3 DEF SideIInv
<1> QED BY <1>1, <1>2, IInvPartsNext

(* An application closing its end keeps the invariant.                     *)
LEMMA AppCloseOK ==
  ASSUME ProxyIInv, NEW s \in Side, AppClose(s)
  PROVE  ProxyIInv'
<1>0. /\ UNCHANGED <<opened, conn, written, rcv, inHand, arrived, snd, outHand, taken,
                     quit, wire, cancelled, over, broken, faults>>
      /\ closed' = closed \cup {s} /\ unread' = [unread EXCEPT ![s] = 0]
  BY DEF AppClose, rcvVars, sndVars
<1>1. TypeOK'
  <2>1. FlagsOK'
    BY <1>0, FlagsKept, IInvParts, TypeParts, Zenon
  <2>2. ShapesOK'
    BY <1>0, IInvParts, TypeParts DEF ShapesOK
  <2>3. \A r \in Side : BoundsOK(r)'
    BY <1>0, IInvParts, TypeParts, Zenon DEF BoundsOK
  <2> QED BY <2>1, <2>2, <2>3, TypePartsNext
<1>2. ASSUME NEW r \in Side PROVE SideIInv(r)'
  <2>1. SideIInv(r)
    BY IInvParts
  <2>2. (Down' <=> Down) /\ \A q \in Side : Ended(q)' <=> Ended(q)
    BY <1>0, Zenon DEF Down, Ended
  <2>3. InOrder(r)' /\ EofIsLast(r)' /\ HandsOK(r)' /\ Phases(r)' /\ EndsRightly(r)'
    BY <1>0, <2>1, <2>2, InOrderKept, EofIsLastKept, HandsKept, PhasesKept, EndsRightlyKept,
       PeerFacts, Zenon DEF SideIInv
  <2> QED BY <2>3 DEF SideIInv
<1> QED BY <1>1, <1>2, IInvPartsNext

-----------------------------------------------------------------------------
(* Setting up.                                                             *)

(* The call of TransferData keeps the invariant.                           *)
LEMMA OpenOK ==
  ASSUME ProxyIInv, Open
  PROVE  ProxyIInv'
<1>0. /\ UNCHANGED <<conn, closed, written, unread, inHand, arrived, outHand, taken,
                     quit, wire, cancelled, over, broken, faults>>
      /\ opened' = TRUE /\ ~opened
      /\ rcv' = [rcv EXCEPT !["client"] = "select"]
      /\ snd' = [snd EXCEPT !["client"] = "select"]
  BY DEF Open, appVars
<1>1. TypeOK'
  <2>1. FlagsOK'
    BY <1>0, FlagsKept, IInvParts, TypeParts, Zenon
  <2>2. ShapesOK'
    BY <1>0, IInvParts, TypeParts, ZenonT(30) DEF ShapesOK
  <2>3. \A r \in Side : BoundsOK(r)'
    BY <1>0, IInvParts, TypeParts, Zenon DEF BoundsOK
  <2> QED BY <2>1, <2>2, <2>3, TypePartsNext
<1>2. ASSUME NEW r \in Side PROVE SideIInv(r)'
  <2>1. \A q \in Side : /\ rcv[q] = "none" /\ snd[q] = "none"
                        /\ rcv'[q] \in {"none", "select"} /\ snd'[q] \in {"none", "select"}
                        /\ q = "server" => rcv'[q] = "none" /\ snd'[q] = "none"
    BY <1>0, IInvParts, TypeParts DEF SideIInv, Phases, ShapesOK
  <2>2. SideIInv(r) /\ conn[r] \in {"none", "open", "closed"} /\ Peer(r) \in Side
    BY IInvParts, TypeParts, PeerFacts DEF ShapesOK
  <2>3. (Down' <=> Down) /\ \A q \in Side : Ended(q)' <=> Ended(q)
    BY <1>0, <2>1, Zenon DEF Down, Ended
  <2>4. InOrder(r)'
    BY <1>0, <2>1, <2>2, <2>3 DEF SideIInv, InOrder, Reached, Before, Sent
  <2>5. EofIsLast(r)' /\ HandsOK(r)'
    BY <1>0, <2>1, <2>2, EofIsLastKept, HandsKept, Zenon DEF SideIInv
  <2>6. Phases(r)'
    BY <1>0, <2>1, <2>2, <2>3 DEF SideIInv, Phases
  <2>7. EndsRightly(r)'
    BY <1>0, <2>1, <2>2, <2>3 DEF SideIInv, EndsRightly
  <2> QED BY <2>4, <2>5, <2>6, <2>7 DEF SideIInv
<1> QED BY <1>1, <1>2, IInvPartsNext

(* The dial of the handler keeps the invariant.                            *)
LEMMA DialOK ==
  ASSUME ProxyIInv, Dial
  PROVE  ProxyIInv'
<1>0. /\ UNCHANGED <<opened, closed, written, unread, inHand, arrived, outHand, taken,
                     quit, wire, cancelled, over, broken, faults>>
      /\ opened /\ conn["server"] = "none"
      /\ conn' = [conn EXCEPT !["server"] = "open"]
      /\ rcv' = [rcv EXCEPT !["server"] = "select"]
      /\ snd' = [snd EXCEPT !["server"] = "select"]
  BY DEF Dial, appVars
<1>1. TypeOK'
  <2>1. FlagsOK'
    BY <1>0, FlagsKept, IInvParts, TypeParts, Zenon
  <2>2. ShapesOK'
    BY <1>0, IInvParts, TypeParts, ZenonT(30) DEF ShapesOK
  <2>3. \A r \in Side : BoundsOK(r)'
    BY <1>0, IInvParts, TypeParts, Zenon DEF BoundsOK
  <2> QED BY <2>1, <2>2, <2>3, TypePartsNext
<1>2. ASSUME NEW r \in Side PROVE SideIInv(r)'
  <2>1. /\ "server" \in Side
        /\ rcv["server"] = "none" /\ snd["server"] = "none"
        /\ rcv'["server"] = "select" /\ snd'["server"] = "select" /\ conn'["server"] = "open"
        /\ \A q \in Side \ {"server"} : rcv'[q] = rcv[q] /\ snd'[q] = snd[q] /\ conn'[q] = conn[q]
    BY <1>0, IInvParts, TypeParts DEF SideIInv, Phases, ShapesOK, Side
  <2>2. SideIInv(r) /\ Peer(r) \in Side /\ Peer(r) # r
    BY IInvParts, PeerFacts
  <2>3. (Down' <=> Down) /\ \A q \in Side : Ended(q)' <=> Ended(q)
    BY <1>0, <2>1, ZenonT(30) DEF Down, Ended
  <2>4. InOrder(r)'
    BY <1>0, <2>1, <2>2, <2>3 DEF SideIInv, InOrder, Reached, Before, Sent
  <2>5. EofIsLast(r)' /\ HandsOK(r)'
    BY <1>0, <2>1, <2>2, EofIsLastKept, HandsKept, ZenonT(30) DEF SideIInv
  <2>6. Phases(r)'
    BY <1>0, <2>1, <2>2, <2>3 DEF SideIInv, Phases
  <2>7. EndsRightly(r)'
    BY <1>0, <2>1, <2>2, <2>3 DEF SideIInv, EndsRightly
  <2> QED BY <2>4, <2>5, <2>6, <2>7 DEF SideIInv
<1> QED BY <1>1, <1>2, IInvPartsNext

(* A failed dial and a broken connection keep the invariant.               *)
LEMMA BreakOK ==
  ASSUME ProxyIInv, DialFails \/ Break
  PROVE  ProxyIInv'
<1>0. /\ UNCHANGED <<opened, conn, closed, written, unread, rcv, inHand, arrived, snd, outHand,
                     taken, quit, wire, cancelled>>
      /\ broken' = TRUE /\ faults' = faults + 1
      /\ over' = over \/ over' = over \cup {"server"}
  BY DEF DialFails, Break, appVars, rcvVars, sndVars
<1>1. TypeOK'
  <2>1. FlagsOK'
    BY <1>0, FlagsKept, IInvParts, TypeParts, Zenon
  <2>2. ShapesOK'
    BY <1>0, IInvParts, TypeParts, SMTT(30) DEF ShapesOK, Side
  <2>3. \A r \in Side : BoundsOK(r)'
    BY <1>0, IInvParts, TypeParts, Zenon DEF BoundsOK
  <2> QED BY <2>1, <2>2, <2>3, TypePartsNext
<1>2. ASSUME NEW r \in Side PROVE SideIInv(r)'
  <2>1. SideIInv(r)
    BY IInvParts
  <2>2. Down' /\ \A q \in Side : Ended(q)' <=> Ended(q)
    BY <1>0, Zenon DEF Down, Ended
  <2>3. InOrder(r)' /\ EofIsLast(r)' /\ HandsOK(r)' /\ EndsRightly(r)'
    BY <1>0, <2>1, <2>2, InOrderKept, EofIsLastKept, HandsKept, EndsRightlyKept, PeerFacts, Zenon
       DEF SideIInv
  <2>4. Phases(r)'
    BY <1>0, <2>1, <2>2 DEF SideIInv, Phases
  <2> QED BY <2>3, <2>4 DEF SideIInv
<1> QED BY <1>1, <1>2, IInvPartsNext

-----------------------------------------------------------------------------
(* From the stream to the socket.                                          *)

(* The receiver looking at its context keeps the invariant.                *)
LEMMA RecvSelectOK ==
  ASSUME ProxyIInv, NEW s \in Side, RecvSelect(s)
  PROVE  ProxyIInv'
<1>0. /\ UNCHANGED <<opened, conn, closed, written, unread, inHand, arrived, snd, outHand, taken,
                     quit, wire, cancelled, over, broken, faults>>
      /\ rcv[s] = "select"
      /\ rcv' = [rcv EXCEPT ![s] = IF s \in cancelled \/ broken THEN "done" ELSE "recv"]
  BY DEF RecvSelect, appVars, sndVars, Done
<1>1. TypeOK'
  <2>1. FlagsOK'
    BY <1>0, FlagsKept, IInvParts, TypeParts, Zenon
  <2>2. ShapesOK'
    BY <1>0, IInvParts, TypeParts DEF ShapesOK
  <2>3. \A r \in Side : BoundsOK(r)'
    BY <1>0, IInvParts, TypeParts, Zenon DEF BoundsOK
  <2> QED BY <2>1, <2>2, <2>3, TypePartsNext
<1>2. ASSUME NEW r \in Side PROVE SideIInv(r)'
  <2>1. /\ rcv'[s] \in {"recv", "done"}
        /\ rcv'[s] = "done" => s \in cancelled \/ broken
        /\ \A q \in Side \ {s} : rcv'[q] = rcv[q]
    BY <1>0, IInvParts, TypeParts DEF ShapesOK
  <2>2. SideIInv(r) /\ Peer(r) \in Side
    BY IInvParts, PeerFacts
  <2>3. (Down' <=> Down) /\ \A q \in Side : Ended(q)' <=> Ended(q)
    BY <1>0, Zenon DEF Down, Ended
  <2>4. InOrder(r)' /\ EofIsLast(r)' /\ HandsOK(r)' /\ EndsRightly(r)'
    BY <1>0, <2>1, <2>2, <2>3, InOrderKept, EofIsLastKept, HandsKept, EndsRightlyKept, Zenon
       DEF SideIInv
  <2>5. Phases(r)'
    BY <1>0, <2>1, <2>2, <2>3, ZenonT(30) DEF SideIInv, Phases, Down
  <2> QED BY <2>4, <2>5 DEF SideIInv
<1> QED BY <1>1, <1>2, IInvPartsNext

(* A failed receive keeps the invariant: the other side has finished       *)
(* without an EOF frame only if the connection is down.                    *)
LEMMA RecvFailsOK ==
  ASSUME ProxyIInv, NEW s \in Side, RecvFails(s)
  PROVE  ProxyIInv'
<1>0. /\ UNCHANGED <<opened, conn, closed, written, unread, inHand, arrived, snd, outHand, taken,
                     quit, wire, over, broken, faults>>
      /\ rcv[s] = "recv"
      /\ broken \/ (Peer(s) \in over /\ wire[Peer(s)] = <<>>)
      /\ rcv' = [rcv EXCEPT ![s] = "done"] /\ cancelled' = cancelled \cup {s}
  BY DEF RecvFails, appVars, sndVars
<1>1. TypeOK'
  <2>1. FlagsOK'
    BY <1>0, FlagsKept, IInvParts, TypeParts, Zenon
  <2>2. ShapesOK'
    BY <1>0, IInvParts, TypeParts DEF ShapesOK
  <2>3. \A r \in Side : BoundsOK(r)'
    BY <1>0, IInvParts, TypeParts, Zenon DEF BoundsOK
  <2> QED BY <2>1, <2>2, <2>3, TypePartsNext
<1>2. ASSUME NEW r \in Side PROVE SideIInv(r)'
  <2>1. /\ rcv'[s] = "done"
        /\ \A q \in Side \ {s} : rcv'[q] = rcv[q]
    BY <1>0, IInvParts, TypeParts DEF ShapesOK
  <2>2. SideIInv(r) /\ Peer(r) \in Side /\ SideIInv(s) /\ SideIInv(Peer(s))
    BY IInvParts, PeerFacts
  <2>3. (Down' <=> Down) /\ \A q \in Side : Ended(q)' <=> Ended(q)
    BY <1>0, Zenon DEF Down, Ended
  <2>4. InOrder(r)' /\ EofIsLast(r)' /\ HandsOK(r)' /\ EndsRightly(r)'
    BY <1>0, <2>1, <2>2, <2>3, InOrderKept, EofIsLastKept, HandsKept, EndsRightlyKept, ZenonT(30)
       DEF SideIInv
  <2>5. Down
    BY <1>0, <2>2, ZenonT(30) DEF SideIInv, Phases, InOrder, Down
  <2>6. Phases(r)'
    BY <1>0, <2>1, <2>2, <2>3, <2>5 DEF SideIInv, Phases
  <2> QED BY <2>4, <2>6 DEF SideIInv
<1> QED BY <1>1, <1>2, IInvPartsNext

(* A received frame keeps the invariant: the rest of the wire continues    *)
(* it, and an EOF frame closes a socket that has got everything.           *)
LEMMA RecvFrameOK ==
  ASSUME ProxyIInv, NEW s \in Side, RecvFrame(s)
  PROVE  ProxyIInv'
<1> DEFINE t == Peer(s)
           f == Head(wire[t])
<1>0. /\ UNCHANGED <<opened, closed, written, unread, arrived, snd, outHand, taken,
                     quit, cancelled, over, broken, faults>>
      /\ rcv[s] = "recv" /\ wire[t] # <<>>
      /\ inHand' = [inHand EXCEPT ![s] = f]
      /\ rcv' = [rcv EXCEPT ![s] = IF f = EOF THEN "done" ELSE "write"]
      /\ conn' = [conn EXCEPT ![s] = IF f = EOF THEN "closed" ELSE @]
      /\ wire' = [wire EXCEPT ![t] = Tail(@)]
  BY DEF RecvFrame, appVars, sndVars
<1>a. /\ t \in Side /\ t # s /\ Peer(t) = s /\ \A r \in Side : r = s \/ r = t
  BY PeerFacts
<1>b. TypeOK /\ ShapesOK
  BY IInvParts, TypeParts
<1>s. SideIInv(s)
  BY <1>a, IInvParts
<1>s1. InOrder(s)
  BY <1>s, Zenon DEF SideIInv
<1>s2. EofIsLast(s)
  BY <1>s, Zenon DEF SideIInv
<1>s3. HandsOK(s)
  BY <1>s, Zenon DEF SideIInv
<1>s4. Phases(s)
  BY <1>s, Zenon DEF SideIInv
<1>s5. EndsRightly(s)
  BY <1>s, Zenon DEF SideIInv
<1>t. SideIInv(t)
  BY <1>a, IInvParts
<1>t1. InOrder(t)
  BY <1>t, Zenon DEF SideIInv
<1>t2. EofIsLast(t)
  BY <1>t, Zenon DEF SideIInv
<1>t3. HandsOK(t)
  BY <1>t, Zenon DEF SideIInv
<1>t4. Phases(t)
  BY <1>t, Zenon DEF SideIInv
<1>t5. EndsRightly(t)
  BY <1>t, Zenon DEF SideIInv
<1>c. /\ Len(wire[t]) \in Nat /\ Len(Tail(wire[t])) \in Nat
      /\ Len(wire[t]) = Len(Tail(wire[t])) + 1
      /\ Tail(wire[t]) \in Seq(Frame) /\ f \in Frame /\ f = wire[t][1]
      /\ \A i \in 1 .. Len(Tail(wire[t])) : Tail(wire[t])[i] = wire[t][i + 1]
      /\ Tail(wire[t]) = <<>> => Len(Tail(wire[t])) = 0
  <2>1. wire[t] \in Seq(Frame) /\ wire[t] # <<>>
    BY <1>0, <1>a, <1>b, SideTypes, ZenonT(30)
  <2> QED BY <2>1, TailFacts, ZenonT(30)
<1>d. /\ wire'[t] = Tail(wire[t]) /\ wire'[s] = wire[s]
      /\ inHand'[s] = f /\ inHand'[t] = inHand[t]
      /\ rcv'[s] = (IF f = EOF THEN "done" ELSE "write") /\ rcv'[t] = rcv[t]
      /\ conn'[s] = (IF f = EOF THEN "closed" ELSE conn[s]) /\ conn'[t] = conn[t]
  BY <1>0, <1>a, <1>b DEF ShapesOK
<1>e. /\ Len(wire[t]) \in Nat /\ Len(wire'[t]) \in Nat /\ Len(wire[t]) = Len(wire'[t]) + 1
      /\ \A i \in 1 .. Len(wire'[t]) : wire'[t][i] = wire[t][i + 1]
      /\ wire'[t] = <<>> => Len(wire'[t]) = 0
  BY <1>c, <1>d, Zenon
<1>1. TypeOK'
  <2>1. FlagsOK'
    BY <1>0, FlagsKept, IInvParts, TypeParts, Zenon
  <2>2. ShapesOK'
    BY <1>0, <1>b, <1>c, ZenonT(30) DEF ShapesOK
  <2>3. \A r \in Side : BoundsOK(r)'
    <3>1. BoundsOK(s) /\ BoundsOK(t) /\ Window \in Nat
      BY <1>a, <1>b, TypeParts, ProxyAssumption
    <3>2. Len(wire'[t]) <= Window
      BY <1>c, <1>d, <3>1 DEF BoundsOK
    <3> QED BY <1>0, <1>a, <1>d, <3>1, <3>2 DEF BoundsOK
  <2> QED BY <2>1, <2>2, <2>3, TypePartsNext
<1>2. (Down' <=> Down) /\ \A q \in Side : Ended(q)' <=> Ended(q)
  BY <1>0, Zenon DEF Down, Ended
<1>3. SideIInv(s)'
  <2>1. InOrder(s)'
    <3>1. CASE f = EOF
      BY <1>d, <3>1, ZenonT(30) DEF InOrder
    <3>2. CASE f # EOF
      <4>1. /\ Reached(s) = Len(arrived[s]) /\ Reached(s)' = f.hi
            /\ f.hi <= taken[t]
        BY <1>0, <1>s1, <1>c, <1>d, <3>2 DEF Reached, InOrder
      <4>2. \A i \in 1 .. Len(wire[t]) : Before(s, i)' = Before(s, i + 1)
        <5> SUFFICES ASSUME NEW i \in 1 .. Len(wire[t]) PROVE Before(s, i)' = Before(s, i + 1)
          BY ZenonT(30)
        <5>1. CASE i = 1
          BY <5>1, <1>c, <4>1 DEF Before
        <5>2. CASE i # 1
          <6>1. i - 1 \in 1 .. Len(wire'[t]) /\ (i - 1) + 1 = i /\ (i + 1) - 1 = i /\ i + 1 # 1
            BY <5>2, <1>e
          <6>2. wire'[t][i - 1] = wire[t][i]
            BY <6>1, <1>e
          <6> QED BY <5>2, <6>1, <6>2 DEF Before
        <5> QED BY <5>1, <5>2
      <4>5. Sent(t)' = Sent(t)
        BY <1>0, ZenonT(30) DEF Sent
      <4>6. \A i \in 1 .. Len(wire'[t]) :
              /\ wire'[t][i] = EOF => Before(s, i)' = taken'[t]
              /\ wire'[t][i] # EOF => /\ wire'[t][i].lo = Before(s, i)' + 1
                                      /\ wire'[t][i].lo <= wire'[t][i].hi
                                      /\ wire'[t][i].hi <= taken'[t]
        <5> TAKE i \in 1 .. Len(wire'[t])
        <5>1. i + 1 \in 1 .. Len(wire[t]) /\ i \in 1 .. Len(wire[t])
          BY <1>e
        <5>2. wire'[t][i] = wire[t][i + 1] /\ Before(s, i)' = Before(s, i + 1) /\ taken'[t] = taken[t]
          BY <1>0, <1>e, <4>2, <5>1
        <5> QED BY <1>0, <1>s1, <5>1, <5>2 DEF InOrder
      <4>7. snd'[t] # "done" => Before(s, Len(wire[t]) + 1)' = Sent(t)'
        <5>1. snd'[t] # "done" => Before(s, Len(wire[t]) + 1) = Sent(t)'
          BY <1>0, <1>s1, <4>5, ZenonT(30) DEF InOrder
        <5>2. Before(s, Len(wire[t]) + 1) = wire[t][Len(wire[t])].hi
          BY <1>c DEF Before
        <5>3. CASE Len(wire[t]) = 1
          BY <5>1, <5>2, <5>3, <1>c, <1>e, <4>1 DEF Before
        <5>4. CASE Len(wire'[t]) # 0
          <6>1. Before(s, Len(wire[t]) + 1)' = wire'[t][Len(wire'[t])].hi
            BY <5>4, <1>e DEF Before
          <6>2. wire'[t][Len(wire'[t])] = wire[t][Len(wire[t])]
            BY <5>4, <1>e
          <6> QED BY <5>1, <5>2, <6>1, <6>2
        <5> QED BY <5>3, <5>4, <1>e, SMTT(30)
      <4>8. snd'[t] = "done" /\ ~Down' => wire'[t] # <<>> /\ wire'[t][Len(wire'[t])] = EOF
        <5> SUFFICES ASSUME snd'[t] = "done", ~Down' 
                     PROVE  wire'[t] # <<>> /\ wire'[t][Len(wire'[t])] = EOF
          BY ZenonT(30)
        <5>1. wire[t][Len(wire[t])] = EOF
          BY <1>0, <1>2, <1>s1, ZenonT(30) DEF InOrder
        <5>2. Len(wire'[t]) # 0
          BY <5>1, <1>c, <1>e, <3>2
        <5>3. wire'[t][Len(wire'[t])] = wire[t][Len(wire[t])]
          BY <5>2, <1>e, SMTT(30)
        <5> QED BY <5>1, <5>2, <5>3, <1>e
      <4> QED BY <1>0, <4>1, <4>6, <4>7, <4>8, ZenonT(30) DEF InOrder
    <3> QED BY <3>1, <3>2
  <2>2. EofIsLast(s)'
    BY <1>0, <1>s2, <1>d, EofIsLastKept, ZenonT(30)
  <2>3. HandsOK(s)'
    <3>1. f # EOF => f.lo = Len(arrived[s]) + 1 /\ f.lo <= f.hi
      BY <1>0, <1>s1, <1>c DEF InOrder, Before, Reached
    <3> QED BY <1>0, <1>s3, <1>d, <3>1, SMTT(30) DEF HandsOK
  <2>4. Phases(s)'
    BY <1>0, <1>s4, <1>d, <1>2, SMTT(30) DEF Phases
  <2>5. EndsRightly(s)'
    <3>1. f = EOF => Ended(t)
      BY <1>t2, <1>c, SMTT(30) DEF EofIsLast, Ended
    <3>2. f = EOF => Down \/ s \in closed \/ (t \in closed /\ Len(arrived[s]) = written[t])
      <4>1. f = EOF => Down \/ s \in closed \/ (t \in closed /\ taken[t] = written[t])
        BY <1>a, <1>t5, <1>c, SMTT(30) DEF EndsRightly
      <4>2. f = EOF => Len(arrived[s]) = taken[t]
        BY <1>0, <1>s1, <1>c DEF InOrder, Before, Reached
      <4> QED BY <4>1, <4>2
    <3> QED BY <1>0, <1>a, <1>s5, <1>d, <1>2, <3>1, <3>2, ZenonT(30) DEF EndsRightly
  <2> QED BY <2>1, <2>2, <2>3, <2>4, <2>5 DEF SideIInv
<1>4. SideIInv(t)'
  <2>1. InOrder(t)'
    BY <1>0, <1>a, <1>t1, <1>d, <1>2, InOrderKept, ZenonT(30)
  <2>2. EofIsLast(t)'
    <3> SUFFICES ASSUME NEW i \in 1 .. Len(wire'[t]), wire'[t][i] = EOF
                 PROVE  i = Len(wire'[t]) /\ snd'[t] = "done"
      BY ZenonT(30) DEF EofIsLast
    <3>1. i + 1 \in 1 .. Len(wire[t]) /\ wire[t][i + 1] = EOF
      BY <1>e, ShiftFacts, ZenonT(30)
    <3>2. i + 1 = Len(wire[t]) /\ snd[t] = "done"
      BY <3>1, <1>t2 DEF EofIsLast
    <3>3. i = Len(wire'[t])
      BY <3>2, <1>e, ShiftFacts, ZenonT(30)
    <3> QED BY <1>0, <3>2, <3>3, Zenon
  <2>3. HandsOK(t)' /\ Phases(t)'
    BY <1>0, <1>a, <1>t3, <1>t4, <1>d, <1>2, HandsKept, PhasesKept, Zenon
  <2>4. EndsRightly(t)'
    <3>1. ASSUME NEW i \in 1 .. Len(wire'[t]), wire'[t][i] = EOF
          PROVE  \E j \in 1 .. Len(wire[t]) : wire[t][j] = EOF
      <4>1. i + 1 \in 1 .. Len(wire[t]) /\ wire[t][i + 1] = EOF
        BY <3>1, <1>e, ShiftFacts, ZenonT(30)
      <4> QED BY <4>1, Zenon
    <3> QED BY <1>0, <1>a, <1>t5, <1>d, <1>2, <3>1, ZenonT(30) DEF EndsRightly
  <2> QED BY <2>1, <2>2, <2>3, <2>4 DEF SideIInv
<1> QED BY <1>a, <1>1, <1>3, <1>4, IInvPartsNext

(* Writing a frame to the socket keeps the invariant: it continues what    *)
(* has arrived.                                                            *)
LEMMA WriteSocketOK ==
  ASSUME ProxyIInv, NEW s \in Side, WriteSocket(s)
  PROVE  ProxyIInv'
<1> DEFINE t == Peer(s)
           f == inHand[s]
           n == f.hi - f.lo + 1
<1>0. /\ UNCHANGED <<opened, conn, closed, written, snd, outHand, taken, quit, wire,
                     cancelled, over, broken, faults>>
      /\ rcv[s] = "write"
      /\ arrived' = [arrived EXCEPT ![s] = @ \o [i \in 1 .. n |-> f.lo + i - 1]]
      /\ unread' = [unread EXCEPT ![s] = @ + n]
      /\ rcv' = [rcv EXCEPT ![s] = "select"]
      /\ inHand' = [inHand EXCEPT ![s] = EOF]
  BY DEF WriteSocket, sndVars
<1>a. t \in Side /\ t # s /\ Peer(t) = s /\ \A r \in Side : r = s \/ r = t
  BY PeerFacts
<1>b. TypeOK /\ ShapesOK
  BY IInvParts, TypeParts
<1>s. SideIInv(s)
  BY <1>a, IInvParts
<1>s1. InOrder(s)
  BY <1>s, Zenon DEF SideIInv
<1>s2. EofIsLast(s)
  BY <1>s, Zenon DEF SideIInv
<1>s3. HandsOK(s)
  BY <1>s, Zenon DEF SideIInv
<1>s4. Phases(s)
  BY <1>s, Zenon DEF SideIInv
<1>s5. EndsRightly(s)
  BY <1>s, Zenon DEF SideIInv
<1>t. SideIInv(t)
  BY <1>a, IInvParts, ZenonT(30)
<1>t1. InOrder(t)
  BY <1>t, Zenon DEF SideIInv
<1>t2. EofIsLast(t)
  BY <1>t, Zenon DEF SideIInv
<1>t3. HandsOK(t)
  BY <1>t, Zenon DEF SideIInv
<1>t4. Phases(t)
  BY <1>t, Zenon DEF SideIInv
<1>t5. EndsRightly(t)
  BY <1>t, Zenon DEF SideIInv
<1>c. /\ f.lo \in Nat /\ f.hi \in Nat /\ Len(arrived[s]) \in Nat
      /\ f.lo = Len(arrived[s]) + 1 /\ f.lo <= f.hi /\ f.hi <= taken[t]
  BY <1>0, <1>a, <1>b, <1>s1, <1>s3, SideTypes DEF HandsOK, InOrder, Reached
<1>d. /\ arrived'[s] \in Seq(Nat) /\ Len(arrived'[s]) = f.hi
      /\ arrived'[t] = arrived[t] /\ arrived' \in [Side -> Seq(Nat)]
  <2>1. n \in Nat /\ f.lo \in Nat \ {0} /\ Len(arrived[s]) + n = f.hi
    BY <1>c
  <2>2. /\ [i \in 1 .. n |-> f.lo + i - 1] \in Seq(Nat)
        /\ Len([i \in 1 .. n |-> f.lo + i - 1]) = n
    BY <2>1, RunFacts, ZenonT(30)
  <2> DEFINE bytes == [i \in 1 .. n |-> f.lo + i - 1]
  <2> HIDE DEF bytes, n
  <2>3. arrived' = [arrived EXCEPT ![s] = @ \o bytes]
    BY <1>0 DEF bytes, n
  <2>4. bytes \in Seq(Nat) /\ Len(bytes) = n
    BY <2>2, ZenonT(30) DEF bytes
  <2>5. arrived[s] \in Seq(Nat) /\ arrived \in [Side -> Seq(Nat)]
    BY <1>b DEF ShapesOK
  <2>6. arrived[s] \o bytes \in Seq(Nat) /\ Len(arrived[s] \o bytes) = Len(arrived[s]) + Len(bytes)
    BY <2>4, <2>5, ConcatFacts, ZenonT(30)
  <2> QED BY <1>a, <2>1, <2>3, <2>4, <2>5, <2>6
<1>e. /\ rcv'[s] = "select" /\ rcv'[t] = rcv[t] /\ inHand'[s] = EOF /\ inHand'[t] = inHand[t]
  BY <1>0, <1>a, <1>b DEF ShapesOK
<1>1. TypeOK'
  <2>1. FlagsOK'
    BY <1>0, FlagsKept, IInvParts, TypeParts, Zenon
  <2>2. ShapesOK'
    <3>1. n \in Nat /\ EOF \in Frame
      BY <1>c DEF EOF, Frame
    <3> HIDE DEF n
    <3>2. unread' \in [Side -> Nat]
      BY <1>0, <1>b, <3>1 DEF ShapesOK
    <3>3. inHand' \in [Side -> Frame] /\ rcv' \in [Side -> {"none", "select", "recv", "write", "done"}]
      BY <1>0, <1>b, <3>1, ZenonT(30) DEF ShapesOK
    <3> QED BY <1>0, <1>b, <1>d, <3>2, <3>3, Zenon DEF ShapesOK
  <2>3. \A r \in Side : BoundsOK(r)'
    <3>1. BoundsOK(s) /\ BoundsOK(t)
      BY <1>a, <1>b, TypeParts
    <3> QED BY <1>0, <1>a, <1>c, <1>d, <3>1, ZenonT(30) DEF BoundsOK
  <2> QED BY <2>1, <2>2, <2>3, TypePartsNext
<1>2. (Down' <=> Down) /\ \A q \in Side : Ended(q)' <=> Ended(q)
  BY <1>0, Zenon DEF Down, Ended
<1>3. SideIInv(s)'
  <2>1. InOrder(s)'
    <3>1. Reached(s)' = Reached(s)
      BY <1>0, <1>d, <1>e, ZenonT(30) DEF Reached
    <3>2. \A i : Before(s, i)' = Before(s, i)
      BY <1>0, <3>1 DEF Before
    <3>3. Before(s, Len(wire[t]) + 1)' = Before(s, Len(wire[t]) + 1) /\ Sent(t)' = Sent(t)
      BY <1>0, <3>1 DEF Before, Sent
    <3> QED BY <1>0, <1>s1, <1>2, <1>e, <3>1, <3>2, <3>3, ZenonT(30) DEF InOrder
  <2>2. EofIsLast(s)' /\ HandsOK(s)'
    BY <1>0, <1>s2, <1>s3, <1>e, EofIsLastKept, HandsKept, Zenon
  <2>3. Phases(s)' /\ conn[s] = "open"
    <3>1. conn[s] = "open"
      BY <1>0, <1>s4 DEF Phases
    <3> QED BY <1>0, <1>s4, <1>2, <1>e, <3>1, ZenonT(30) DEF Phases
  <2>4. EndsRightly(s)'
    BY <1>0, <1>a, <1>s5, <1>2, <2>3 DEF EndsRightly
  <2> QED BY <2>1, <2>2, <2>3, <2>4 DEF SideIInv
<1>4. SideIInv(t)'
  BY <1>0, <1>a, <1>t1, <1>t2, <1>t3, <1>t4, <1>t5, <1>d, <1>e, <1>2, InOrderKept, EofIsLastKept,
     HandsKept, PhasesKept, EndsRightlyKept, Zenon DEF SideIInv
<1> QED BY <1>a, <1>1, <1>3, <1>4, IInvPartsNext

(* A failed write keeps the invariant: the application has closed.         *)
LEMMA WriteFailsOK ==
  ASSUME ProxyIInv, NEW s \in Side, WriteFails(s)
  PROVE  ProxyIInv'
<1>0. /\ UNCHANGED <<opened, conn, closed, written, unread, arrived, snd, outHand, taken,
                     quit, wire, over, broken, faults>>
      /\ rcv[s] = "write" /\ s \in closed
      /\ rcv' = [rcv EXCEPT ![s] = "done"] /\ cancelled' = cancelled \cup {s}
      /\ inHand' = [inHand EXCEPT ![s] = EOF]
  BY DEF WriteFails, appVars, sndVars
<1>1. TypeOK'
  <2>1. FlagsOK'
    BY <1>0, FlagsKept, IInvParts, TypeParts, Zenon
  <2>2. ShapesOK'
    <3>1. EOF \in Frame
      BY DEF EOF, Frame
    <3> QED BY <1>0, <3>1, IInvParts, TypeParts DEF ShapesOK
  <2>3. \A r \in Side : BoundsOK(r)'
    BY <1>0, IInvParts, TypeParts, Zenon DEF BoundsOK
  <2> QED BY <2>1, <2>2, <2>3, TypePartsNext
<1>2. ASSUME NEW r \in Side PROVE SideIInv(r)'
  <2>1. /\ rcv'[s] = "done"
        /\ \A q \in Side \ {s} : rcv'[q] = rcv[q] /\ inHand'[q] = inHand[q]
    BY <1>0, IInvParts, TypeParts DEF ShapesOK
  <2>2. SideIInv(r) /\ Peer(r) \in Side
    BY IInvParts, PeerFacts
  <2>3. (Down' <=> Down) /\ \A q \in Side : Ended(q)' <=> Ended(q)
    BY <1>0, Zenon DEF Down, Ended
  <2>4. InOrder(r)' /\ EofIsLast(r)' /\ HandsOK(r)' /\ EndsRightly(r)'
    BY <1>0, <2>1, <2>2, <2>3, InOrderKept, EofIsLastKept, HandsKept, EndsRightlyKept,
       Zenon DEF SideIInv
  <2>5. Phases(r)'
    BY <1>0, <2>1, <2>2, <2>3 DEF SideIInv, Phases
  <2> QED BY <2>4, <2>5 DEF SideIInv
<1> QED BY <1>1, <1>2, IInvPartsNext

-----------------------------------------------------------------------------
(* From the socket to the stream.                                          *)

(* The sender looking at its context, and a failed send, keep the          *)
(* invariant: a sender that leaves here takes the connection down.         *)
LEMMA SenderLeavesOK ==
  ASSUME ProxyIInv, NEW s \in Side, SendSelect(s) \/ SendFails(s)
  PROVE  ProxyIInv'
<1> DEFINE t == Peer(s)
<1>0. /\ UNCHANGED <<opened, conn, closed, written, unread, rcv, inHand, arrived, taken,
                     wire, over, broken, faults>>
      /\ \/ /\ snd[s] = "select" /\ snd' = [snd EXCEPT ![s] = "read"]
            /\ UNCHANGED <<quit, outHand, cancelled>>
         \/ /\ snd[s] = "select" /\ snd' = [snd EXCEPT ![s] = "done"]
            /\ quit' = quit \cup {s} /\ UNCHANGED <<outHand, cancelled>>
         \/ /\ snd[s] = "send" /\ snd' = [snd EXCEPT ![s] = "done"]
            /\ quit' = quit \cup {s} /\ outHand' = [outHand EXCEPT ![s] = EOF]
            /\ cancelled' = cancelled \cup {s}
  BY DEF SendSelect, SendFails, appVars, rcvVars
<1>a. t \in Side /\ t # s /\ Peer(t) = s /\ \A r \in Side : r = s \/ r = t
  BY PeerFacts
<1>b. TypeOK /\ ShapesOK
  BY IInvParts, TypeParts
<1>s. SideIInv(s)
  BY <1>a, IInvParts
<1>s1. InOrder(s)
  BY <1>s, Zenon DEF SideIInv
<1>s2. EofIsLast(s)
  BY <1>s, Zenon DEF SideIInv
<1>s3. HandsOK(s)
  BY <1>s, Zenon DEF SideIInv
<1>s4. Phases(s)
  BY <1>s, Zenon DEF SideIInv
<1>s5. EndsRightly(s)
  BY <1>s, Zenon DEF SideIInv
<1>t. SideIInv(t)
  BY <1>a, IInvParts
<1>t1. InOrder(t)
  BY <1>t, Zenon DEF SideIInv
<1>t2. EofIsLast(t)
  BY <1>t, Zenon DEF SideIInv
<1>t3. HandsOK(t)
  BY <1>t, Zenon DEF SideIInv
<1>t4. Phases(t)
  BY <1>t, Zenon DEF SideIInv
<1>t5. EndsRightly(t)
  BY <1>t, Zenon DEF SideIInv
<1>c. /\ snd'[t] = snd[t] /\ outHand'[t] = outHand[t] /\ (t \in cancelled' <=> t \in cancelled)
      /\ \/ snd[s] = "select" /\ snd'[s] = "read" /\ UNCHANGED <<quit, outHand, cancelled>>
         \/ snd[s] \in {"select", "send"} /\ snd'[s] = "done" /\ s \in quit'
  BY <1>0, <1>a, <1>b DEF ShapesOK
<1>1. TypeOK'
  <2>1. FlagsOK'
    BY <1>0, FlagsKept, IInvParts, TypeParts, Zenon
  <2>2. ShapesOK'
    <3>1. EOF \in Frame
      BY DEF EOF, Frame
    <3>2. snd' \in [Side -> {"none", "select", "read", "send", "done"}]
      BY <1>0, <1>b, ZenonT(30) DEF ShapesOK
    <3>3. outHand' \in [Side -> Frame]
      BY <1>0, <1>b, <3>1, ZenonT(30) DEF ShapesOK
    <3>4. quit' \subseteq Side /\ cancelled' \subseteq Side
      BY <1>0, <1>b DEF ShapesOK
    <3> QED BY <1>0, <1>b, <3>2, <3>3, <3>4, Zenon DEF ShapesOK
  <2>3. \A r \in Side : BoundsOK(r)'
    BY <1>0, IInvParts, TypeParts, Zenon DEF BoundsOK
  <2> QED BY <2>1, <2>2, <2>3, TypePartsNext
<1>2. CASE snd'[s] = "done"
  <2>1. Down' /\ s \in quit' /\ Ended(s)' /\ (Ended(t)' <=> Ended(t))
    BY <1>0, <1>c, <1>2, Zenon DEF Down, Ended
  <2>2. SideIInv(s)'
    <3>1. InOrder(s)' /\ EofIsLast(s)'
      BY <1>0, <1>s1, <1>s2, <1>c, <1>2, <2>1, InOrderKept, EofIsLastKept, Zenon
    <3>2. HandsOK(s)'
      BY <1>0, <1>s3, <1>2 DEF HandsOK
    <3>3. Phases(s)'
      BY <1>0, <1>s4, <1>c, <1>2, <2>1, ZenonT(30) DEF Phases
    <3>4. EndsRightly(s)'
      BY <1>2, <2>1, ZenonT(30) DEF EndsRightly
    <3> QED BY <3>1, <3>2, <3>3, <3>4 DEF SideIInv
  <2>3. SideIInv(t)'
    <3>1. InOrder(t)'
      <4>1. Reached(t)' = Reached(t) /\ \A i : Before(t, i)' = Before(t, i)
        BY <1>0, ZenonT(30) DEF Reached, Before
      <4> QED BY <1>0, <1>a, <1>t1, <1>2, <2>1, <4>1, ZenonT(30) DEF InOrder
    <3>2. EofIsLast(t)' /\ HandsOK(t)'
      BY <1>0, <1>a, <1>t2, <1>t3, <1>c, EofIsLastKept, HandsKept, ZenonT(30)
    <3>3. Phases(t)'
      BY <1>0, <1>t4, <1>c, <2>1, ZenonT(30) DEF Phases
    <3>4. EndsRightly(t)'
      BY <1>a, <2>1, ZenonT(30) DEF EndsRightly
    <3> QED BY <3>1, <3>2, <3>3, <3>4, ZenonT(30) DEF SideIInv
  <2> QED BY <1>a, <1>1, <2>2, <2>3, IInvPartsNext
<1>3. CASE snd'[s] # "done"
  <2>1. snd[s] = "select" /\ snd'[s] = "read" /\ UNCHANGED <<quit, outHand, cancelled>>
    BY <1>c, <1>3
  <2>2. (Down' <=> Down) /\ \A q \in Side : Ended(q)' <=> Ended(q)
    BY <1>0, <1>a, <1>c, <2>1, Zenon DEF Down, Ended
  <2>3. SideIInv(s)'
    <3>1. InOrder(s)' /\ EofIsLast(s)' /\ HandsOK(s)'
      BY <1>0, <1>s1, <1>s2, <1>s3, <1>c, <2>1, <2>2, InOrderKept, EofIsLastKept, HandsKept, ZenonT(30)
    <3>2. Phases(s)'
      BY <1>0, <1>s4, <2>1, <2>2 DEF Phases
    <3>3. EndsRightly(s)'
      BY <1>0, <1>a, <1>s5, <2>1, <2>2, EndsRightlyKept, Zenon
    <3> QED BY <3>1, <3>2, <3>3 DEF SideIInv
  <2>4. SideIInv(t)'
    <3>1. InOrder(t)'
      <4>1. Reached(t)' = Reached(t) /\ \A i : Before(t, i)' = Before(t, i)
        BY <1>0, ZenonT(30) DEF Reached, Before
      <4>2. Before(t, Len(wire[s]) + 1)' = Before(t, Len(wire[s]) + 1) /\ Sent(s)' = Sent(s)
        BY <1>0, <2>1 DEF Reached, Before, Sent
      <4> QED BY <1>0, <1>a, <1>t1, <2>1, <2>2, <4>1, <4>2, ZenonT(30) DEF InOrder
    <3>2. EofIsLast(t)' /\ HandsOK(t)' /\ Phases(t)' /\ EndsRightly(t)'
      BY <1>0, <1>a, <1>t2, <1>t3, <1>t4, <1>t5, <1>c, <2>1, <2>2, EofIsLastKept, HandsKept,
         PhasesKept, EndsRightlyKept, Zenon
    <3> QED BY <3>1, <3>2, ZenonT(30) DEF SideIInv
  <2> QED BY <1>a, <1>1, <2>3, <2>4, IInvPartsNext
<1> QED BY <1>2, <1>3

(* A failed read keeps the invariant: the application of this side has     *)
(* closed with all its bytes read, or an EOF frame of the other side has   *)
(* closed the socket, and then it is the other one that ended first.       *)
LEMMA ReadFailsOK ==
  ASSUME ProxyIInv, NEW s \in Side, ReadFails(s)
  PROVE  ProxyIInv'
<1> DEFINE t == Peer(s)
<1>0. /\ UNCHANGED <<opened, conn, closed, written, unread, rcv, inHand, arrived, taken,
                     quit, wire, cancelled, over, broken, faults>>
      /\ snd[s] = "read"
      /\ conn[s] = "closed" \/ (s \in closed /\ taken[s] = written[s])
      /\ snd' = [snd EXCEPT ![s] = "send"] /\ outHand' = [outHand EXCEPT ![s] = EOF]
  BY ZenonT(30) DEF ReadFails, appVars, rcvVars
<1>a. t \in Side /\ t # s /\ Peer(t) = s /\ \A r \in Side : r = s \/ r = t
  BY PeerFacts
<1>b. TypeOK /\ ShapesOK
  BY IInvParts, TypeParts
<1>s. SideIInv(s)
  BY <1>a, IInvParts
<1>s1. InOrder(s)
  BY <1>s, Zenon DEF SideIInv
<1>s2. EofIsLast(s)
  BY <1>s, Zenon DEF SideIInv
<1>s3. HandsOK(s)
  BY <1>s, Zenon DEF SideIInv
<1>s4. Phases(s)
  BY <1>s, Zenon DEF SideIInv
<1>s5. EndsRightly(s)
  BY <1>s, Zenon DEF SideIInv
<1>t. SideIInv(t)
  BY <1>a, IInvParts
<1>t1. InOrder(t)
  BY <1>t, Zenon DEF SideIInv
<1>t2. EofIsLast(t)
  BY <1>t, Zenon DEF SideIInv
<1>t3. HandsOK(t)
  BY <1>t, Zenon DEF SideIInv
<1>t4. Phases(t)
  BY <1>t, Zenon DEF SideIInv
<1>t5. EndsRightly(t)
  BY <1>t, Zenon DEF SideIInv
<1>c. /\ snd'[t] = snd[t] /\ outHand'[t] = outHand[t]
      /\ snd'[s] = "send" /\ outHand'[s] = EOF
  BY <1>0, <1>a, <1>b DEF ShapesOK
<1>1. TypeOK'
  <2>1. FlagsOK'
    BY <1>0, FlagsKept, IInvParts, TypeParts, ZenonT(30)
  <2>2. ShapesOK'
    <3>1. EOF \in Frame
      BY DEF EOF, Frame
    <3> QED BY <1>0, <1>b, <3>1 DEF ShapesOK
  <2>3. \A r \in Side : BoundsOK(r)'
    BY <1>0, IInvParts, TypeParts, Zenon DEF BoundsOK
  <2> QED BY <2>1, <2>2, <2>3, TypePartsNext
<1>2. (Down' <=> Down) /\ ~Ended(s) /\ Ended(s)' /\ (Ended(t)' <=> Ended(t))
  BY <1>0, <1>c, Zenon DEF Down, Ended
<1>3. SideIInv(s)'
  <2>1. InOrder(s)' /\ EofIsLast(s)'
    BY <1>0, <1>s1, <1>s2, <1>c, <1>2, InOrderKept, EofIsLastKept, ZenonT(30)
  <2>2. HandsOK(s)' /\ Phases(s)'
    BY <1>0, <1>s3, <1>s4, <1>c, <1>2, ZenonT(30) DEF HandsOK, Phases
  <2>3. EndsRightly(s)'
    <3>1. ~Ended(t) => s \in closed
      BY <1>0, <1>s5, ZenonT(30) DEF EndsRightly
    <3>2. Down \/ t \in closed \/ (s \in closed /\ taken[s] = written[s])
      BY <1>0, <1>a, <1>s5, <1>t5, <1>2, ZenonT(30) DEF EndsRightly
    <3> QED BY <1>0, <1>s5, <1>c, <1>2, <3>1, <3>2, ZenonT(30) DEF EndsRightly
  <2> QED BY <2>1, <2>2, <2>3 DEF SideIInv
<1>4. SideIInv(t)'
  <2>1. InOrder(t)'
    <3>1. Reached(t)' = Reached(t) /\ \A i : Before(t, i)' = Before(t, i)
      BY <1>0 DEF Reached, Before
    <3>2. Before(t, Len(wire[s]) + 1)' = Before(t, Len(wire[s]) + 1) /\ Sent(s)' = Sent(s)
      BY <1>0, <1>c DEF Reached, Before, Sent
    <3> QED BY <1>0, <1>a, <1>t1, <1>c, <1>2, <3>1, <3>2, ZenonT(30) DEF InOrder
  <2>2. EofIsLast(t)' /\ HandsOK(t)' /\ Phases(t)'
    BY <1>0, <1>a, <1>t2, <1>t3, <1>t4, <1>c, <1>2, EofIsLastKept, HandsKept, PhasesKept, ZenonT(30)
  <2>3. EndsRightly(t)'
    BY <1>0, <1>a, <1>t5, <1>c, <1>2, ZenonT(30) DEF EndsRightly
  <2> QED BY <2>1, <2>2, <2>3, ZenonT(30) DEF SideIInv
<1> QED BY <1>a, <1>1, <1>3, <1>4, IInvPartsNext

(* A read from the socket keeps the invariant: the frame continues what    *)
(* was read before.                                                        *)
LEMMA ReadSocketOK ==
  ASSUME ProxyIInv, NEW s \in Side, ReadSocket(s)
  PROVE  ProxyIInv'
<1> DEFINE t == Peer(s)
           n == Least(ChunkSize, written[s] - taken[s])
           f == [lo |-> taken[s] + 1, hi |-> taken[s] + n]
<1>0. /\ UNCHANGED <<opened, conn, closed, written, unread, rcv, inHand, arrived,
                     quit, wire, cancelled, over, broken, faults>>
      /\ snd[s] = "read" /\ conn[s] = "open" /\ n > 0
      /\ outHand' = [outHand EXCEPT ![s] = f]
      /\ taken' = [taken EXCEPT ![s] = @ + n]
      /\ snd' = [snd EXCEPT ![s] = "send"]
  BY ZenonT(30) DEF ReadSocket, appVars, rcvVars
<1>a. t \in Side /\ t # s /\ Peer(t) = s /\ \A r \in Side : r = s \/ r = t
  BY PeerFacts
<1>b. TypeOK /\ ShapesOK
  BY IInvParts, TypeParts
<1>s. SideIInv(s)
  BY <1>a, IInvParts
<1>s1. InOrder(s)
  BY <1>s, Zenon DEF SideIInv
<1>s2. EofIsLast(s)
  BY <1>s, Zenon DEF SideIInv
<1>s3. HandsOK(s)
  BY <1>s, Zenon DEF SideIInv
<1>s4. Phases(s)
  BY <1>s, Zenon DEF SideIInv
<1>s5. EndsRightly(s)
  BY <1>s, Zenon DEF SideIInv
<1>t. SideIInv(t)
  BY <1>a, IInvParts
<1>t1. InOrder(t)
  BY <1>t, Zenon DEF SideIInv
<1>t2. EofIsLast(t)
  BY <1>t, Zenon DEF SideIInv
<1>t3. HandsOK(t)
  BY <1>t, Zenon DEF SideIInv
<1>t4. Phases(t)
  BY <1>t, Zenon DEF SideIInv
<1>t5. EndsRightly(t)
  BY <1>t, Zenon DEF SideIInv
<1>c. /\ taken[s] \in Nat /\ n \in Nat /\ n > 0 /\ taken[s] + n <= written[s]
      /\ f \in Frame /\ f.lo = taken[s] + 1 /\ f.hi = taken[s] + n /\ f # EOF
  <2>1. taken[s] \in Nat /\ written[s] \in Nat /\ taken[s] <= written[s] /\ ChunkSize \in Nat
    BY <1>b, SideTypes, ProxyAssumption, ZenonT(30)
  <2>2. n \in Nat /\ taken[s] + n <= written[s] /\ n > 0
    BY <2>1, <1>0 DEF Least
  <2> HIDE DEF n
  <2> QED BY <2>1, <2>2, SMTT(30) DEF Frame, EOF
<1> HIDE DEF n, f
<1>d. /\ snd'[t] = snd[t] /\ outHand'[t] = outHand[t] /\ taken'[t] = taken[t]
      /\ snd'[s] = "send" /\ outHand'[s] = f /\ taken'[s] = taken[s] + n
  BY <1>0, <1>a, <1>b, ZenonT(30) DEF ShapesOK
<1>e. taken'[s] \in Nat /\ taken[s] <= taken'[s] /\ f.hi = taken'[s] /\ f.lo <= f.hi
  BY <1>c, <1>d, SMTT(30)
<1>1. TypeOK'
  <2>1. FlagsOK'
    BY <1>0, FlagsKept, IInvParts, TypeParts, Zenon
  <2>2. ShapesOK'
    <3>1. taken' \in [Side -> Nat] /\ outHand' \in [Side -> Frame]
      <4>1. /\ taken' = [taken EXCEPT ![s] = @ + n] /\ outHand' = [outHand EXCEPT ![s] = f]
            /\ taken \in [Side -> Nat] /\ outHand \in [Side -> Frame]
        BY <1>0, <1>b, Zenon DEF ShapesOK
      <4>2. f \in Frame /\ n \in Nat
        BY <1>c, Zenon
      <4> QED BY <4>1, <4>2
    <3>2. snd' \in [Side -> {"none", "select", "read", "send", "done"}]
      BY <1>0, <1>b DEF ShapesOK
    <3> QED BY <1>0, <1>b, <3>1, <3>2, Zenon DEF ShapesOK
  <2>3. \A r \in Side : BoundsOK(r)'
    <3>1. BoundsOK(s) /\ BoundsOK(t) /\ Len(arrived[t]) \in Nat
      BY <1>a, <1>b, TypeParts, SideTypes
    <3> QED BY <1>0, <1>a, <1>c, <1>d, <1>e, <3>1, SMTT(30) DEF BoundsOK
  <2> QED BY <2>1, <2>2, <2>3, TypePartsNext
<1>2. (Down' <=> Down) /\ \A q \in Side : Ended(q)' <=> Ended(q)
  BY <1>0, <1>a, <1>c, <1>d, ZenonT(30) DEF Down, Ended
<1>3. \A i \in 1 .. Len(wire[s]) : wire[s][i] # EOF
  BY <1>0, <1>s2 DEF EofIsLast
<1>4. SideIInv(s)'
  <2>1. InOrder(s)' /\ EofIsLast(s)'
    BY <1>0, <1>s1, <1>s2, <1>d, <1>2, InOrderKept, EofIsLastKept, ZenonT(30)
  <2>2. HandsOK(s)'
    BY <1>0, <1>s3, <1>c, <1>d, <1>e DEF HandsOK
  <2>3. Phases(s)'
    BY <1>0, <1>s4, <1>d, <1>2, ZenonT(30) DEF Phases
  <2>4. EndsRightly(s)'
    BY <1>0, <1>a, <1>s5, <1>c, <1>d, <1>2, <1>3, ZenonT(30) DEF EndsRightly
  <2> QED BY <2>1, <2>2, <2>3, <2>4 DEF SideIInv
<1>5. SideIInv(t)'
  <2>1. InOrder(t)'
    <3>1. Reached(t)' = Reached(t) /\ \A i : Before(t, i)' = Before(t, i)
      BY <1>0, ZenonT(30) DEF Reached, Before
    <3>2. Before(t, Len(wire[s]) + 1)' = Before(t, Len(wire[s]) + 1)
      BY <1>0 DEF Reached, Before
    <3>3. Sent(s)' = Sent(s)
      BY <1>0, <1>c, <1>d, SMTT(30) DEF Sent
    <3>4. ASSUME rcv[t] # "done"
          PROVE  /\ Reached(t) <= taken'[s]
                 /\ \A i \in 1 .. Len(wire[s]) : wire[s][i].hi <= taken'[s]
      <4>1. /\ Reached(t) \in Nat /\ taken[s] \in Nat
            /\ \A i \in 1 .. Len(wire[s]) : wire[s][i].hi \in Nat
        BY <1>a, <1>b, SideTypes, ZenonT(30) DEF Reached
      <4>2. /\ Reached(t) <= taken[s]
            /\ \A i \in 1 .. Len(wire[s]) : wire[s][i].hi <= taken[s]
        BY <1>a, <1>t1, <1>3, <3>4 DEF InOrder
      <4> QED BY <1>e, <4>1, <4>2
    <3> QED BY <1>0, <1>a, <1>t1, <1>d, <1>2, <1>3, <3>1, <3>2, <3>3, <3>4, ZenonT(30) DEF InOrder
  <2>2. EofIsLast(t)' /\ HandsOK(t)' /\ Phases(t)' /\ EndsRightly(t)'
    BY <1>0, <1>a, <1>t2, <1>t3, <1>t4, <1>t5, <1>d, <1>2, EofIsLastKept, HandsKept, PhasesKept,
       EndsRightlyKept, Zenon
  <2> QED BY <2>1, <2>2, ZenonT(30) DEF SideIInv
<1> QED BY <1>a, <1>1, <1>4, <1>5, IInvPartsNext

(* Finishing keeps the invariant: a side finishes with its socket open     *)
(* only if its application has closed or the connection is down.           *)
LEMMA FinishOK ==
  ASSUME ProxyIInv, NEW s \in Side, Finish(s)
  PROVE  ProxyIInv'
<1> DEFINE t == Peer(s)
<1>0. /\ UNCHANGED <<opened, closed, written, unread, rcv, inHand, arrived, snd, outHand, taken,
                     quit, wire, cancelled, broken, faults>>
      /\ rcv[s] = "done" /\ snd[s] = "done"
      /\ over' = over \cup {s} /\ conn' = [conn EXCEPT ![s] = "closed"]
  BY ZenonT(30) DEF Finish, appVars, rcvVars, sndVars
<1>a. t \in Side /\ t # s /\ Peer(t) = s /\ \A r \in Side : r = s \/ r = t
  BY PeerFacts
<1>b. TypeOK /\ ShapesOK
  BY IInvParts, TypeParts
<1>s. SideIInv(s)
  BY <1>a, IInvParts
<1>s1. InOrder(s)
  BY <1>s, Zenon DEF SideIInv
<1>s2. EofIsLast(s)
  BY <1>s, Zenon DEF SideIInv
<1>s3. HandsOK(s)
  BY <1>s, Zenon DEF SideIInv
<1>s4. Phases(s)
  BY <1>s, Zenon DEF SideIInv
<1>s5. EndsRightly(s)
  BY <1>s, Zenon DEF SideIInv
<1>t. SideIInv(t)
  BY <1>a, IInvParts
<1>t1. InOrder(t)
  BY <1>t, Zenon DEF SideIInv
<1>t2. EofIsLast(t)
  BY <1>t, Zenon DEF SideIInv
<1>t3. HandsOK(t)
  BY <1>t, Zenon DEF SideIInv
<1>t4. Phases(t)
  BY <1>t, Zenon DEF SideIInv
<1>t5. EndsRightly(t)
  BY <1>t, Zenon DEF SideIInv
<1>c. conn'[s] = "closed" /\ conn'[t] = conn[t] /\ (t \in over' <=> t \in over)
  BY <1>0, <1>a, <1>b DEF ShapesOK
<1>1. TypeOK'
  <2>1. FlagsOK'
    BY <1>0, FlagsKept, IInvParts, TypeParts, Zenon
  <2>2. ShapesOK'
    BY <1>0, <1>b DEF ShapesOK
  <2>3. \A r \in Side : BoundsOK(r)'
    BY <1>0, IInvParts, TypeParts, Zenon DEF BoundsOK
  <2> QED BY <2>1, <2>2, <2>3, TypePartsNext
<1>2. (Down' <=> Down) /\ \A q \in Side : Ended(q)' <=> Ended(q)
  BY <1>0, Zenon DEF Down, Ended
<1>3. SideIInv(s)'
  <2>1. InOrder(s)' /\ EofIsLast(s)' /\ HandsOK(s)'
    BY <1>0, <1>s1, <1>s2, <1>s3, <1>2, InOrderKept, EofIsLastKept, HandsKept, ZenonT(30)
  <2>2. Phases(s)'
    BY <1>0, <1>s4, <1>c, <1>2, ZenonT(30) DEF Phases
  <2>3. EndsRightly(s)'
    <3>1. Down \/ s \in closed \/ (t \in closed /\ Len(arrived[s]) = written[t])
      BY <1>0, <1>s4, <1>s5, ZenonT(30) DEF Phases, EndsRightly
    <3> QED BY <1>0, <1>a, <1>s5, <1>c, <1>2, <3>1, ZenonT(30) DEF EndsRightly
  <2> QED BY <2>1, <2>2, <2>3 DEF SideIInv
<1>4. SideIInv(t)'
  BY <1>0, <1>a, <1>t1, <1>t2, <1>t3, <1>t4, <1>t5, <1>c, <1>2, InOrderKept, EofIsLastKept,
     HandsKept, PhasesKept, EndsRightlyKept, Zenon DEF SideIInv
<1> QED BY <1>a, <1>1, <1>3, <1>4, IInvPartsNext

(* A sent frame keeps the invariant: it continues the frames underway.     *)
LEMMA SendFrameOK ==
  ASSUME ProxyIInv, NEW s \in Side, SendFrame(s)
  PROVE  ProxyIInv'
<1> DEFINE t == Peer(s)
           f == outHand[s]
           n == Len(wire[s])
<1>0. /\ UNCHANGED <<opened, conn, closed, written, unread, rcv, inHand, arrived, taken,
                     quit, cancelled, over, broken, faults>>
      /\ snd[s] = "send" /\ n < Window
      /\ wire' = [wire EXCEPT ![s] = Append(@, f)]
      /\ snd' = [snd EXCEPT ![s] = IF f = EOF THEN "done" ELSE "select"]
      /\ outHand' = [outHand EXCEPT ![s] = EOF]
  BY ZenonT(30) DEF SendFrame, appVars, rcvVars
<1>a. t \in Side /\ t # s /\ Peer(t) = s /\ \A r \in Side : r = s \/ r = t
  BY PeerFacts
<1>b. TypeOK /\ ShapesOK
  BY IInvParts, TypeParts
<1>s. SideIInv(s)
  BY <1>a, IInvParts
<1>s1. InOrder(s)
  BY <1>s, Zenon DEF SideIInv
<1>s2. EofIsLast(s)
  BY <1>s, Zenon DEF SideIInv
<1>s3. HandsOK(s)
  BY <1>s, Zenon DEF SideIInv
<1>s4. Phases(s)
  BY <1>s, Zenon DEF SideIInv
<1>s5. EndsRightly(s)
  BY <1>s, Zenon DEF SideIInv
<1>t. SideIInv(t)
  BY <1>a, IInvParts
<1>t1. InOrder(t)
  BY <1>t, Zenon DEF SideIInv
<1>t2. EofIsLast(t)
  BY <1>t, Zenon DEF SideIInv
<1>t3. HandsOK(t)
  BY <1>t, Zenon DEF SideIInv
<1>t4. Phases(t)
  BY <1>t, Zenon DEF SideIInv
<1>t5. EndsRightly(t)
  BY <1>t, Zenon DEF SideIInv
<1>c. /\ snd'[t] = snd[t] /\ outHand'[t] = outHand[t] /\ wire'[t] = wire[t]
      /\ snd'[s] = (IF f = EOF THEN "done" ELSE "select") /\ outHand'[s] = EOF
      /\ wire'[s] = Append(wire[s], f)
  BY <1>0, <1>a, <1>b DEF ShapesOK
<1>d. /\ wire[s] \in Seq(Frame) /\ f \in Frame /\ n \in Nat
      /\ Append(wire[s], f) \in Seq(Frame)
      /\ wire'[s] # <<>> /\ Len(wire'[s]) = n + 1 /\ wire'[s][n + 1] = f
      /\ \A i \in 1 .. n : wire'[s][i] = wire[s][i]
  <2>1. wire[s] \in Seq(Frame) /\ f \in Frame /\ n \in Nat
    BY <1>b, SideTypes
  <2>2. /\ Append(wire[s], f) \in Seq(Frame)
        /\ Append(wire[s], f) # <<>> /\ Len(Append(wire[s], f)) = n + 1
        /\ Append(wire[s], f)[n + 1] = f
        /\ \A i \in 1 .. n : Append(wire[s], f)[i] = wire[s][i]
    BY <2>1, AppendFacts
  <2> QED BY <1>c, <2>1, <2>2, ZenonT(30)
<1> HIDE DEF n, f
<1>1. TypeOK'
  <2>1. FlagsOK'
    BY <1>0, FlagsKept, IInvParts, TypeParts, Zenon
  <2>2. ShapesOK'
    <3>1. EOF \in Frame
      BY DEF EOF, Frame
    <3>2. outHand' \in [Side -> Frame]
      BY <1>0, <1>b, <3>1 DEF ShapesOK
    <3>3. snd' \in [Side -> {"none", "select", "read", "send", "done"}]
      BY <1>0, <1>b DEF ShapesOK
    <3>4. wire' \in [Side -> Seq(Frame)]
      BY <1>0, <1>b, <1>d, ZenonT(30) DEF ShapesOK
    <3> QED BY <1>0, <1>b, <3>2, <3>3, <3>4, Zenon DEF ShapesOK
  <2>3. \A r \in Side : BoundsOK(r)'
    <3>1. BoundsOK(s) /\ BoundsOK(t) /\ Window \in Nat
      BY <1>a, <1>b, TypeParts, ProxyAssumption
    <3>2. Len(wire'[s]) <= Window
      BY <1>0, <1>d, <3>1
    <3> QED BY <1>0, <1>a, <1>c, <3>1, <3>2 DEF BoundsOK
  <2> QED BY <2>1, <2>2, <2>3, TypePartsNext
<1>2. (Down' <=> Down) /\ \A q \in Side : Ended(q)' <=> Ended(q)
  BY <1>0, <1>a, <1>c DEF Down, Ended, f
<1>3. \A i \in 1 .. n : wire[s][i] # EOF
  BY <1>0, <1>s2 DEF EofIsLast, n
<1>4. SideIInv(s)'
  <2>1. InOrder(s)'
    BY <1>0, <1>s1, <1>c, <1>2, InOrderKept, ZenonT(30)
  <2>2. EofIsLast(s)'
    <3>1. ASSUME NEW i \in 1 .. Len(wire'[s]), wire'[s][i] = EOF
          PROVE  i = Len(wire'[s]) /\ snd'[s] = "done"
      <4>1. i = n + 1
        BY <1>d, <1>3, <3>1, SMTT(30)
      <4> QED BY <1>c, <1>d, <3>1, <4>1
    <3> QED BY <3>1 DEF EofIsLast
  <2>3. HandsOK(s)'
    BY <1>0, <1>s3, <1>c, ZenonT(30) DEF HandsOK
  <2>4. Phases(s)'
    BY <1>0, <1>s4, <1>c, <1>2, ZenonT(30) DEF Phases
  <2>5. EndsRightly(s)'
    <3>1. /\ conn[s] = "closed" /\ snd'[s] # "done" => Ended(t)
          /\ f = EOF => Down \/ t \in closed \/ (s \in closed /\ taken[s] = written[s])
      BY <1>0, <1>s5, ZenonT(30) DEF EndsRightly, f
    <3>2. (\E i \in 1 .. Len(wire'[s]) : wire'[s][i] = EOF) => f = EOF
      BY <1>d, <1>3
    <3>3. /\ Ended(s) /\ ~Ended(t) => Down \/ s \in closed
          /\ conn[s] = "closed" => Down \/ s \in closed \/ (t \in closed /\ Len(arrived[s]) = written[t])
      BY <1>s5, Zenon DEF EndsRightly
    <3>4. ~(snd'[s] = "send" /\ outHand'[s] = EOF)
      BY <1>c, Zenon
    <3> QED BY <1>0, <1>a, <1>2, <3>1, <3>2, <3>3, <3>4, ZenonT(30) DEF EndsRightly
  <2> QED BY <2>1, <2>2, <2>3, <2>4, <2>5 DEF SideIInv
<1>5. SideIInv(t)'
  <2>1. InOrder(t)'
    <3>0. SUFFICES ASSUME rcv[t] # "done" PROVE InOrder(t)'
      BY <1>0, ZenonT(30) DEF InOrder
    <3>1. /\ Reached(t)' = Reached(t) /\ Reached(t) <= taken[s] /\ taken[s] \in Nat
          /\ Before(t, n + 1) = Sent(s)
      BY <1>0, <1>a, <1>b, <1>t1, <3>0, SideTypes, ZenonT(30) DEF InOrder, Reached, n
    <3>2. \A i \in 1 .. n + 1 : Before(t, i)' = Before(t, i)
      <4> SUFFICES ASSUME NEW i \in 1 .. n + 1 PROVE Before(t, i)' = Before(t, i)
        OBVIOUS
      <4>1. CASE i = 1
        BY <3>1, <4>1, ZenonT(30) DEF Before
      <4>2. CASE i # 1
        <5>1. i - 1 \in 1 .. n
          BY <1>d, <4>2, SMTT(30)
        <5> QED BY <1>a, <1>d, <4>2, <5>1 DEF Before
      <4> QED BY <4>1, <4>2
    <3>3. f # EOF => f.lo \in Nat /\ f.lo - 1 = Sent(s) /\ f.lo <= f.hi /\ f.hi = taken[s]
      BY <1>0, <1>b, <1>s3, SideTypes, ZenonT(30) DEF HandsOK, Sent, f
    <3>4. f = EOF => Sent(s) = taken[s]
      BY <1>0, ZenonT(30) DEF Sent, f
    <3>5. ASSUME NEW i \in 1 .. Len(wire'[s])
          PROVE  /\ wire'[s][i] = EOF => Before(t, i)' = taken'[s]
                 /\ wire'[s][i] # EOF => /\ wire'[s][i].lo = Before(t, i)' + 1
                                         /\ wire'[s][i].lo <= wire'[s][i].hi
                                         /\ wire'[s][i].hi <= taken'[s]
      <4>1. CASE i = n + 1
        <5>1. Before(t, i)' = Sent(s) /\ wire'[s][i] = f
          BY <1>d, <3>1, <3>2, <4>1, ZenonT(30)
        <5>2. f # EOF => f.lo = Sent(s) + 1
          BY <3>3, SMTT(30)
        <5>3. taken'[s] = taken[s]
          BY <1>0, Zenon
        <5>4. f # EOF => f.hi <= taken[s]
          BY <3>1, <3>3
        <5> QED BY <3>3, <3>4, <5>1, <5>2, <5>3, <5>4, Zenon
      <4>2. CASE i # n + 1
        <5>1. i \in 1 .. n /\ i \in 1 .. n + 1
          BY <1>d, <4>2, SMTT(30)
        <5>2. wire'[s][i] = wire[s][i] /\ Before(t, i)' = Before(t, i) /\ wire[s][i] # EOF
          BY <1>d, <1>3, <3>2, <5>1, ZenonT(30)
        <5> QED BY <1>0, <1>a, <1>t1, <3>0, <5>1, <5>2, ZenonT(30) DEF InOrder, n
      <4> QED BY <4>1, <4>2, ZenonT(30)
    <3>6. snd'[s] # "done" => Before(t, Len(wire[s]) + 1)' = Sent(s)'
      <4>1. f # EOF => Sent(s)' = f.hi
        BY <1>0, <1>c, <3>3 DEF Sent
      <4>2. (n + 1) + 1 # 1 /\ ((n + 1) + 1) - 1 = n + 1
        BY <1>d
      <4>3. Before(t, Len(wire[s]) + 1)' = wire'[s][n + 1].hi
        BY <1>a, <1>d, <4>2, ZenonT(30) DEF Before
      <4> QED BY <1>c, <1>d, <4>1, <4>3, ZenonT(30)
    <3>7. snd'[s] = "done" => wire'[s] # <<>> /\ wire'[s][Len(wire'[s])] = EOF
      BY <1>c, <1>d, ZenonT(30)
    <3> QED BY <1>0, <1>a, <3>1, <3>5, <3>6, <3>7, ZenonT(30) DEF InOrder
  <2>2. EofIsLast(t)' /\ HandsOK(t)' /\ Phases(t)' /\ EndsRightly(t)'
    BY <1>0, <1>a, <1>t2, <1>t3, <1>t4, <1>t5, <1>c, <1>2, EofIsLastKept, HandsKept, PhasesKept,
       EndsRightlyKept, Zenon
  <2> QED BY <2>1, <2>2 DEF SideIInv
<1> QED BY <1>a, <1>1, <1>4, <1>5, IInvPartsNext

-----------------------------------------------------------------------------
(* Every step keeps the invariant.                                         *)
LEMMA ProxyNextIInv == ProxyIInv /\ [Next]_vars => ProxyIInv'
<1> SUFFICES ASSUME ProxyIInv, [Next]_vars PROVE ProxyIInv'
  OBVIOUS
<1>1. CASE UNCHANGED vars
  <2>0. UNCHANGED <<opened, conn, closed, written, unread, rcv, inHand, arrived, snd, outHand,
                    taken, quit, wire, cancelled, over, broken, faults>>
    BY <1>1 DEF vars, appVars, rcvVars, sndVars
  <2>1. TypeOK'
    <3>1. FlagsOK'
      BY <2>0, FlagsKept, IInvParts, TypeParts, ZenonT(30)
    <3>2. ShapesOK'
      BY <2>0, IInvParts, TypeParts, ZenonT(30) DEF ShapesOK
    <3>3. \A r \in Side : BoundsOK(r)'
      BY <2>0, IInvParts, TypeParts, ZenonT(30) DEF BoundsOK
    <3> QED BY <3>1, <3>2, <3>3, TypePartsNext
  <2>2. ASSUME NEW r \in Side PROVE SideIInv(r)'
    <3>1. SideIInv(r)
      BY IInvParts
    <3>2. (Down' <=> Down) /\ \A q \in Side : Ended(q)' <=> Ended(q)
      BY <2>0, Zenon DEF Down, Ended
    <3>3. InOrder(r)' /\ EofIsLast(r)' /\ HandsOK(r)' /\ Phases(r)' /\ EndsRightly(r)'
      BY <2>0, <3>1, <3>2, InOrderKept, EofIsLastKept, HandsKept, PhasesKept, EndsRightlyKept,
         PeerFacts, Zenon DEF SideIInv
    <3> QED BY <3>3 DEF SideIInv
  <2> QED BY <2>1, <2>2, IInvPartsNext
<1>2. ASSUME NEW s \in Side, Application(s) \/ Receiver(s) \/ Sender(s) \/ Finish(s)
      PROVE  ProxyIInv'
  BY <1>2, AppWriteOK, AppReadOK, AppCloseOK, RecvSelectOK, RecvFrameOK, RecvFailsOK,
     WriteSocketOK, WriteFailsOK, SenderLeavesOK, ReadSocketOK, ReadFailsOK, SendFrameOK, FinishOK
     DEF Application, Receiver, Sender
<1> QED BY <1>1, <1>2, OpenOK, DialOK, BreakOK DEF Next

(* StreamData on both sides keeps to the types, never has more frames      *)
(* underway than the window allows, and writes to a socket only what was   *)
(* read from the other one.                                                *)
THEOREM ProxyTypes == Spec => []TypeOK
<1>1. ProxyIInv => TypeOK
  BY DEF ProxyIInv
<1> QED BY <1>1, ProxyInitIInv, ProxyNextIInv, PTL DEF Spec

-----------------------------------------------------------------------------
(* The refinement.                                                         *)

(* The refinement mapping: the sides whose socket the proxy has closed.    *)
HungUp == {s \in Side : conn[s] = "closed"}

(* The socket proxy starts as a pipe does ...                              *)
LEMMA InitIsPipe == Init => P!Init
BY DEF Init, P!Init

(* ... and steps that do not change what the applications see stutter.     *)
LEMMA QuietIsPipe ==
  ASSUME UNCHANGED <<written, arrived, closed>>, HungUp' = HungUp, Down' = Down
  PROVE  UNCHANGED P!vars
BY DEF P!vars, HungUp, Down

(* A step that closes a socket hangs up, for one of the reasons Pipe has.  *)
LEMMA HangsUp ==
  ASSUME ProxyIInv', ShapesOK, NEW s \in Side, conn' = [conn EXCEPT ![s] = "closed"],
         UNCHANGED <<written, arrived, closed, broken, quit>>
  PROVE  P!HangUp(s)
<1>1. HungUp' = HungUp \cup {s} /\ conn'[s] = "closed"
  BY DEF HungUp, ShapesOK
<1>2. EndsRightly(s)'
  BY IInvPartsNext, ZenonT(30) DEF SideIInv
<1>3. Down \/ s \in closed \/ (Peer(s) \in closed /\ Len(arrived[s]) = written[Peer(s)])
  BY <1>1, <1>2 DEF EndsRightly, Down
<1> QED BY <1>1, <1>3 DEF P!HangUp, P!Peer, Peer, HungUp, Down

(* The steps of one side are steps of the pipe.                            *)
LEMMA SideIsPipe ==
  ASSUME ProxyIInv, ProxyIInv', NEW s \in Side,
         Application(s) \/ Receiver(s) \/ Sender(s) \/ Finish(s)
  PROVE  P!Next \/ UNCHANGED P!vars
<1>0. ShapesOK /\ TypeOK /\ SideIInv(s) /\ Peer(s) \in Side
  BY IInvParts, TypeParts, PeerFacts
<1>1. CASE AppWrite(s)
  <2>1. P!Write(s)
    BY <1>1, ZenonT(30) DEF AppWrite, P!Write, rcvVars, sndVars
  <2> QED BY <2>1, ZenonT(30) DEF P!Next
<1>2. CASE AppRead(s)
  BY <1>2, QuietIsPipe DEF AppRead, rcvVars, sndVars, HungUp, Down
<1>3. CASE AppClose(s)
  <2>1. P!Close(s)
    BY <1>3 DEF AppClose, P!Close, rcvVars, sndVars
  <2> QED BY <2>1 DEF P!Next
<1>4. CASE RecvSelect(s)
  BY <1>4, QuietIsPipe DEF RecvSelect, appVars, sndVars, HungUp, Down
<1>5. CASE RecvFrame(s)
  <2>1. UNCHANGED <<written, arrived, closed, broken, quit>>
    BY <1>5 DEF RecvFrame, appVars, sndVars
  <2>2. conn' = conn \/ conn' = [conn EXCEPT ![s] = "closed"]
    BY <1>0, <1>5, ZenonT(30) DEF RecvFrame, ShapesOK
  <2>3. CASE conn' = conn
    BY <2>1, <2>3, QuietIsPipe DEF HungUp, Down
  <2>4. CASE conn' = [conn EXCEPT ![s] = "closed"]
    BY <1>0, <2>1, <2>4, HangsUp, ZenonT(30) DEF P!Next
  <2> QED BY <2>2, <2>3, <2>4
<1>6. CASE RecvFails(s) \/ WriteFails(s)
  BY <1>6, QuietIsPipe, SMTT(30) DEF RecvFails, WriteFails, appVars, sndVars, HungUp, Down
<1>7. CASE WriteSocket(s)
  <2> DEFINE f == inHand[s]
             n == f.hi - f.lo + 1
  <2>0. /\ UNCHANGED <<conn, closed, written, quit, broken>>
        /\ rcv[s] = "write" /\ s \notin closed
        /\ arrived' = [arrived EXCEPT ![s] = @ \o [i \in 1 .. n |-> f.lo + i - 1]]
    BY <1>7 DEF WriteSocket, sndVars
  <2>1. /\ f.lo \in Nat /\ f.hi \in Nat /\ Len(arrived[s]) \in Nat
        /\ taken[Peer(s)] \in Nat /\ written[Peer(s)] \in Nat
        /\ f.lo = Len(arrived[s]) + 1 /\ f.lo <= f.hi
        /\ f.hi <= taken[Peer(s)] /\ taken[Peer(s)] <= written[Peer(s)]
    BY <1>0, <2>0, SideTypes, ZenonT(30) DEF SideIInv, HandsOK, InOrder, Reached
  <2>2. n \in 1 .. written[Peer(s)] /\ Len(arrived[s]) + n <= written[Peer(s)]
    BY <2>1, RunLength, ZenonT(30)
  <2>3. [i \in 1 .. n |-> f.lo + i - 1] = [i \in 1 .. n |-> Len(arrived[s]) + i]
    BY <2>1, <2>2
  <2>4. conn[s] = "open"
    BY <1>0, <2>0 DEF SideIInv, Phases
  <2> HIDE DEF n, f
  <2>5. arrived' = [arrived EXCEPT ![s] = @ \o [i \in 1 .. n |-> Len(@) + i]]
    BY <2>0, <2>3, ZenonT(30)
  <2>6. P!Arrive(s, n)
    BY <2>0, <2>2, <2>4, <2>5, ZenonT(30) DEF P!Arrive, P!Peer, Peer
  <2> QED BY <2>2, <2>6, ZenonT(30) DEF P!Next, P!Peer, Peer
<1>8. CASE SendSelect(s) \/ SendFails(s)
  <2>1. /\ UNCHANGED <<written, arrived, closed, conn, broken>>
        /\ quit' = quit \/ quit' = quit \cup {s}
    BY <1>8 DEF SendSelect, SendFails, appVars, rcvVars
  <2>2. CASE quit' = quit
    BY <2>1, <2>2, QuietIsPipe DEF HungUp, Down
  <2>3. CASE quit' = quit \cup {s}
    BY <2>1, <2>3 DEF P!Next, P!BreakDown
  <2> QED BY <2>1, <2>2, <2>3
<1>9. CASE ReadSocket(s) \/ ReadFails(s) \/ SendFrame(s)
  <2>1. UNCHANGED <<written, arrived, closed, conn, broken, quit>>
    BY <1>9, ZenonT(30) DEF ReadSocket, ReadFails, SendFrame, appVars, rcvVars
  <2> QED BY <2>1, QuietIsPipe DEF HungUp, Down
<1>10. CASE Finish(s)
  BY <1>0, <1>10, HangsUp, ZenonT(30) DEF Finish, appVars, rcvVars, sndVars, P!Next
<1> QED BY <1>1, <1>2, <1>3, <1>4, <1>5, <1>6, <1>7, <1>8, <1>9, <1>10
        DEF Application, Receiver, Sender

(* Setting up stutters, and a failure takes the connection down.           *)
LEMMA NextIsPipe ==
  ASSUME ProxyIInv, ProxyIInv', [Next]_vars
  PROVE  [P!Next]_P!vars
<1>0. ShapesOK
  BY IInvParts, TypeParts
<1>1. CASE UNCHANGED vars
  BY <1>1, QuietIsPipe DEF vars, appVars, rcvVars, sndVars, HungUp, Down
<1>2. CASE Open
  BY <1>2, QuietIsPipe DEF Open, appVars, HungUp, Down
<1>3. CASE Dial
  <2>1. HungUp' = HungUp
    BY <1>0, <1>3 DEF Dial, HungUp, ShapesOK
  <2> QED BY <1>3, <2>1, QuietIsPipe DEF Dial, appVars, Down
<1>4. CASE DialFails \/ Break
  BY <1>4 DEF DialFails, Break, appVars, rcvVars, sndVars, P!Next, P!BreakDown
<1> QED BY <1>1, <1>2, <1>3, <1>4, SideIsPipe DEF Next

(* StreamData on both sides implements a local stream socket, whatever the *)
(* chunk size, the window and the capacity of the sockets are: bytes       *)
(* arrive once and in order, and an application that has not closed is     *)
(* hung up on only after all that the other one wrote has arrived, unless  *)
(* the stream broke or a sender left without an EOF frame.                 *)
THEOREM ImplementsPipe == Spec => PipeSpec
<1> USE DEF PipeSpec, P!Spec
<1> QED BY ProxyInitIInv, ProxyNextIInv, InitIsPipe, NextIsPipe, PTL DEF Spec
=============================================================================
