------------------------------ MODULE Framing -------------------------------
(***************************************************************************)
(* How Session::onReceive finds frames in what a socket reads: chunks that *)
(* begin and end anywhere, the rest of the last one kept in m_in, and a    *)
(* loop that takes one frame after the other, from m_in when something was *)
(* pending and otherwise straight from the chunk.                          *)
(*                                                                         *)
(* A byte is its connection, its frame and its place in the frame; a few   *)
(* of them stand for many.  The kind of a frame is what the loop makes of   *)
(* it when it comes to it:                                                 *)
(*   order    is handled, counted and consumed                             *)
(*   logout   closes the session (an initiator) in the middle of the loop  *)
(*   refused  makes the loop return before any handler (foreign CompIDs,   *)
(*            SendingTime, a gap, an old number without PossDup)           *)
(*   declined reaches its handler, and the handler or storeIncoming fails, *)
(*            which need not be so another time                            *)
(*   finish   ends the resend a doLogout waits for: it is handled and      *)
(*            counted, and the loop returns before it is consumed          *)
(*   replay   does so too and has PossDup=Y                                *)
(*   broken   is refused by the parser as soon as its header is there      *)
(*   long     has a BodyLength that reaches into the next frame            *)
(* A frame at which the loop returns stays at the head of m_in, if it is    *)
(* there, and the loop comes to it again with the next chunk; a chunk that  *)
(* is not in m_in is dropped with all that follows the frame.              *)
(* One call of onReceive is Read and then one step for each frame.         *)
(***************************************************************************)
EXTENDS Integers, Sequences

CONSTANTS
  Sizes,           \* the sizes of frames
  MinSize,         \* what the parser wants to see first (20 bytes)
  Troubles,        \* kinds besides order and logout, "memory" if it may run out, and
                   \* "replace" if a connection may come while the last is half-open
  MaxFrames,       \* frames a connection carries
  MaxConnections

ASSUME SizesAssumption ==
  /\ MinSize \in Nat \ {0}
  /\ Sizes \subseteq {n \in Nat : n >= MinSize}
ASSUME BoundsAssumption == MaxFrames \in Nat /\ MaxConnections \in Nat
ASSUME TroublesAssumption ==
  Troubles \subseteq {"refused", "declined", "finish", "replay", "broken", "long", "memory", "replace"}

VARIABLES
  lossy,          \* whether there are Troubles at all
  resets,         \* a reset of the numbers at the end of a session is configured
  conn,           \* the connections so far
  since,          \* the one with which the session was opened
  connected,      \* the socket is there
  sent,           \* the frames of this connection and of those it replaced
  wire,           \* its bytes that have not been read
  status,         \* whether m_state.status is Disconnected
  m_in,           \* the pending bytes
  view,           \* what is left of the chunk, when it is not in m_in
  usingPending,
  pc,             \* "loop" inside onReceive
  counted,        \* the frames the session has counted
  handed,         \* the frames its handlers have seen
  late            \* one of them came after the session was closed

fixed   == <<lossy, resets>>
peer    == <<conn, since, connected, sent>>
ghosts  == <<handed, late>>
vars    == <<fixed, peer, wire, status, m_in, view, usingPending, pc, counted, ghosts>>

Kind  == {"order", "logout"} \cup (IF lossy THEN Troubles \ {"memory", "replace"} ELSE {})
Frame ==
  [kind : {"order", "logout", "refused", "declined", "finish", "replay", "broken", "long"}, size : Sizes]

Bytes(c, n, size) == [i \in 1..size |-> <<c, n, i>>]

Init ==
  /\ lossy \in BOOLEAN /\ resets \in BOOLEAN
  /\ conn = 0 /\ since = 0 /\ connected = FALSE /\ sent = <<>> /\ wire = <<>>
  /\ status = "closed" /\ m_in = <<>>
  /\ view = <<>> /\ usingPending = FALSE /\ pc = "idle"
  /\ counted = {} /\ handed = <<>> /\ late = FALSE

-----------------------------------------------------------------------------
(* The other side, and the socket.                                          *)
Send(kind, size) ==
  /\ connected /\ Len(sent) < MaxFrames /\ pc = "idle"
  /\ sent' = Append(sent, [kind |-> kind, size |-> size])
  /\ wire' = wire \o Bytes(conn, Len(sent) + 1, size)
  /\ UNCHANGED <<fixed, conn, since, connected, status, m_in, view, usingPending, pc, counted, ghosts>>

(* onConnected                                                             *)
Connect_bug ==   \* trusts onDisconnected to have emptied the buffer
  /\ ~connected /\ conn < MaxConnections
  /\ conn' = conn + 1 /\ since' = conn' /\ connected' = TRUE
  /\ status' = "open"
  /\ UNCHANGED <<fixed, sent, wire, m_in, view, usingPending, pc, counted, ghosts>>
Connect ==
  /\ ~connected /\ conn < MaxConnections
  /\ conn' = conn + 1 /\ since' = conn' /\ connected' = TRUE
  /\ status' = "open" /\ m_in' = <<>>
  /\ UNCHANGED <<fixed, sent, wire, view, usingPending, pc, counted, ghosts>>

(* A connection is accepted while the one before is still there.  What that *)
(* one had not been read is gone.  onConnected returns at once when the     *)
(* session is open, and m_in stays.                                        *)
Replace ==
  /\ lossy /\ "replace" \in Troubles
  /\ connected /\ pc = "idle" /\ conn < MaxConnections
  /\ conn' = conn + 1 /\ wire' = <<>>
  /\ IF status = "open" THEN UNCHANGED <<since, m_in>> ELSE since' = conn' /\ m_in' = <<>>
  /\ status' = "open"
  /\ UNCHANGED <<fixed, connected, sent, view, usingPending, pc, counted, ghosts>>

(* onDisconnected, when the connection is lost.  A Logout has called it      *)
(* already.                                                                *)
Disconnect ==
  /\ connected /\ pc = "idle"
  /\ connected' = FALSE /\ sent' = <<>> /\ wire' = <<>>
  /\ status' = "closed"
  /\ m_in' = IF status = "open" THEN <<>> ELSE m_in
  /\ counted' = {} /\ handed' = <<>> /\ late' = FALSE
  /\ UNCHANGED <<fixed, conn, since, view, usingPending, pc>>

-----------------------------------------------------------------------------
(* parseTCPFrame.  A header put together from two frames is bad, and so is  *)
(* a frame that ends in another one.                                       *)
Begins(bytes, size) == SubSeq(bytes, 1, size) = Bytes(bytes[1][1], bytes[1][2], size)

Whole(bytes) ==
  LET f == sent[bytes[1][2]]
  IN  Len(bytes) >= f.size /\ Begins(bytes, f.size)

Parse(bytes) ==
  LET f == sent[bytes[1][2]]
  IN  CASE Len(bytes) < MinSize -> "incomplete"
        [] Len(bytes) >= MinSize /\ ~Begins(bytes, MinSize) -> "bad"
        [] OTHER ->
             CASE f.kind = "broken" -> "bad"
               [] f.kind = "long" -> IF Len(bytes) =< f.size THEN "incomplete" ELSE "bad"
               [] OTHER -> IF Len(bytes) < f.size THEN "incomplete"
                           ELSE IF Whole(bytes) THEN "whole" ELSE "bad"

(* onReceive: what the socket has read goes behind what is pending.  When   *)
(* there is no memory for that it is dropped.                              *)
Read(n) ==
  LET chunk == SubSeq(wire, 1, n)
  IN  /\ connected /\ pc = "idle"
      /\ wire' = SubSeq(wire, n + 1, Len(wire))
      /\ IF status = "closed"
           THEN UNCHANGED <<m_in, view, usingPending, pc>>
           ELSE \/ /\ pc' = "loop"
                   /\ usingPending' = (m_in # <<>>)
                   /\ m_in' = IF m_in = <<>> THEN m_in ELSE m_in \o chunk
                   /\ view' = IF m_in = <<>> THEN chunk ELSE <<>>
                \/ /\ lossy /\ "memory" \in Troubles /\ m_in # <<>>
                   /\ UNCHANGED <<m_in, view, usingPending, pc>>
      /\ UNCHANGED <<fixed, peer, status, counted, ghosts>>

Data     == IF usingPending THEN m_in ELSE view
Sees(v)  == pc = "loop" /\ Data # <<>> /\ Parse(Data) = v
Number   == Data[1][2]
TheFrame == sent[Number]
Rest     == SubSeq(Data, TheFrame.size + 1, Len(Data))

Return == pc' = "idle" /\ view' = <<>> /\ usingPending' = FALSE

EndOfData ==
  /\ pc = "loop" /\ Data = <<>>
  /\ Return
  /\ UNCHANGED <<fixed, peer, wire, status, m_in, counted, ghosts>>

(* The part of a frame is kept, also when the session was closed on the way. *)
Incomplete_bug ==   \* only looks at what was pending before
  /\ Sees("incomplete")
  /\ Return
  /\ UNCHANGED <<fixed, peer, wire, status, m_in, counted, ghosts>>
Incomplete ==
  /\ Sees("incomplete")
  /\ Return
  /\ \/ m_in' = Data
     \/ lossy /\ "memory" \in Troubles /\ ~usingPending /\ UNCHANGED m_in
  /\ UNCHANGED <<fixed, peer, wire, status, counted, ghosts>>

Bad ==
  /\ Sees("bad")
  /\ Return
  /\ m_in' = IF usingPending THEN <<>> ELSE m_in
  /\ UNCHANGED <<fixed, peer, wire, status, counted, ghosts>>

(* The early returns in front of dispatchInbound: nothing is consumed.  A   *)
(* frame that has been counted is an old number.                           *)
Refuse ==
  /\ Sees("whole")
  /\ TheFrame.kind = "refused" \/ (TheFrame.kind = "finish" /\ Number \in counted)
  /\ Return
  /\ UNCHANGED <<fixed, peer, wire, status, m_in, counted, ghosts>>

HandOver ==
  /\ handed' = Append(handed, Number)
  /\ late' = (late \/ (status = "closed" /\ (usingPending \/ resets)))

Consume ==
  IF usingPending THEN m_in' = Rest /\ UNCHANGED view ELSE view' = Rest /\ UNCHANGED m_in

(* The early returns behind dispatchInbound.  A replay that comes again is  *)
(* an old duplicate, and its handler may fail as well.                     *)
Decline ==
  /\ Sees("whole") /\ TheFrame.kind \in {"declined", "replay"}
  /\ HandOver
  /\ Return
  /\ UNCHANGED <<fixed, peer, wire, status, m_in, counted>>

InOrder ==
  \/ TheFrame.kind \in {"order", "declined"}
  \/ TheFrame.kind = "replay" /\ Number \in counted

Take_bug ==   \* one byte short
  /\ Sees("whole") /\ InOrder
  /\ HandOver
  /\ view' = IF usingPending THEN view ELSE SubSeq(Data, TheFrame.size, Len(Data))
  /\ m_in' = IF usingPending THEN SubSeq(Data, TheFrame.size, Len(Data)) ELSE m_in
  /\ counted' = counted \cup {Number}
  /\ UNCHANGED <<fixed, peer, wire, status, usingPending, pc>>
Take ==
  /\ Sees("whole") /\ InOrder
  /\ HandOver
  /\ Consume
  /\ counted' = counted \cup {Number}
  /\ UNCHANGED <<fixed, peer, wire, status, usingPending, pc>>

(* return sendLogout("engine shutdown")                                    *)
TakeFinish ==
  /\ Sees("whole") /\ TheFrame.kind \in {"finish", "replay"} /\ Number \notin counted
  /\ HandOver
  /\ Return
  /\ counted' = counted \cup {Number}
  /\ UNCHANGED <<fixed, peer, wire, status, m_in>>

(* The Logout closes the connection and empties m_in.  The loop is left     *)
(* when a reset is configured or the handler or the store fails, and        *)
(* otherwise goes on behind the frame.                                     *)
TakeLogout_bug ==   \* never leaves the loop
  /\ Sees("whole") /\ TheFrame.kind = "logout"
  /\ HandOver
  /\ status' = "closed" /\ m_in' = <<>>
  /\ counted' = counted \cup {Number}
  /\ view' = IF usingPending THEN view ELSE Rest
  /\ UNCHANGED <<fixed, peer, wire, usingPending, pc>>
TakeLogout ==
  /\ Sees("whole") /\ TheFrame.kind = "logout"
  /\ HandOver
  /\ status' = "closed" /\ m_in' = <<>>
  /\ \/ /\ resets \/ (lossy /\ "declined" \in Troubles)
        /\ Return /\ UNCHANGED counted
     \/ /\ ~resets
        /\ counted' = counted \cup {Number}
        /\ view' = IF usingPending THEN view ELSE Rest
        /\ UNCHANGED <<usingPending, pc>>
  /\ UNCHANGED <<fixed, peer, wire>>

Next ==
  \/ \E kind \in Kind, size \in Sizes : Send(kind, size)
  \/ Connect \/ Replace \/ Disconnect
  \/ \E n \in 1..Len(wire) : Read(n)
  \/ EndOfData \/ Incomplete \/ Bad \/ Refuse
  \/ Decline \/ Take \/ TakeFinish \/ TakeLogout

Spec == Init /\ [][Next]_vars

-----------------------------------------------------------------------------
Byte == (1..MaxConnections) \X (1..MaxFrames) \X (Nat \ {0})

TypeOK ==
  /\ lossy \in BOOLEAN /\ resets \in BOOLEAN
  /\ conn \in 0..MaxConnections /\ since \in 0..MaxConnections /\ connected \in BOOLEAN
  /\ sent \in Seq(Frame) /\ Len(sent) =< MaxFrames
  /\ wire \in Seq(Byte) /\ m_in \in Seq(Byte) /\ view \in Seq(Byte)
  /\ status \in {"open", "closed"} /\ usingPending \in BOOLEAN /\ pc \in {"idle", "loop"}
  /\ counted \subseteq 1..MaxFrames
  /\ handed \in Seq(1..MaxFrames) /\ late \in BOOLEAN

(* The part of a frame that has been read while the rest is on the wire.    *)
PartlyRead ==
  IF wire = <<>> THEN <<>> ELSE Bytes(conn, Head(wire)[2], Head(wire)[3] - 1)

(* When nothing goes wrong, a call of onReceive hands over every frame that *)
(* is complete and keeps exactly the part of the next, wherever the chunks  *)
(* were cut: no frame waits in m_in for a chunk that may not come.          *)
PendingExact ==
  ~lossy /\ pc = "idle" /\ connected /\ status = "open" => m_in = PartlyRead

(* m_in holds no bytes from before the session was opened, although the     *)
(* loop may leave some in it after the session is closed (m_in.clear() of   *)
(* onConnected): bytes of a connection are never joined with those of one   *)
(* that replaces it after the session was closed.  A connection that is     *)
(* accepted while the session is open finds the bytes of the one it         *)
(* replaces still there, and its first bytes are joined to them (the return *)
(* of onConnected in front of m_in.clear()).                               *)
NoOldBytes ==
  connected /\ status = "open" => \A i \in DOMAIN m_in : m_in[i][1] >= since

(* No frame is handled after a Logout has closed the session, when the      *)
(* frames come from m_in (onDisconnected empties it) or a reset is          *)
(* configured (the loop is left, so that the frame is not counted either).  *)
NothingAfterClose == ~late

(* Whatever the chunks, handlers see the frames that were sent, in order,   *)
(* and never one put together from pieces of two; and all of them, when     *)
(* nothing goes wrong.  They see a frame once, but for one that stopped the *)
(* loop after its handler had seen it: one that the handler or the store    *)
(* refused, and the PossDup=Y frame that ended a resend, may be handed over *)
(* again from m_in, before any other (session.cpp 180-191, 201-218).        *)
Stream     == INSTANCE FrameStream WITH Retried <- {f \in Frame : f.kind \in {"declined", "replay"}}
SameFrames == Stream!Spec

=============================================================================
