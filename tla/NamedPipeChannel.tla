------------------------- MODULE NamedPipeChannel -------------------------
(***************************************************************************)
(* The byte stream between the helper and Core: one instance of a Windows  *)
(* named pipe at a time, framed by internal/capturedudp/namedpipe_         *)
(* protocol.go.  A frame is a record; the bytes inside it are left out.    *)
(* A write that fails may have put nothing, a part of the frame or all of  *)
(* it into the stream.  A partial frame is a frame whose "cut" is TRUE:    *)
(* its reader blocks until later frames supply the missing bytes, and what *)
(* it then decodes carries foreign bytes ("mixed") or is no frame at all.  *)
(***************************************************************************)
EXTENDS Naturals, Sequences, FiniteSets

CONSTANTS
    MaxFaults           \* bound: failing writes, rejections, time-outs and cancellations

VARIABLES
    pipe,               \* the pipe: connection number, its two ends, the two streams
    faults              \* faults so far

channelVars == <<pipe, faults>>

(***************************************************************************)
(* What a helper asks for: every operation that is answered by a response, *)
(* and Ping, which is answered by a Pong.                                  *)
(***************************************************************************)
Ops == {"operation", "ping"}

FrameTypes == Ops \cup {"hello", "authenticate", "response", "pong", "delivery", "garbage"}

Frame(type, id, op, ok) ==
    [type |-> type, id |-> id, op |-> op, ok |-> ok, cut |-> FALSE, mixed |-> FALSE]

\* Bytes that do not start a frame: decodeNamedPipeHeader refuses them.
Garbage == Frame("garbage", 0, "none", FALSE)

(***************************************************************************)
(* What the next complete frame of a stream can be, and the stream left.   *)
(* A partial frame is completed with the bytes of its successor, which it  *)
(* may swallow whole and still be incomplete; what is left of a successor  *)
(* is not the start of a frame.                                            *)
(***************************************************************************)
readNamedPipeFrame(q) ==
    IF q = <<>> THEN {}
    ELSE IF ~Head(q).cut THEN {[frame |-> Head(q), rest |-> Tail(q)]}
    ELSE IF Len(q) = 1 THEN {}
    ELSE {[frame |-> Garbage, rest |-> <<>>],
          [frame |-> [Head(q) EXCEPT !.cut = FALSE, !.mixed = TRUE],
           rest  |-> <<Garbage>> \o SubSeq(q, 3, Len(q))]}

Swallowed(q) == <<Head(q)>> \o SubSeq(q, 3, Len(q))

\* What a failed write may leave behind.
FailedWrites(q, frame) ==
    {q, Append(q, [frame EXCEPT !.cut = TRUE]), Append(q, frame)}

Fault == faults < MaxFaults /\ faults' = faults + 1

-----------------------------------------------------------------------------
(***************************************************************************)
(* The pipe of the operating system, as the code in src/ uses it.          *)
(* "listening" is an instance nobody has opened; disconnecting an instance *)
(* throws away what the client has not read; a client that closes its end  *)
(* leaves what the server has not read.                                    *)
(***************************************************************************)
NoPipe == [n |-> 0, client |-> FALSE, server |-> "listening", c2s |-> <<>>, s2c |-> <<>>]

ServerEnds == {"none", "listening", "connected"}

Connected(k) == pipe.n = k /\ pipe.client /\ pipe.server = "connected"

ClientEndClosed(p) == [p EXCEPT !.client = FALSE, !.s2c = <<>>]

ServerEndClosed(p) == [p EXCEPT !.server = "none", !.c2s = <<>>, !.s2c = <<>>]

ChannelTypeOK ==
    /\ pipe.n \in Nat /\ pipe.client \in BOOLEAN /\ pipe.server \in ServerEnds
    /\ \A q \in {pipe.c2s, pipe.s2c} :
         \A i \in DOMAIN q : q[i].type \in FrameTypes
    /\ faults \in 0..MaxFaults
=============================================================================
