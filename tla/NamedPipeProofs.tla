--------------------------- MODULE NamedPipeProofs ---------------------------
(***************************************************************************)
(* Proofs about NamedPipe for any number of callers, of delivering         *)
(* goroutines, of connections and of faults.  The inductive invariant Inv  *)
(* follows an identifier from its allocation to the answer: registered     *)
(* calls have identifiers of their own, the requests in the stream carry   *)
(* them in increasing order and above the last one the server took, and    *)
(* every answer that is under way, written or not, is to the request its   *)
(* identifier names.  Until the server has a controller nothing on either  *)
(* side can make the client believe that it has one.  Client, channel and  *)
(* server touch different conjuncts; a step of one side keeps those of the *)
(* other by the lemmas on what it may do to the two streams.               *)
(***************************************************************************)
EXTENDS NamedPipe, SequenceTheorems, TLAPS

-----------------------------------------------------------------------------
(* The inductive invariant.                                                *)

FrameSet == [type : FrameTypes, id : Nat, op : FrameTypes \cup {"none", "error"},
             ok : BOOLEAN, cut : BOOLEAN, mixed : BOOLEAN]

PipeSet == [n : 0..MaxConns, client : BOOLEAN, server : ServerEnds,
            c2s : Seq(FrameSet), s2c : Seq(FrameSet)]

CallSet == [at : {"idle", "writing", "waiting", "returned"}, id : 0..MaxId, on : 0..MaxConns,
            box : Seq(FrameSet), ok : BOOLEAN, answer : FrameSet]

WriteSet == [at : {"idle", "enqueue", "asleep", "await"}, to : Nat, frame : FrameSet,
             result : {"none", "ok", "error"}]

RequestSet == [by : Writers \cup {"none"}, frame : FrameSet, live : BOOLEAN]

ChannelTypes == pipe \in PipeSet /\ faults \in 0..MaxFaults

ClientTypes ==
    /\ stage \in Stages /\ conn \in 0..MaxConns /\ attempt \in 0..MaxConns
    /\ authID \in 0..MaxId /\ pending \subseteq 1..MaxId /\ nextID \in 1..(MaxId + 1)
    /\ closed \in BOOLEAN /\ cancelled \in BOOLEAN
    /\ backoff \in ReconnectMin..ReconnectMax
    /\ requestMu \in Callers \cup {"none"}
    /\ call \in [Callers -> CallSet]

ListenerTypes ==
    /\ srv \in {"listen", "accepted", "hello", "read", "respond", "lastWord", "closing",
                "joining", "finished", "create", "down"}
    /\ srvStop \in {"no", "close", "context"} /\ session \in Nat /\ controller \in BOOLEAN
    /\ lastRequestID \in Nat /\ deliveries \in 0..MaxDeliveries
    /\ serveErr = "none"

WriterTypes ==
    /\ writes \in [Writers -> WriteSet]
    /\ queue \in Seq(RequestSet) /\ Len(queue) <= QueueSize
    /\ writer \in {"none", "select", "writing", "done"}
    /\ inHand \in RequestSet /\ wClosed \in BOOLEAN /\ wCancelled \in BOOLEAN

\* A call whose response channel is registered.
Active(c) == call[c].at \in {"writing", "waiting"}

\* The connections the client has seen; without one no call is registered.
ConnInv ==
    /\ conn <= pipe.n /\ attempt <= pipe.n
    /\ closed => conn = 0
    /\ conn = 0 => pending = {}

\* requestMu belongs to the caller that writes, whose identifier is the last
\* one allocated; registered calls have identifiers of their own.
CallInv ==
    /\ \A c \in Callers : call[c].at = "writing" <=> requestMu = c
    /\ \A c \in Callers : call[c].at = "writing" => call[c].id = nextID - 1
    /\ \A c \in Callers : Active(c) => /\ call[c].id \in 1..(nextID - 1)
                                       /\ call[c].on <= pipe.n
    /\ \A c \in Callers : Len(call[c].box) <= 1
    /\ \A c, d \in Callers : Active(c) /\ Active(d) /\ call[c].id = call[d].id => c = d

\* An identifier is pending as long as nothing was sent to its call.
PendingInv ==
    /\ \A i \in pending : \E c \in Callers : Active(c) /\ call[c].id = i /\ call[c].box = <<>>
    /\ \A c \in Callers : Active(c) /\ call[c].box = <<>> => call[c].id \in pending

\* What was sent to a call is an error or the answer to its request.
BoxInv ==
    \A c \in Callers : Active(c) =>
        \A i \in DOMAIN call[c].box :
            call[c].box[i].ok => call[c].box[i].id = call[c].id /\ call[c].box[i].op = Op(c)

\* Session, controller and last identifier by the place of the listener.
SrvInv ==
    /\ srv \in {"hello", "read", "respond", "lastWord", "closing", "joining"} => session = pipe.n
    /\ srv \in {"listen", "accepted", "finished", "create", "down"} =>
          session = 0 /\ ~controller /\ lastRequestID = 0
    /\ pipe.server = "listening" => srv \in {"listen", "finished"}
    /\ srvStop = "close" => pipe.server = "none"
    /\ pipe.server = "connected" => pipe.n > 0
    /\ pipe.server = "connected" => srv \notin {"create", "down"}
    /\ writes["serve"].at # "idle" => srv \in {"hello", "respond", "lastWord"}

\* A writer that is done is closed and empty; none runs while the pipe listens.
WriterInv ==
    /\ writer \in {"none", "done"} => queue = <<>> /\ \A t \in Writers : writes[t].at # "asleep"
    /\ writer = "done" => wClosed
    /\ writer # "writing" => inHand.frame = Garbage
    /\ srv \in {"listen", "create"} => writer \in {"none", "done"}
    /\ srv = "finished" => writer \in {"none", "done"} \/ srvStop = "close"
    /\ \A t \in Writers : writes[t].at = "idle" => writes[t].frame = Garbage

\* Identifiers below this one may be in the stream.
Top == IF requestMu = "none" THEN nextID ELSE nextID - 1

\* A request in the stream, against the identifiers seen and the calls waiting.
RequestSound(f) ==
    f.type # "garbage" =>
        /\ lastRequestID < f.id /\ f.id < Top
        /\ \A c \in Callers : Active(c) /\ call[c].id = f.id => f.type = Op(c)

\* The frames of a stream carry growing identifiers.
Ordered(q) ==
    \A i, j \in DOMAIN q :
        i < j /\ q[i].type # "garbage" /\ q[j].type # "garbage" => q[i].id < q[j].id

\* Requests arrive in the order of their identifiers.
RequestsInv ==
    /\ lastRequestID < Top
    /\ \A i \in DOMAIN pipe.c2s : RequestSound(pipe.c2s[i])
    /\ Ordered(pipe.c2s)

\* Every frame on its way to the client, in the stream or still at the server.
Flight == {pipe.s2c[i] : i \in DOMAIN pipe.s2c} \cup {queue[i].frame : i \in DOMAIN queue}
             \cup {inHand.frame} \cup {writes[t].frame : t \in Writers}

\* A successful answer under way is to the request its identifier names.
ReplySound(f) ==
    /\ f.id < nextID
    /\ f.ok => \A c \in Callers : Active(c) /\ call[c].id = f.id => f.op = Op(c)

RepliesInv == \A f \in Flight : ReplySound(f)

\* The frame that tells the client it is authenticated.
Grants(f) == f.type = "response" /\ f.op = "authenticate" /\ f.ok

\* As long as the server has no controller the client does not think it has
\* one: nothing but Authenticate is on the way.
NoController == ~controller /\ srv # "finished" /\ pipe.server = "connected"

UnauthorizedInv ==
    NoController =>
        /\ conn # pipe.n
        /\ \A c \in Callers : call[c].at = "writing" => call[c].on # pipe.n
        /\ \A i \in DOMAIN pipe.c2s : pipe.c2s[i].type \in {"authenticate", "garbage"}
        /\ \A f \in Flight : ~Grants(f)

\* DeliverReply writes no answers.
DelivererInv == \A t \in Deliverers : ~Grants(writes[t].frame)

Inv ==
    /\ ChannelTypes /\ ClientTypes /\ ListenerTypes /\ WriterTypes
    /\ ConnInv /\ CallInv /\ PendingInv /\ BoxInv /\ AnswerMatches
    /\ SrvInv /\ WriterInv
    /\ RequestsInv /\ RepliesInv /\ UnauthorizedInv /\ DelivererInv

-----------------------------------------------------------------------------
(* Streams.                                                                *)

\* Every frame of the first stream is rubbish or was in the second.
Within(s, q) == \A i \in DOMAIN s : s[i] = Garbage \/ \E j \in DOMAIN q : s[i] = q[j]

\* The two frames differ only in what the stream did to them.
Alike(f, g) == f.type = g.type /\ f.id = g.id /\ f.op = g.op /\ f.ok = g.ok

\* Rubbish is a frame that names no request.
LEMMA GarbageIsFrame == Garbage \in FrameSet /\ Garbage.type = "garbage" /\ Garbage.id = 0
                            /\ ~Garbage.ok
BY DEF Garbage, Frame, FrameSet, FrameTypes, Ops

\* A stream whose first two frames have become one.
LEMMA Spliced ==
    ASSUME NEW q \in Seq(FrameSet), Len(q) > 1, NEW f \in FrameSet
    PROVE  LET s == <<f>> \o SubSeq(q, 3, Len(q))
           IN  /\ s \in Seq(FrameSet) /\ Len(s) = Len(q) - 1 /\ s[1] = f
               /\ \A i \in 2..(Len(q) - 1) : s[i] = q[i + 1]
<1>1. /\ SubSeq(q, 3, Len(q)) \in Seq(FrameSet) /\ Len(SubSeq(q, 3, Len(q))) = Len(q) - 2
      /\ \A i \in 1..(Len(q) - 2) : SubSeq(q, 3, Len(q))[i] = q[i + 2]
  OBVIOUS
<1>2. PICK t \in Seq(FrameSet) : /\ t = SubSeq(q, 3, Len(q)) /\ Len(t) = Len(q) - 2
                                 /\ \A i \in 1..(Len(q) - 2) : t[i] = q[i + 2]
  BY <1>1
<1>3. /\ <<f>> \o t \in Seq(FrameSet) /\ Len(<<f>> \o t) = Len(t) + 1 /\ (<<f>> \o t)[1] = f
      /\ \A i \in 2..(Len(t) + 1) : (<<f>> \o t)[i] = t[i - 1]
  OBVIOUS
<1> QED BY <1>2, <1>3

\* What a read takes from a stream was in it, up to rubbish.
LEMMA ReadWithin ==
    ASSUME NEW q \in Seq(FrameSet), NEW r \in readNamedPipeFrame(q)
    PROVE  /\ r.frame \in FrameSet /\ r.rest \in Seq(FrameSet)
           /\ Within(r.rest, q)
           /\ r.frame = Garbage \/ \E j \in DOMAIN q : Alike(r.frame, q[j])
<1>0. q # <<>> /\ Len(q) \in Nat /\ Len(q) > 0 /\ DOMAIN q = 1..Len(q)
  BY DEF readNamedPipeFrame
<1>1. Head(q) = q[1] /\ q[1] \in FrameSet /\ 1 \in DOMAIN q
  BY <1>0
<1>2. CASE ~Head(q).cut
  <2>1. r.frame = q[1] /\ r.rest = Tail(q)
    BY <1>0, <1>1, <1>2 DEF readNamedPipeFrame
  <2>2. Tail(q) \in Seq(FrameSet) /\ Len(Tail(q)) = Len(q) - 1
           /\ \A i \in 1..(Len(q) - 1) : Tail(q)[i] = q[i + 1]
    BY <1>0
  <2>3. Within(Tail(q), q)
    BY <1>0, <2>2 DEF Within
  <2> QED BY <1>1, <2>1, <2>2, <2>3 DEF Alike
<1>3. CASE Head(q).cut
  <2>1. Len(q) > 1
    BY <1>0, <1>3 DEF readNamedPipeFrame
  <2>2. \/ r.frame = Garbage /\ r.rest = <<>>
        \/ /\ r.frame = [q[1] EXCEPT !.cut = FALSE, !.mixed = TRUE]
           /\ r.rest = <<Garbage>> \o SubSeq(q, 3, Len(q))
    BY <1>0, <1>1, <1>3, <2>1 DEF readNamedPipeFrame
  <2>3. CASE r.frame = Garbage /\ r.rest = <<>>
    BY <2>3, GarbageIsFrame DEF Within
  <2>4. CASE /\ r.frame = [q[1] EXCEPT !.cut = FALSE, !.mixed = TRUE]
             /\ r.rest = <<Garbage>> \o SubSeq(q, 3, Len(q))
    <3>1. r.frame \in FrameSet /\ Alike(r.frame, q[1])
      BY <1>1, <2>4 DEF FrameSet, Alike
    <3>2. PICK s : s = r.rest
      OBVIOUS
    <3>3. /\ s \in Seq(FrameSet) /\ Len(s) = Len(q) - 1 /\ s[1] = Garbage
          /\ \A i \in 2..(Len(q) - 1) : s[i] = q[i + 1]
      BY <2>1, <2>4, <3>2, GarbageIsFrame, Spliced
    <3>4. DOMAIN s = 1..(Len(q) - 1)
      BY <3>3
    <3>5. ASSUME NEW i \in DOMAIN s PROVE s[i] = Garbage \/ \E j \in DOMAIN q : s[i] = q[j]
      <4>1. i = 1 \/ (i \in 2..(Len(q) - 1) /\ i + 1 \in DOMAIN q)
        BY <1>0, <3>4
      <4> QED BY <3>3, <4>1
    <3> QED BY <1>1, <3>1, <3>2, <3>3, <3>5 DEF Within
  <2> QED BY <2>2, <2>3, <2>4
<1> QED BY <1>2, <1>3

\* A read keeps the order of the identifiers, and takes the first of them.
LEMMA ReadOrdered ==
    ASSUME NEW q \in Seq(FrameSet), NEW r \in readNamedPipeFrame(q), Ordered(q)
    PROVE  /\ Ordered(r.rest)
           /\ r.frame.type # "garbage" =>
                 \A i \in DOMAIN r.rest : r.rest[i].type # "garbage" => r.frame.id < r.rest[i].id
<1>0. q # <<>> /\ Len(q) \in Nat /\ Len(q) > 0 /\ DOMAIN q = 1..Len(q)
  BY DEF readNamedPipeFrame
<1>1. Head(q) = q[1] /\ q[1] \in FrameSet /\ 1 \in DOMAIN q
  BY <1>0
<1>2. CASE ~Head(q).cut
  <2>1. r.frame = q[1] /\ r.rest = Tail(q)
    BY <1>0, <1>1, <1>2 DEF readNamedPipeFrame
  <2>2. /\ Tail(q) \in Seq(FrameSet) /\ DOMAIN Tail(q) = 1..(Len(q) - 1)
        /\ \A i \in 1..(Len(q) - 1) : Tail(q)[i] = q[i + 1] /\ i + 1 \in DOMAIN q
    BY <1>0
  <2>3. PICK s : s = Tail(q)
    OBVIOUS
  <2>4. DOMAIN s = 1..(Len(q) - 1) /\ \A i \in DOMAIN s : s[i] = q[i + 1] /\ i + 1 \in DOMAIN q
    BY <2>2, <2>3
  <2>5. ASSUME NEW i \in DOMAIN s, NEW j \in DOMAIN s, i < j,
               s[i].type # "garbage", s[j].type # "garbage"
        PROVE  s[i].id < s[j].id
    <3>1. i + 1 \in DOMAIN q /\ j + 1 \in DOMAIN q /\ i + 1 < j + 1 /\ s[i] = q[i + 1] /\ s[j] = q[j + 1]
      BY <1>0, <2>4, <2>5
    <3> QED BY <2>5, <3>1 DEF Ordered
  <2>6. ASSUME NEW i \in DOMAIN s, q[1].type # "garbage", s[i].type # "garbage"
        PROVE  q[1].id < s[i].id
    <3>1. i + 1 \in DOMAIN q /\ 1 < i + 1 /\ s[i] = q[i + 1]
      BY <1>0, <2>4, <2>6
    <3> QED BY <1>1, <2>6, <3>1 DEF Ordered
  <2> QED BY <2>1, <2>3, <2>5, <2>6 DEF Ordered
<1>3. CASE Head(q).cut
  <2>1. Len(q) > 1
    BY <1>0, <1>3 DEF readNamedPipeFrame
  <2>2. \/ r.frame = Garbage /\ r.rest = <<>>
        \/ /\ r.frame = [q[1] EXCEPT !.cut = FALSE, !.mixed = TRUE]
           /\ r.rest = <<Garbage>> \o SubSeq(q, 3, Len(q))
    BY <1>0, <1>1, <1>3, <2>1 DEF readNamedPipeFrame
  <2>3. CASE r.frame = Garbage /\ r.rest = <<>>
    BY <2>3, GarbageIsFrame DEF Ordered
  <2>4. CASE /\ r.frame = [q[1] EXCEPT !.cut = FALSE, !.mixed = TRUE]
             /\ r.rest = <<Garbage>> \o SubSeq(q, 3, Len(q))
    <3>1. r.frame.type = q[1].type /\ r.frame.id = q[1].id
      BY <1>1, <2>4 DEF FrameSet
    <3>2. PICK s : s = r.rest
      OBVIOUS
    <3>3. /\ s \in Seq(FrameSet) /\ Len(s) = Len(q) - 1 /\ s[1].type = "garbage"
          /\ \A i \in 2..(Len(q) - 1) : s[i] = q[i + 1]
      BY <2>1, <2>4, <3>2, GarbageIsFrame, Spliced
    <3>4. DOMAIN s = 1..(Len(q) - 1)
      BY <3>3
    <3>5. ASSUME NEW i \in DOMAIN s, s[i].type # "garbage"
          PROVE  s[i] = q[i + 1] /\ i + 1 \in DOMAIN q /\ 1 < i + 1 /\ i \in Nat
      BY <1>0, <3>3, <3>4, <3>5
    <3>6. ASSUME NEW i \in DOMAIN s, NEW j \in DOMAIN s, i < j,
                 s[i].type # "garbage", s[j].type # "garbage"
          PROVE  s[i].id < s[j].id
      <4>1. i + 1 < j + 1
        BY <3>4, <3>6
      <4> QED BY <3>5, <3>6, <4>1 DEF Ordered
    <3>7. ASSUME NEW i \in DOMAIN s, q[1].type # "garbage", s[i].type # "garbage"
          PROVE  q[1].id < s[i].id
      BY <1>1, <3>5, <3>7 DEF Ordered
    <3> QED BY <3>1, <3>2, <3>6, <3>7 DEF Ordered
  <2> QED BY <2>2, <2>3, <2>4
<1> QED BY <1>2, <1>3

\* So does a read that takes in a whole later frame.
LEMMA SwallowedOrdered ==
    ASSUME NEW q \in Seq(FrameSet), Len(q) > 1
    PROVE  /\ Swallowed(q) \in Seq(FrameSet) /\ Within(Swallowed(q), q)
           /\ Ordered(q) => Ordered(Swallowed(q))
<1>1. q[1] \in FrameSet /\ Head(q) = q[1] /\ DOMAIN q = 1..Len(q) /\ Len(q) \in Nat
  OBVIOUS
<1>2. PICK s : s = Swallowed(q)
  OBVIOUS
<1>3. /\ s \in Seq(FrameSet) /\ Len(s) = Len(q) - 1 /\ s[1] = q[1]
      /\ \A i \in 2..(Len(q) - 1) : s[i] = q[i + 1]
  BY <1>1, <1>2, Spliced DEF Swallowed
<1>4. DOMAIN s = 1..(Len(q) - 1)
  BY <1>3
<1>5. \A i \in DOMAIN s : \E j \in DOMAIN q : s[i] = q[j]
  BY <1>1, <1>3, <1>4
<1>6. ASSUME Ordered(q), NEW i \in DOMAIN s, NEW j \in DOMAIN s, i < j,
             s[i].type # "garbage", s[j].type # "garbage"
      PROVE  s[i].id < s[j].id
  <2>1. j \in 2..(Len(q) - 1) /\ j + 1 \in DOMAIN q /\ s[j] = q[j + 1]
    BY <1>1, <1>3, <1>4, <1>6
  <2>2. CASE i = 1
    BY <1>1, <1>3, <1>6, <2>1, <2>2 DEF Ordered
  <2>3. CASE i # 1
    <3>1. i \in 2..(Len(q) - 1) /\ i + 1 \in DOMAIN q /\ s[i] = q[i + 1] /\ i + 1 < j + 1
      BY <1>1, <1>3, <1>4, <1>6, <2>3
    <3> QED BY <1>6, <2>1, <3>1 DEF Ordered
  <2> QED BY <2>2, <2>3
<1> QED BY <1>2, <1>3, <1>5, <1>6 DEF Within, Ordered

\* A frame with a greater identifier than all before it keeps the order.
LEMMA AppendOrdered ==
    ASSUME NEW q \in Seq(FrameSet), NEW f \in FrameSet, Ordered(q),
           \A i \in DOMAIN q : q[i].type # "garbage" => q[i].id < f.id
    PROVE  Ordered(Append(q, f))
<1>1. /\ DOMAIN Append(q, f) = 1..(Len(q) + 1) /\ Len(q) \in Nat /\ DOMAIN q = 1..Len(q)
      /\ Append(q, f)[Len(q) + 1] = f
      /\ \A i \in 1..Len(q) : Append(q, f)[i] = q[i]
  OBVIOUS
<1>2. PICK s : s = Append(q, f)
  OBVIOUS
<1>3. /\ DOMAIN s = 1..(Len(q) + 1) /\ s[Len(q) + 1] = f /\ \A i \in DOMAIN q : s[i] = q[i]
  BY <1>1, <1>2
<1>4. ASSUME NEW i \in DOMAIN s, NEW j \in DOMAIN s, i < j,
             s[i].type # "garbage", s[j].type # "garbage"
      PROVE  s[i].id < s[j].id
  <2>1. i \in DOMAIN q /\ s[i] = q[i]
    BY <1>1, <1>3, <1>4
  <2>2. CASE j \in DOMAIN q
    BY <1>3, <1>4, <2>1, <2>2 DEF Ordered
  <2>3. CASE j \notin DOMAIN q
    BY <1>1, <1>3, <1>4, <2>1, <2>3
  <2> QED BY <2>2, <2>3
<1> QED BY <1>2, <1>4 DEF Ordered

\* The ends of a pipe that a step changes, and the rest of it.
LEMMA PipeUpdates ==
    ASSUME pipe \in PipeSet
    PROVE  /\ pipe.n \in 0..MaxConns /\ pipe.client \in BOOLEAN /\ pipe.server \in ServerEnds
           /\ pipe.c2s \in Seq(FrameSet) /\ pipe.s2c \in Seq(FrameSet)
           /\ \A q \in Seq(FrameSet) :
                 /\ [pipe EXCEPT !.s2c = q] \in PipeSet /\ [pipe EXCEPT !.s2c = q].s2c = q
                 /\ [pipe EXCEPT !.s2c = q].c2s = pipe.c2s /\ [pipe EXCEPT !.s2c = q].n = pipe.n
                 /\ [pipe EXCEPT !.s2c = q].server = pipe.server
           /\ \A q \in Seq(FrameSet) :
                 /\ [pipe EXCEPT !.c2s = q] \in PipeSet /\ [pipe EXCEPT !.c2s = q].c2s = q
                 /\ [pipe EXCEPT !.c2s = q].s2c = pipe.s2c /\ [pipe EXCEPT !.c2s = q].n = pipe.n
                 /\ [pipe EXCEPT !.c2s = q].server = pipe.server
<1>1. /\ pipe.n \in 0..MaxConns /\ pipe.client \in BOOLEAN /\ pipe.server \in ServerEnds
      /\ pipe.c2s \in Seq(FrameSet) /\ pipe.s2c \in Seq(FrameSet)
  BY DEF PipeSet
<1>2. ASSUME NEW q \in Seq(FrameSet)
      PROVE  /\ [pipe EXCEPT !.s2c = q] \in PipeSet /\ [pipe EXCEPT !.s2c = q].s2c = q
             /\ [pipe EXCEPT !.s2c = q].c2s = pipe.c2s /\ [pipe EXCEPT !.s2c = q].n = pipe.n
             /\ [pipe EXCEPT !.s2c = q].server = pipe.server
  BY DEF PipeSet
<1>3. ASSUME NEW q \in Seq(FrameSet)
      PROVE  /\ [pipe EXCEPT !.c2s = q] \in PipeSet /\ [pipe EXCEPT !.c2s = q].c2s = q
             /\ [pipe EXCEPT !.c2s = q].s2c = pipe.s2c /\ [pipe EXCEPT !.c2s = q].n = pipe.n
             /\ [pipe EXCEPT !.c2s = q].server = pipe.server
  BY DEF PipeSet
<1> QED BY <1>1, <1>2, <1>3

\* What is left of a pipe when one of its ends is closed.
LEMMA EndsClosed ==
    ASSUME pipe \in PipeSet
    PROVE  /\ ClientEndClosed(pipe) \in PipeSet /\ ClientEndClosed(pipe).n = pipe.n
           /\ ClientEndClosed(pipe).server = pipe.server
           /\ ClientEndClosed(pipe).c2s = pipe.c2s /\ ClientEndClosed(pipe).s2c = <<>>
           /\ ServerEndClosed(pipe) \in PipeSet /\ ServerEndClosed(pipe).n = pipe.n
           /\ ServerEndClosed(pipe).server = "none"
           /\ ServerEndClosed(pipe).c2s = <<>> /\ ServerEndClosed(pipe).s2c = <<>>
<1>0. <<>> \in Seq(FrameSet)
  BY EmptySeq
<1>1. PICK e \in Seq(FrameSet) : e = <<>>
  BY <1>0
<1>2. PICK none \in ServerEnds : none = "none"
  BY DEF ServerEnds
<1>3. PICK no \in BOOLEAN : no = FALSE
  OBVIOUS
<1>4. PICK p : p = [pipe EXCEPT !.client = no, !.s2c = e]
  OBVIOUS
<1>5. p \in PipeSet /\ p.n = pipe.n /\ p.server = pipe.server /\ p.c2s = pipe.c2s /\ p.s2c = e
  BY <1>4 DEF PipeSet
<1>6. PICK z : z = [pipe EXCEPT !.server = none, !.c2s = e, !.s2c = e]
  OBVIOUS
<1>7. z \in PipeSet /\ z.n = pipe.n /\ z.server = none /\ z.c2s = e /\ z.s2c = e
  BY <1>6 DEF PipeSet
<1>8. p = ClientEndClosed(pipe) /\ z = ServerEndClosed(pipe)
  BY <1>1, <1>2, <1>3, <1>4, <1>6 DEF ClientEndClosed, ServerEndClosed
<1> QED BY <1>1, <1>2, <1>5, <1>7, <1>8

-----------------------------------------------------------------------------
(* What the steps of the client leave to the frames under way.             *)

\* A call that is registered after a step was registered before it under the
\* same identifier, or has the identifier that was next.
CallsMove ==
    \A c \in Callers : Active(c)' => \/ Active(c) /\ call'[c].id = call[c].id
                                     \/ call'[c].id = nextID

\* The identifiers in the stream are below the next one to be allocated.
LEMMA TopBounds ==
    ASSUME ClientTypes
    PROVE  Top \in Nat /\ Top <= nextID /\ nextID \in Nat
BY ClientAssumption DEF ClientTypes, Top

\* Requests stay sound in a stream that only loses its beginning or nothing.
LEMMA RequestKept ==
    ASSUME ClientTypes, ListenerTypes, CallsMove, Top <= Top', Top' \in Nat,
           UNCHANGED lastRequestID,
           NEW f \in FrameSet, RequestSound(f)
    PROVE  RequestSound(f)'
<1>1. f.id \in Nat /\ Top \in Nat /\ Top <= nextID /\ nextID \in Nat
  BY TopBounds DEF FrameSet
<1>2. CASE f.type # "garbage"
  <2>1. lastRequestID < f.id /\ f.id < Top
    BY <1>2 DEF RequestSound
  <2>2. lastRequestID' < f.id /\ f.id < Top'
    BY <1>1, <2>1 DEF ListenerTypes
  <2>3. ASSUME NEW c \in Callers, Active(c)', call'[c].id = f.id PROVE f.type = Op(c)
    <3>1. f.id # nextID
      BY <1>1, <2>1
    <3> QED BY <1>2, <2>3, <3>1 DEF CallsMove, RequestSound
  <2> QED BY <2>2, <2>3 DEF RequestSound, Op
<1> QED BY <1>2 DEF RequestSound

\* Calls that return or write nothing leave the requests in the stream sound.
LEMMA RequestsKept ==
    ASSUME ChannelTypes, ClientTypes, ListenerTypes, RequestsInv, CallsMove,
           Top <= Top', Top' \in Nat, UNCHANGED lastRequestID, pipe'.c2s = pipe.c2s
    PROVE  RequestsInv'
<1>1. pipe.c2s \in Seq(FrameSet)
  BY PipeUpdates DEF ChannelTypes
<1>2. ASSUME NEW i \in DOMAIN pipe.c2s PROVE RequestSound(pipe.c2s[i])'
  <2>1. PICK f \in FrameSet : f = pipe.c2s[i]
    BY <1>1
  <2>2. RequestSound(f)
    BY <2>1 DEF RequestsInv
  <2>3. RequestSound(f)'
    BY <2>2, RequestKept
  <2>4. f' = f /\ pipe'.c2s[i] = f
    BY <2>1
  <2> QED BY <2>3, <2>4 DEF RequestSound
<1>3. lastRequestID' < Top'
  BY TopBounds DEF RequestsInv, ListenerTypes
<1> QED BY <1>2, <1>3 DEF RequestsInv, Ordered

\* A request goes out with the identifier that the stream has not reached.
LEMMA RequestSent ==
    ASSUME ChannelTypes, ClientTypes, ListenerTypes, RequestsInv, CallsMove,
           Top < Top', Top' \in Nat, UNCHANGED lastRequestID,
           NEW f \in FrameSet, f.id = Top, pipe'.c2s = Append(pipe.c2s, f),
           \A c \in Callers : Active(c)' /\ call'[c].id = f.id => f.type = Op(c)
    PROVE  RequestsInv'
<1>1. pipe.c2s \in Seq(FrameSet)
  BY PipeUpdates DEF ChannelTypes
<1>2. PICK q \in Seq(FrameSet) : q = pipe.c2s
  BY <1>1
<1>3. Top \in Nat /\ lastRequestID \in Nat /\ lastRequestID < Top
  BY TopBounds DEF RequestsInv, ListenerTypes
<1>4. \A i \in DOMAIN q : RequestSound(q[i]) /\ q[i] \in FrameSet
  BY <1>2 DEF RequestsInv
<1>5. \A i \in DOMAIN q : RequestSound(q[i])'
  <2> TAKE i \in DOMAIN q
  <2>1. PICK g \in FrameSet : g = q[i]
    BY <1>4
  <2>2. RequestSound(g)'
    BY <1>3, <1>4, <2>1, RequestKept
  <2> QED BY <2>1, <2>2
<1>6. RequestSound(f)'
  BY <1>3 DEF RequestSound, Op
<1>7. Ordered(Append(q, f))
  <2>1. Ordered(q) /\ \A i \in DOMAIN q : q[i].type # "garbage" => q[i].id < f.id
    BY <1>2, <1>4 DEF RequestsInv, RequestSound
  <2> QED BY <2>1, AppendOrdered
<1>8. /\ DOMAIN Append(q, f) = 1..(Len(q) + 1) /\ Len(q) \in Nat /\ DOMAIN q = 1..Len(q)
      /\ Append(q, f)[Len(q) + 1] = f /\ \A i \in 1..Len(q) : Append(q, f)[i] = q[i]
  OBVIOUS
<1>9. PICK z : z = Append(q, f)
  OBVIOUS
<1>10. \A i \in DOMAIN z : z[i] = f \/ (i \in DOMAIN q /\ z[i] = q[i])
  BY <1>8, <1>9
<1>11. \A i \in DOMAIN z : RequestSound(z[i])'
  BY <1>5, <1>6, <1>10 DEF RequestSound
<1>12. lastRequestID' < Top'
  BY <1>3
<1>13. pipe'.c2s = z
  BY <1>2, <1>9
<1> QED BY <1>7, <1>9, <1>11, <1>12, <1>13 DEF RequestsInv, Ordered, RequestSound

\* An answer under way stays sound whatever the calls do.
LEMMA ReplyKept ==
    ASSUME ClientTypes, CallsMove, nextID <= nextID', nextID' \in Nat,
           NEW f \in FrameSet, ReplySound(f)
    PROVE  ReplySound(f)'
<1>1. f.id \in Nat /\ nextID \in Nat /\ f.id < nextID
  BY TopBounds DEF FrameSet, ReplySound
<1>2. f.id < nextID'
  BY <1>1
<1>3. ASSUME f.ok, NEW c \in Callers, Active(c)', call'[c].id = f.id PROVE f.op = Op(c)
  BY <1>1, <1>3 DEF CallsMove, ReplySound
<1> QED BY <1>2, <1>3 DEF ReplySound, Op

\* Everything in flight is a frame.
LEMMA FlightTypes ==
    ASSUME ChannelTypes, WriterTypes
    PROVE  Flight \subseteq FrameSet
<1>1. pipe.s2c \in Seq(FrameSet)
  BY PipeUpdates DEF ChannelTypes
<1>2. \A i \in DOMAIN queue : queue[i] \in RequestSet
  BY DEF WriterTypes
<1>3. \A i \in DOMAIN queue : queue[i].frame \in FrameSet
  BY <1>2 DEF RequestSet
<1>4. inHand.frame \in FrameSet
  BY DEF WriterTypes, RequestSet
<1>5. \A t \in Writers : writes[t].frame \in FrameSet
  BY DEF WriterTypes, WriteSet
<1>6. \A i \in DOMAIN pipe.s2c : pipe.s2c[i] \in FrameSet
  BY <1>1
<1> QED BY <1>3, <1>4, <1>5, <1>6 DEF Flight

\* What the client reads only takes frames out of flight.
LEMMA FlightShrinks ==
    ASSUME Within(pipe'.s2c, pipe.s2c), UNCHANGED serverVars, NEW f, f \in Flight'
    PROVE  f \in Flight \/ f = Garbage
<1>1. UNCHANGED <<queue, inHand, writes>>
  BY DEF serverVars, writerVars
<1>2. CASE \E i \in DOMAIN pipe'.s2c : f = pipe'.s2c[i]
  BY <1>2 DEF Within, Flight
<1>3. CASE f \notin {pipe'.s2c[i] : i \in DOMAIN pipe'.s2c}
  BY <1>1, <1>3 DEF Flight
<1> QED BY <1>2, <1>3

\* A client that only reads leaves every answer under way sound.
LEMMA RepliesKept ==
    ASSUME ChannelTypes, ClientTypes, WriterTypes, RepliesInv, CallsMove,
           nextID <= nextID', nextID' \in Nat,
           Within(pipe'.s2c, pipe.s2c), UNCHANGED serverVars
    PROVE  RepliesInv'
<1>1. ReplySound(Garbage) /\ Garbage \in FrameSet
  BY GarbageIsFrame, ClientAssumption DEF ReplySound, ClientTypes
<1>2. ASSUME NEW f \in Flight' PROVE ReplySound(f)'
  <2>1. f \in Flight \/ f = Garbage
    BY FlightShrinks
  <2>2. f \in FrameSet /\ ReplySound(f)
    BY <1>1, <2>1, FlightTypes DEF RepliesInv
  <2> QED BY <2>2, ReplyKept
<1> QED BY <1>2 DEF RepliesInv

\* Without a controller nothing that the client does makes it think it has one.
LEMMA UnauthorizedKept ==
    ASSUME UnauthorizedInv, SrvInv, ChannelTypes,
           conn' \in {conn, 0}, UNCHANGED serverVars,
           pipe'.n = pipe.n, pipe'.server = pipe.server, Within(pipe'.s2c, pipe.s2c),
           \A c \in Callers : call'[c].at = "writing" =>
               \/ call[c].at = "writing" /\ call'[c].on = call[c].on
               \/ call'[c].on = conn,
           NoController => \A i \in DOMAIN pipe'.c2s : pipe'.c2s[i].type \in {"authenticate", "garbage"}
    PROVE  UnauthorizedInv'
<1> SUFFICES ASSUME NoController'
    PROVE  /\ conn' # pipe'.n
           /\ \A c \in Callers : call'[c].at = "writing" => call'[c].on # pipe'.n
           /\ \A i \in DOMAIN pipe'.c2s : pipe'.c2s[i].type \in {"authenticate", "garbage"}
           /\ \A f \in Flight' : ~Grants(f)
  BY DEF UnauthorizedInv, Grants
<1>1. NoController
  BY DEF NoController, serverVars, listenerVars
<1>2. /\ conn # pipe.n
      /\ \A c \in Callers : call[c].at = "writing" => call[c].on # pipe.n
      /\ \A f \in Flight : ~Grants(f)
  BY <1>1 DEF UnauthorizedInv
<1>3. 0 # pipe.n
  BY <1>1 DEF SrvInv, NoController
<1>4. conn' # pipe'.n
  BY <1>2, <1>3
<1>5. \A f \in Flight' : ~Grants(f)
  BY <1>2, FlightShrinks, GarbageIsFrame DEF Grants
<1>6. \A c \in Callers : call'[c].at = "writing" => call'[c].on # pipe'.n
  BY <1>2
<1> QED BY <1>1, <1>4, <1>5, <1>6

\* The server's side of the invariant does not depend on what the client keeps.
LEMMA ServerUntouched ==
    ASSUME ListenerTypes, WriterTypes, SrvInv, WriterInv, DelivererInv, UNCHANGED serverVars,
           pipe'.n = pipe.n, pipe'.server = pipe.server
    PROVE  ListenerTypes' /\ WriterTypes' /\ SrvInv' /\ WriterInv' /\ DelivererInv'
<1>1. UNCHANGED <<srv, srvStop, session, controller, lastRequestID, serveErr, deliveries,
                  writes, queue, writer, inHand, wClosed, wCancelled>>
  BY DEF serverVars, listenerVars, writerVars
<1>2. ListenerTypes' /\ WriterTypes'
  BY <1>1 DEF ListenerTypes, WriterTypes
<1>3. SrvInv'
  BY <1>1 DEF SrvInv
<1>4. WriterInv'
  BY <1>1 DEF WriterInv
<1> QED BY <1>1, <1>2, <1>3, <1>4 DEF DelivererInv, Grants

-----------------------------------------------------------------------------
(* The calls of the client.                                                *)

CallsInv == CallInv /\ PendingInv /\ BoxInv /\ AnswerMatches

\* The fields of a call, one by one.
LEMMA CallFields ==
    ASSUME ClientTypes, NEW c \in Callers
    PROVE  /\ call[c] \in CallSet /\ call[c].id \in Nat /\ call[c].box \in Seq(FrameSet)
           /\ call[c].at \in {"idle", "writing", "waiting", "returned"}
           /\ call[c].on \in 0..MaxConns /\ call[c].id \in 0..MaxId
           /\ call[c].ok \in BOOLEAN /\ call[c].answer \in FrameSet
<1>1. call[c] \in CallSet
  BY DEF ClientTypes
<1>2. PICK r \in CallSet : r = call[c]
  BY <1>1
<1>3. r.id \in 0..MaxId /\ r.on \in 0..MaxConns /\ r.box \in Seq(FrameSet)
  BY DEF CallSet
<1>4. /\ r.at \in {"idle", "writing", "waiting", "returned"}
      /\ r.ok \in BOOLEAN /\ r.answer \in FrameSet
  BY DEF CallSet
<1>5. \A i \in 0..MaxId : i \in Nat
  BY ClientAssumption
<1> QED BY <1>1, <1>2, <1>3, <1>4, <1>5

\* A response channel that was sent one frame.
LEMMA Singleton ==
    ASSUME NEW f \in FrameSet
    PROVE  <<f>> \in Seq(FrameSet) /\ Len(<<f>>) = 1 /\ Append(<<>>, f) = <<f>>
<1>1. <<f>> \in Seq(FrameSet) /\ Len(<<f>>) = 1
  OBVIOUS
<1>2. Append(<<>>, f) = <<f>>
  OBVIOUS
<1> QED BY <1>1, <1>2

\* A call that was sent something holds just that.
LEMMA SentCalls ==
    ASSUME ClientTypes, CallsInv, NEW ids \in SUBSET pending, NEW f \in FrameSet,
           f.ok => \A c \in Waiting(ids) : f.id = call[c].id /\ f.op = Op(c),
           pending' = pending \ ids, call' = Send(ids, f),
           UNCHANGED <<nextID, requestMu>>, pipe'.n = pipe.n
    PROVE  /\ call' \in [Callers -> CallSet] /\ CallsInv' /\ CallsMove
           /\ \A c \in Callers : call'[c].at = call[c].at /\ call'[c].on = call[c].on
<1>1. ASSUME NEW c \in Callers
      PROVE  /\ call'[c] \in CallSet
             /\ call'[c].at = call[c].at /\ call'[c].on = call[c].on /\ call'[c].id = call[c].id
             /\ call'[c].ok = call[c].ok /\ call'[c].answer = call[c].answer
             /\ c \in Waiting(ids) => call[c].box = <<>> /\ call'[c].box = <<f>>
             /\ c \notin Waiting(ids) => call'[c].box = call[c].box
  <2>0. call[c] \in CallSet /\ call[c].box \in Seq(FrameSet)
    BY CallFields
  <2>1. CASE c \in Waiting(ids)
    <3>1. call[c].box = <<>>
      <4>1. PICK d \in Callers : Active(d) /\ call[d].id = call[c].id /\ call[d].box = <<>>
        BY <2>1 DEF Waiting, CallsInv, PendingInv
      <4>2. Active(c)
        BY <2>1 DEF Waiting, Active
      <4> QED BY <4>1, <4>2 DEF CallsInv, CallInv
    <3>2. call'[c] = [call[c] EXCEPT !.box = Append(call[c].box, f)]
      BY <2>1 DEF Send
    <3>3. PICK b \in Seq(FrameSet) : b = Append(call[c].box, f) /\ b = <<f>>
      BY <2>0, <3>1, Singleton
    <3>4. call'[c] = [call[c] EXCEPT !.box = b]
      BY <3>2, <3>3
    <3>5. /\ call'[c] \in CallSet /\ call'[c].box = b
          /\ call'[c].at = call[c].at /\ call'[c].on = call[c].on /\ call'[c].id = call[c].id
          /\ call'[c].ok = call[c].ok /\ call'[c].answer = call[c].answer
      BY <2>0, <3>4 DEF CallSet
    <3> QED BY <2>1, <3>1, <3>3, <3>5
  <2>2. CASE c \notin Waiting(ids)
    <3>1. call'[c] = call[c]
      BY <2>2 DEF Send
    <3> QED BY <2>0, <2>2, <3>1
  <2> QED BY <2>1, <2>2
<1>2. call' \in [Callers -> CallSet]
  <2>1. call' = [c \in Callers |-> call'[c]]
    BY DEF Send
  <2> QED BY <1>1, <2>1
<1>3. \A c \in Callers : Active(c)' <=> Active(c)
  BY <1>1 DEF Active
<1>4. CallInv'
  <2>1. \A c \in Callers : Len(call'[c].box) <= 1
    <3> TAKE c \in Callers
    <3>1. CASE c \in Waiting(ids)
      <4>1. call'[c].box = <<f>>
        BY <1>1, <3>1
      <4>2. Len(<<f>>) <= 1
        BY Singleton
      <4> QED BY <4>1, <4>2
    <3>2. CASE c \notin Waiting(ids)
      BY <1>1, <3>2 DEF CallsInv, CallInv
    <3> QED BY <3>1, <3>2
  <2> QED BY <1>1, <1>3, <2>1 DEF CallsInv, CallInv
<1>5. PendingInv'
  <2>1. ASSUME NEW i \in pending'
        PROVE \E c \in Callers : Active(c)' /\ call'[c].id = i /\ call'[c].box = <<>>
    <3>1. PICK c \in Callers : Active(c) /\ call[c].id = i /\ call[c].box = <<>>
      BY <2>1 DEF CallsInv, PendingInv
    <3>2. c \notin Waiting(ids)
      BY <2>1, <3>1 DEF Waiting
    <3> QED BY <1>1, <1>3, <3>1, <3>2
  <2>2. ASSUME NEW c \in Callers, Active(c)', call'[c].box = <<>> PROVE call'[c].id \in pending'
    <3>1. c \notin Waiting(ids)
      BY <1>1, <2>2
    <3>2. call[c].id \in pending /\ Active(c)
      BY <1>1, <1>3, <2>2, <3>1 DEF CallsInv, PendingInv
    <3>3. call[c].id \notin ids
      BY <3>1, <3>2 DEF Waiting, Active
    <3> QED BY <1>1, <3>2, <3>3
  <2> QED BY <2>1, <2>2 DEF PendingInv
<1>6. BoxInv'
  <2> SUFFICES ASSUME NEW c \in Callers, Active(c)', NEW i \in DOMAIN call'[c].box, call'[c].box[i].ok
               PROVE  call'[c].box[i].id = call'[c].id /\ call'[c].box[i].op = Op(c)
    BY DEF BoxInv, Op
  <2>1. CASE c \in Waiting(ids)
    <3>1. call'[c].box = <<f>> /\ call'[c].id = call[c].id
      BY <1>1, <2>1
    <3>2. i = 1 /\ call'[c].box[i] = f
      BY <3>1
    <3> QED BY <2>1, <3>1, <3>2
  <2>2. CASE c \notin Waiting(ids)
    BY <1>1, <1>3, <2>2 DEF CallsInv, BoxInv
  <2> QED BY <2>1, <2>2
<1>7. AnswerMatches'
  BY <1>1 DEF CallsInv, AnswerMatches, Op
<1>8. CallsMove
  BY <1>1, <1>3 DEF CallsMove
<1> QED BY <1>1, <1>2, <1>4, <1>5, <1>6, <1>7, <1>8 DEF CallsInv

\* The record of a call that has returned.
LEMMA ReturnedCall ==
    ASSUME ClientTypes, NEW c \in Callers, NEW ok \in BOOLEAN, NEW f \in FrameSet
    PROVE  /\ Returned(c, ok, f) \in [Callers -> CallSet]
           /\ \A d \in Callers \ {c} : Returned(c, ok, f)[d] = call[d]
           /\ Returned(c, ok, f)[c].at = "returned" /\ Returned(c, ok, f)[c].box = <<>>
           /\ Returned(c, ok, f)[c].ok = ok
           /\ ok => Returned(c, ok, f)[c].id = call[c].id /\ Returned(c, ok, f)[c].answer = f
<1>1. PICK e \in Seq(FrameSet) : e = <<>>
  BY EmptySeq
<1>2. PICK at \in {"idle", "writing", "waiting", "returned"} : at = "returned"
  OBVIOUS
<1>3. PICK yes \in BOOLEAN : yes = TRUE
  OBVIOUS
<1>4. NoCall \in CallSet /\ NoCall.box = e /\ NoCall.ok = FALSE
  BY <1>1, ClientAssumption, GarbageIsFrame DEF NoCall, CallSet
<1>5. PICK id \in 0..MaxId : id = call[c].id
  BY CallFields
<1>6. PICK n \in CallSet : n = NoCall /\ n.box = e /\ n.ok = FALSE
  BY <1>4
<1>7. PICK r : r = [n EXCEPT !.at = at, !.id = id, !.ok = yes, !.answer = f]
  OBVIOUS
<1>8. r \in CallSet /\ r.at = at /\ r.id = id /\ r.ok = yes /\ r.answer = f /\ r.box = e
  BY <1>6, <1>7 DEF CallSet
<1>9. PICK s : s = [n EXCEPT !.at = at]
  OBVIOUS
<1>10. s \in CallSet /\ s.at = at /\ s.ok = FALSE /\ s.box = e
  BY <1>6, <1>9 DEF CallSet
<1>11. Returned(c, ok, f) = [call EXCEPT ![c] = IF ok THEN r ELSE s]
  BY <1>2, <1>3, <1>5, <1>6, <1>7, <1>9 DEF Returned
<1>12. call \in [Callers -> CallSet]
  BY DEF ClientTypes
<1> QED BY <1>1, <1>2, <1>3, <1>5, <1>8, <1>10, <1>11, <1>12

\* A registered call returns.
LEMMA ReturnedCalls ==
    ASSUME ClientTypes, CallsInv, NEW c \in Callers, Active(c), NEW ok \in BOOLEAN, NEW f \in FrameSet,
           ok => f.id = call[c].id /\ f.op = Op(c),
           pending' = pending \ {call[c].id}, call' = Returned(c, ok, f),
           requestMu' = (IF requestMu = c THEN "none" ELSE requestMu), UNCHANGED nextID,
           pipe'.n = pipe.n
    PROVE  /\ call' \in [Callers -> CallSet] /\ CallsInv' /\ CallsMove
           /\ \A d \in Callers : call'[d].at = "writing" =>
                 call[d].at = "writing" /\ call'[d].on = call[d].on
<1>1. /\ call' \in [Callers -> CallSet]
      /\ \A d \in Callers \ {c} : call'[d] = call[d]
      /\ call'[c].at = "returned" /\ call'[c].box = <<>> /\ call'[c].ok = ok
      /\ ok => call'[c].id = call[c].id /\ call'[c].answer = f
  BY ReturnedCall
<1>2. ~Active(c)' /\ \A d \in Callers \ {c} : Active(d)' <=> Active(d)
  BY <1>1 DEF Active
<1>3. CallInv'
  <2>1. \A d \in Callers : call'[d].at = "writing" <=> requestMu' = d
    <3> TAKE d \in Callers
    <3>1. CASE d = c
      BY <1>1, <3>1, ClientAssumption
    <3>2. CASE d # c
      BY <1>1, <3>2, ClientAssumption DEF CallsInv, CallInv
    <3> QED BY <3>1, <3>2
  <2>2. \A d \in Callers : Len(call'[d].box) <= 1
    <3> TAKE d \in Callers
    <3>1. CASE d = c
      BY <1>1, <3>1
    <3>2. CASE d # c
      BY <1>1, <3>2 DEF CallsInv, CallInv
    <3> QED BY <3>1, <3>2
  <2>3. \A d \in Callers : call'[d].at = "writing" => call'[d].id = nextID' - 1
    BY <1>1 DEF CallsInv, CallInv
  <2> QED BY <1>1, <1>2, <2>1, <2>2, <2>3 DEF CallsInv, CallInv
<1>4. PendingInv'
  <2>1. ASSUME NEW i \in pending'
        PROVE \E d \in Callers : Active(d)' /\ call'[d].id = i /\ call'[d].box = <<>>
    <3>1. PICK d \in Callers : Active(d) /\ call[d].id = i /\ call[d].box = <<>>
      BY <2>1 DEF CallsInv, PendingInv
    <3> QED BY <1>1, <1>2, <2>1, <3>1
  <2>2. ASSUME NEW d \in Callers, Active(d)', call'[d].box = <<>> PROVE call'[d].id \in pending'
    <3>1. d # c /\ Active(d) /\ call'[d] = call[d]
      BY <1>1, <1>2, <2>2
    <3>2. call[d].id \in pending /\ call[d].id # call[c].id
      BY <2>2, <3>1 DEF CallsInv, PendingInv, CallInv
    <3> QED BY <3>1, <3>2
  <2> QED BY <2>1, <2>2 DEF PendingInv
<1>5. BoxInv'
  BY <1>1, <1>2 DEF CallsInv, BoxInv, Op
<1>6. AnswerMatches'
  BY <1>1 DEF CallsInv, AnswerMatches, Op
<1>7. CallsMove
  BY <1>1, <1>2 DEF CallsMove
<1> QED BY <1>1, <1>3, <1>4, <1>5, <1>6, <1>7 DEF CallsInv

\* A call registers itself under the next identifier and holds requestMu.
LEMMA BegunCalls ==
    ASSUME ClientTypes, CallsInv, ConnInv, pipe.n \in Nat, NEW c \in Callers, CallBegins(c), pipe' = pipe
    PROVE  /\ call' \in [Callers -> CallSet] /\ CallsInv' /\ CallsMove
           /\ \A d \in Callers : call'[d].at = "writing" =>
                 \/ call[d].at = "writing" /\ call'[d].on = call[d].on
                 \/ call'[d].on = conn
<1>0. nextID \in Nat /\ nextID \in 1..MaxId /\ nextID' = nextID + 1 /\ conn \in 0..MaxConns
  BY ClientAssumption DEF CallBegins, ClientTypes
<1>1. PICK e \in Seq(FrameSet) : e = <<>>
  BY EmptySeq
<1>2. PICK at \in {"idle", "writing", "waiting", "returned"} : at = "writing"
  OBVIOUS
<1>3. NoCall \in CallSet /\ NoCall.box = e /\ NoCall.ok = FALSE
  BY <1>1, ClientAssumption, GarbageIsFrame DEF NoCall, CallSet
<1>4. PICK n \in CallSet : n = NoCall /\ n.box = e /\ n.ok = FALSE
  BY <1>3
<1>5. PICK r : r = [n EXCEPT !.at = at, !.id = nextID, !.on = conn]
  OBVIOUS
<1>6. PICK i \in 0..MaxId : i = nextID
  BY <1>0
<1>7. PICK k \in 0..MaxConns : k = conn
  BY <1>0
<1>8. r = [n EXCEPT !.at = at, !.id = i, !.on = k]
  BY <1>5, <1>6, <1>7
<1>9. r \in CallSet /\ r.at = at /\ r.id = i /\ r.on = k /\ r.box = e
  BY <1>4, <1>8 DEF CallSet
<1>10. call' = [call EXCEPT ![c] = r] /\ call \in [Callers -> CallSet]
  BY <1>2, <1>4, <1>5 DEF CallBegins, ClientTypes
<1>11. /\ call' \in [Callers -> CallSet] /\ \A d \in Callers \ {c} : call'[d] = call[d]
       /\ call'[c].at = "writing" /\ call'[c].id = nextID /\ call'[c].on = conn /\ call'[c].box = <<>>
  BY <1>1, <1>2, <1>6, <1>7, <1>9, <1>10
<1>12. /\ ~Active(c) /\ Active(c)' /\ \A d \in Callers \ {c} : Active(d)' <=> Active(d)
  BY <1>11 DEF Active, CallBegins
<1>13. requestMu = "none" /\ requestMu' = c /\ pending' = pending \cup {nextID}
  BY DEF CallBegins, Holds
<1>14. \A d \in Callers : Active(d) => call[d].id \in 1..(nextID - 1)
  BY DEF CallsInv, CallInv
<1>15. CallInv'
  <2>1. \A d \in Callers : call'[d].at = "writing" <=> requestMu' = d
    <3> TAKE d \in Callers
    <3>1. CASE d = c
      BY <1>11, <1>13, <3>1
    <3>2. CASE d # c
      BY <1>11, <1>13, <3>2, ClientAssumption DEF CallsInv, CallInv
    <3> QED BY <3>1, <3>2
  <2>2. \A d \in Callers : Len(call'[d].box) <= 1
    <3> TAKE d \in Callers
    <3>1. CASE d = c
      BY <1>11, <3>1
    <3>2. CASE d # c
      BY <1>11, <3>2 DEF CallsInv, CallInv
    <3> QED BY <3>1, <3>2
  <2>3. \A d \in Callers : call'[d].at = "writing" => call'[d].id = nextID' - 1
    BY <1>0, <1>11, <1>13, <2>1
  <2>4. ASSUME NEW d \in Callers, Active(d)'
        PROVE  call'[d].id \in 1..(nextID' - 1) /\ call'[d].on <= pipe'.n
    <3>1. CASE d = c
      BY <1>0, <1>11, <3>1 DEF ConnInv
    <3>2. CASE d # c
      BY <1>0, <1>11, <1>12, <1>14, <2>4, <3>2 DEF CallsInv, CallInv
    <3> QED BY <3>1, <3>2
  <2>5. ASSUME NEW d \in Callers, NEW g \in Callers, Active(d)', Active(g)', call'[d].id = call'[g].id
        PROVE  d = g
    <3>1. \A x \in Callers \ {c} : Active(x)' => call'[x].id # nextID
      BY <1>0, <1>11, <1>12, <1>14
    <3>2. CASE d = c \/ g = c
      BY <1>11, <2>5, <3>1, <3>2
    <3>3. CASE d # c /\ g # c
      BY <1>11, <1>12, <2>5, <3>3 DEF CallsInv, CallInv
    <3> QED BY <3>2, <3>3
  <2> QED BY <2>1, <2>2, <2>3, <2>4, <2>5 DEF CallInv
<1>16. PendingInv'
  <2>1. ASSUME NEW x \in pending'
        PROVE \E d \in Callers : Active(d)' /\ call'[d].id = x /\ call'[d].box = <<>>
    <3>1. CASE x = nextID
      BY <1>11, <1>12, <3>1
    <3>2. CASE x \in pending
      <4>1. PICK d \in Callers : Active(d) /\ call[d].id = x /\ call[d].box = <<>>
        BY <3>2 DEF CallsInv, PendingInv
      <4> QED BY <1>11, <1>12, <4>1
    <3> QED BY <1>13, <2>1, <3>1, <3>2
  <2>2. ASSUME NEW d \in Callers, Active(d)', call'[d].box = <<>> PROVE call'[d].id \in pending'
    BY <1>11, <1>12, <1>13, <2>2 DEF CallsInv, PendingInv
  <2> QED BY <2>1, <2>2 DEF PendingInv
<1>17. BoxInv'
  <2> SUFFICES ASSUME NEW d \in Callers, Active(d)', NEW x \in DOMAIN call'[d].box, call'[d].box[x].ok
               PROVE  call'[d].box[x].id = call'[d].id /\ call'[d].box[x].op = Op(d)
    BY DEF BoxInv, Op
  <2>1. d # c
    BY <1>11
  <2> QED BY <1>11, <1>12, <2>1 DEF CallsInv, BoxInv
<1>18. AnswerMatches'
  BY <1>11 DEF CallsInv, AnswerMatches, Op
<1>19. CallsMove
  BY <1>11, <1>12 DEF CallsMove
<1> QED BY <1>11, <1>15, <1>16, <1>17, <1>18, <1>19 DEF CallsInv

\* A call has written its request and waits for the answer.
LEMMA WrittenCalls ==
    ASSUME ClientTypes, CallsInv, NEW c \in Callers, CallWritten(c), pipe'.n = pipe.n
    PROVE  /\ call' \in [Callers -> CallSet] /\ CallsInv' /\ CallsMove
           /\ \A d \in Callers : call'[d].at = "writing" =>
                 call[d].at = "writing" /\ call'[d].on = call[d].on
<1>1. PICK at \in {"idle", "writing", "waiting", "returned"} : at = "waiting"
  OBVIOUS
<1>2. call' = [call EXCEPT ![c] = [call[c] EXCEPT !.at = at]] /\ call \in [Callers -> CallSet]
  BY <1>1 DEF CallWritten, ClientTypes
<1>3. PICK r : r = [call[c] EXCEPT !.at = at]
  OBVIOUS
<1>4. /\ r \in CallSet /\ r.at = at /\ r.id = call[c].id /\ r.on = call[c].on /\ r.box = call[c].box
  BY <1>2, <1>3 DEF CallSet
<1>5. /\ call' \in [Callers -> CallSet] /\ \A d \in Callers \ {c} : call'[d] = call[d]
      /\ call'[c].at = "waiting" /\ call'[c].id = call[c].id /\ call'[c].on = call[c].on
      /\ call'[c].box = call[c].box
  BY <1>1, <1>2, <1>3, <1>4
<1>6. \A d \in Callers : /\ Active(d)' <=> Active(d)
                         /\ call'[d].id = call[d].id /\ call'[d].on = call[d].on
                         /\ call'[d].box = call[d].box
  BY <1>5 DEF Active, CallWritten
<1>7. requestMu = c /\ requestMu' = "none" /\ UNCHANGED <<pending, nextID>>
  BY DEF CallWritten, CallsInv, CallInv, Unlock
<1>8. \A d \in Callers : call'[d].at # "writing"
  BY <1>5, <1>7 DEF CallsInv, CallInv
<1>9. CallInv'
  <2>1. \A d \in Callers : call'[d].at = "writing" <=> requestMu' = d
    BY <1>7, <1>8, ClientAssumption
  <2> QED BY <1>6, <1>7, <1>8, <2>1 DEF CallsInv, CallInv
<1>10. PendingInv'
  BY <1>6, <1>7 DEF CallsInv, PendingInv
<1>11. BoxInv'
  BY <1>6 DEF CallsInv, BoxInv, Op
<1>12. AnswerMatches'
  BY <1>5 DEF CallsInv, AnswerMatches, Op
<1>13. CallsMove
  BY <1>6 DEF CallsMove
<1> QED BY <1>5, <1>8, <1>9, <1>10, <1>11, <1>12, <1>13 DEF CallsInv

-----------------------------------------------------------------------------
(* The steps of the client.                                                *)

\* The rest of the invariant, by whose state it is about.
ServerSide == ListenerTypes /\ WriterTypes /\ SrvInv /\ WriterInv /\ DelivererInv
UnderWay == RequestsInv /\ RepliesInv /\ UnauthorizedInv

\* The stream to the server is left alone, that to the client at most read.
OnlyReads ==
    /\ pipe' \in PipeSet /\ pipe'.n = pipe.n /\ pipe'.server = pipe.server
    /\ pipe'.c2s = pipe.c2s /\ Within(pipe'.s2c, pipe.s2c)

\* The invariant by the side that a step can disturb.
LEMMA InvParts == Inv <=> /\ ChannelTypes /\ ClientTypes /\ ConnInv /\ CallsInv
                          /\ ServerSide /\ UnderWay
BY DEF Inv, CallsInv, ServerSide, UnderWay

\* A stream is made of its own frames.
LEMMA WithinItself ==
    ASSUME NEW q PROVE Within(q, q)
BY DEF Within

\* The client reads a frame, closes its end or leaves the pipe alone.
LEMMA OnlyReadsPipe ==
    ASSUME pipe \in PipeSet
    PROVE  /\ UNCHANGED pipe => OnlyReads
           /\ pipe' = ClientEndClosed(pipe) => OnlyReads
           /\ \A r \in readNamedPipeFrame(pipe.s2c) : pipe' = [pipe EXCEPT !.s2c = r.rest] => OnlyReads
<1>1. UNCHANGED pipe => OnlyReads
  BY WithinItself DEF OnlyReads
<1>2. ASSUME pipe' = ClientEndClosed(pipe) PROVE OnlyReads
  <2>1. pipe'.s2c = <<>>
    BY <1>2, EndsClosed
  <2>2. Within(pipe'.s2c, pipe.s2c)
    BY <2>1 DEF Within
  <2> QED BY <1>2, <2>2, EndsClosed DEF OnlyReads
<1>3. ASSUME NEW r \in readNamedPipeFrame(pipe.s2c), pipe' = [pipe EXCEPT !.s2c = r.rest]
      PROVE  OnlyReads
  <2>1. PICK q \in Seq(FrameSet) : q = r.rest /\ Within(q, pipe.s2c)
    BY PipeUpdates, ReadWithin
  <2>2. pipe' = [pipe EXCEPT !.s2c = q]
    BY <1>3, <2>1
  <2> QED BY <2>1, <2>2, PipeUpdates DEF OnlyReads
<1> QED BY <1>1, <1>2, <1>3

\* A step that reads at most, and registers no call, disturbs nothing under way.
LEMMA FlowKept ==
    ASSUME Inv, UNCHANGED serverVars, OnlyReads, CallsMove, nextID' = nextID, requestMu' = requestMu,
           conn' \in {conn, 0},
           \A c \in Callers : call'[c].at = "writing" =>
               call[c].at = "writing" /\ call'[c].on = call[c].on
    PROVE  ServerSide' /\ UnderWay'
<1>1. /\ ChannelTypes /\ ClientTypes /\ ListenerTypes /\ WriterTypes /\ SrvInv
      /\ RequestsInv /\ RepliesInv /\ UnauthorizedInv /\ nextID \in Nat /\ Top \in Nat
  BY TopBounds DEF Inv
<1>2. ServerSide'
  BY ServerUntouched DEF Inv, OnlyReads, ServerSide
<1>3. Top' = Top
  BY DEF Top
<1>4. RequestsInv'
  BY <1>1, <1>3, RequestsKept DEF OnlyReads, serverVars, listenerVars
<1>5. RepliesInv'
  BY <1>1, RepliesKept DEF OnlyReads
<1>6. UnauthorizedInv'
  BY <1>1, UnauthorizedKept DEF OnlyReads, UnauthorizedInv
<1> QED BY <1>2, <1>4, <1>5, <1>6 DEF UnderWay

\* Faults are counted up to their bound.
LEMMA FaultTypes ==
    ASSUME ChannelTypes, Fault \/ UNCHANGED faults
    PROVE  faults' \in 0..MaxFaults
BY ServerAssumption DEF ChannelTypes, Fault

\* Steps of Run and its context that leave the calls alone.
LEMMA QuietSteps ==
    ASSUME Inv, UNCHANGED serverVars,
           \/ RunStart \/ OpenFails \/ ReadHello \/ ReadFails \/ CloseConnection \/ Reconnect \/ CancelRun
    PROVE  Inv'
<1>0. ChannelTypes /\ ClientTypes /\ ConnInv /\ CallsInv /\ pipe \in PipeSet
  BY InvParts DEF ChannelTypes
<1>1. UNCHANGED <<conn, pending, nextID, closed, requestMu, call>>
  BY DEF RunStart, OpenFails, ReadHello, ReadFails, CloseConnection, Reconnect, CancelRun
<1>2. OnlyReads
  BY <1>0, OnlyReadsPipe DEF RunStart, OpenFails, ReadHello, ReadFails, CloseConnection, Reconnect,
                             CancelRun, channelVars
<1>3. faults' \in 0..MaxFaults
  <2>1. Fault \/ UNCHANGED faults
    BY DEF RunStart, OpenFails, ReadHello, ReadFails, CloseConnection, Reconnect, CancelRun, channelVars
  <2> QED BY <1>0, <2>1, FaultTypes
<1>4. stage' \in Stages /\ attempt' \in {attempt, 0} /\ authID' \in {authID, 0} /\ cancelled' \in BOOLEAN
  BY <1>0 DEF RunStart, OpenFails, ReadHello, ReadFails, CloseConnection, Reconnect,
              CancelRun, ClientTypes, Stages
<1>5. backoff' \in ReconnectMin..ReconnectMax
  <2>1. backoff' = backoff \/ backoff' = nextNamedPipeReconnectBackoff(backoff)
    BY DEF RunStart, OpenFails, ReadHello, ReadFails, CloseConnection, Reconnect, CancelRun
  <2>2. backoff \in ReconnectMin..ReconnectMax
    BY <1>0 DEF ClientTypes
  <2> QED BY <2>1, <2>2, ClientAssumption DEF nextNamedPipeReconnectBackoff
<1>6. ClientTypes'
  BY <1>0, <1>1, <1>4, <1>5, ClientAssumption DEF ClientTypes
<1>7. ConnInv'
  BY <1>0, <1>1, <1>2, <1>4, PipeUpdates, ClientAssumption DEF ConnInv, OnlyReads
<1>8. CallsInv'
  BY <1>0, <1>1, <1>2 DEF CallsInv, CallInv, PendingInv, BoxInv, AnswerMatches, Active, Op, OnlyReads
<1>9. ServerSide' /\ UnderWay'
  <2>1. CallsMove
    BY <1>1 DEF CallsMove, Active
  <2> QED BY <1>1, <1>2, <2>1, FlowKept
<1>10. ChannelTypes'
  BY <1>2, <1>3 DEF ChannelTypes, OnlyReads
<1> QED BY <1>6, <1>7, <1>8, <1>9, <1>10 DEF Inv, CallsInv, ServerSide, UnderWay

\* Steps that send to pending calls.
LEMMA SendSteps ==
    ASSUME Inv, UNCHANGED serverVars, OnlyReads, faults' \in 0..MaxFaults,
           UNCHANGED <<attempt, nextID, backoff, requestMu>>, authID' \in {authID, 0},
           stage' \in Stages, cancelled' \in BOOLEAN,
           NEW ids \in SUBSET pending, NEW f \in FrameSet,
           f.ok => \A c \in Waiting(ids) : f.id = call[c].id /\ f.op = Op(c),
           pending' = pending \ ids, call' = Send(ids, f),
           \/ conn' = conn /\ closed' = closed
           \/ conn' = 0 /\ pending' = {} /\ closed' \in BOOLEAN
    PROVE  Inv'
<1>0. ChannelTypes /\ ClientTypes /\ ConnInv /\ CallsInv /\ pipe \in PipeSet
  BY InvParts DEF ChannelTypes
<1>1. /\ call' \in [Callers -> CallSet] /\ CallsInv' /\ CallsMove
      /\ \A c \in Callers : call'[c].at = call[c].at /\ call'[c].on = call[c].on
  BY <1>0, SentCalls DEF OnlyReads
<1>2. ServerSide' /\ UnderWay'
  BY <1>1, FlowKept
<1>3. ClientTypes'
  BY <1>0, <1>1, ClientAssumption DEF ClientTypes
<1>4. ConnInv'
  BY <1>0, PipeUpdates, ClientAssumption DEF ConnInv, OnlyReads
<1>5. ChannelTypes'
  BY DEF ChannelTypes, OnlyReads
<1> QED BY <1>1, <1>2, <1>3, <1>4, <1>5 DEF Inv, CallsInv, ServerSide, UnderWay

\* Everything that detaches the connection fails all pending calls.
LEMMA DetachSteps ==
    ASSUME Inv, UNCHANGED serverVars, Detach \/ RunStop \/ ClientClose
    PROVE  Inv'
<1>0. ChannelTypes /\ ClientTypes /\ ConnInv /\ CallsInv /\ pipe \in PipeSet
  BY InvParts DEF ChannelTypes
<1>1. Failure \in FrameSet /\ ~Failure.ok
  BY DEF Failure, Frame, FrameSet, FrameTypes, Ops
<1>2. pending' = pending \ pending /\ pending' = {} /\ call' = Send(pending, Failure) /\ conn' = 0
  BY DEF Detach, RunStop, ClientClose, detachLocked, Detached, FailAll
<1>3. OnlyReads
  BY <1>0, OnlyReadsPipe DEF Detach, RunStop, ClientClose, channelVars
<1>4. faults' \in 0..MaxFaults
  BY <1>0, FaultTypes DEF Detach, RunStop, ClientClose, channelVars
<1>5. UNCHANGED <<attempt, authID, nextID, backoff, requestMu>> /\ closed' \in BOOLEAN
  BY <1>0 DEF Detach, RunStop, ClientClose, ClientTypes
<1>6. stage' \in Stages /\ cancelled' \in BOOLEAN
  BY <1>0 DEF Detach, RunStop, ClientClose, ClientTypes, Stages
<1> QED BY <1>1, <1>2, <1>3, <1>4, <1>5, <1>6, SendSteps

\* readConnection hands an answer to the call whose identifier it carries.
LEMMA ReadFrameStep ==
    ASSUME Inv, UNCHANGED serverVars, ReadFrame
    PROVE  Inv'
<1>0. /\ ChannelTypes /\ ClientTypes /\ ConnInv /\ CallsInv /\ pipe \in PipeSet
      /\ WriterTypes /\ RepliesInv
  BY DEF Inv, ChannelTypes, CallsInv
<1>1. PICK r \in readNamedPipeFrame(pipe.s2c) :
         /\ pipe' = [pipe EXCEPT !.s2c = r.rest]
         /\ \/ /\ r.frame.type \in {"response", "pong"}
               /\ resolve(r.frame.id, r.frame) /\ UNCHANGED <<stage, faults>>
            \/ /\ r.frame.type = "delivery" /\ UNCHANGED <<pending, call>>
               /\ \/ UNCHANGED <<stage, faults>>
                  \/ Fault /\ stage' = "ending"
            \/ /\ r.frame.type \notin {"response", "pong", "delivery"}
               /\ stage' = "ending" /\ UNCHANGED <<pending, call, faults>>
  BY DEF ReadFrame
<1>2. OnlyReads
  BY <1>0, <1>1, OnlyReadsPipe
<1>3. faults' \in 0..MaxFaults
  BY <1>0, <1>1, FaultTypes
<1>4. UNCHANGED <<conn, attempt, authID, nextID, closed, cancelled, backoff, requestMu>>
        /\ stage' \in Stages
  BY <1>0, <1>1 DEF ReadFrame, ClientTypes, Stages
<1>5. pipe.s2c \in Seq(FrameSet)
  BY <1>0, PipeUpdates
<1>6. r.frame \in FrameSet /\ (r.frame = Garbage \/ \E j \in DOMAIN pipe.s2c : Alike(r.frame, pipe.s2c[j]))
  BY <1>5, ReadWithin
<1>7. ReplySound(r.frame)
  <2>1. CASE r.frame = Garbage
    BY <1>0, <2>1, GarbageIsFrame, ClientAssumption DEF ReplySound, ClientTypes
  <2>2. CASE \E j \in DOMAIN pipe.s2c : Alike(r.frame, pipe.s2c[j])
    <3>1. PICK j \in DOMAIN pipe.s2c : Alike(r.frame, pipe.s2c[j])
      BY <2>2
    <3>2. pipe.s2c[j] \in Flight
      BY DEF Flight
    <3>3. ReplySound(pipe.s2c[j])
      BY <1>0, <3>2 DEF RepliesInv
    <3> QED BY <3>1, <3>3 DEF ReplySound, Alike
  <2> QED BY <1>6, <2>1, <2>2
<1>8. CASE resolve(r.frame.id, r.frame)
  <2>1. PICK ids \in SUBSET pending : ids = pending \cap {r.frame.id}
    OBVIOUS
  <2>2. pending' = pending \ ids /\ call' = Send(ids, r.frame)
    BY <1>8, <2>1 DEF resolve, Forget, Addressee
  <2>3. r.frame.ok => \A c \in Waiting(ids) : r.frame.id = call[c].id /\ r.frame.op = Op(c)
    BY <1>7, <2>1 DEF Waiting, ReplySound, Active
  <2> QED BY <1>0, <1>2, <1>3, <1>4, <1>6, <2>2, <2>3, SendSteps DEF ClientTypes
<1>9. CASE UNCHANGED <<pending, call>>
  <2>1. CallsInv'
    BY <1>0, <1>2, <1>4, <1>9 DEF CallsInv, CallInv, PendingInv, BoxInv, AnswerMatches, Active, Op, OnlyReads
  <2>2. CallsMove
    BY <1>9 DEF CallsMove, Active
  <2>3. ServerSide' /\ UnderWay'
    BY <1>2, <1>4, <1>9, <2>2, FlowKept
  <2>4. ClientTypes' /\ ConnInv'
    BY <1>0, <1>2, <1>4, <1>9 DEF ClientTypes, ConnInv, OnlyReads
  <2>5. ChannelTypes'
    BY <1>2, <1>3 DEF ChannelTypes, OnlyReads
  <2> QED BY <2>1, <2>3, <2>4, <2>5 DEF Inv, CallsInv, ServerSide, UnderWay
<1> QED BY <1>1, <1>8, <1>9

\* The identifier of Authenticate is the next one, and nobody holds requestMu.
LEMMA AuthenticateStep ==
    ASSUME Inv, UNCHANGED serverVars, Authenticate
    PROVE  Inv'
<1>0. /\ ChannelTypes /\ ClientTypes /\ ConnInv /\ CallsInv /\ pipe \in PipeSet
      /\ ListenerTypes /\ WriterTypes /\ SrvInv /\ RequestsInv /\ RepliesInv /\ UnauthorizedInv
  BY DEF Inv, ChannelTypes, CallsInv
<1>1. /\ requestMu = "none" /\ nextID \in 1..MaxId /\ authID' = nextID /\ nextID' = nextID + 1
      /\ UNCHANGED <<conn, attempt, pending, closed, cancelled, backoff, requestMu, call, lastRequestID>>
      /\ nextID \in Nat /\ nextID' \in Nat
  BY <1>0, ClientAssumption DEF Authenticate, ClientTypes, serverVars, listenerVars
<1>2. PICK f : f = Frame("authenticate", nextID, "none", TRUE)
  OBVIOUS
<1>3. f \in FrameSet /\ f.id = nextID /\ f.type = "authenticate"
  BY <1>1, <1>2 DEF Frame, FrameSet, FrameTypes, Ops
<1>4. pipe.c2s \in Seq(FrameSet)
  BY <1>0, PipeUpdates
<1>5. PICK q \in Seq(FrameSet) : q = Append(pipe.c2s, f)
  BY <1>3, <1>4, AppendProperties
<1>6. pipe' = pipe \/ pipe' = [pipe EXCEPT !.c2s = q]
  BY <1>2, <1>5 DEF Authenticate
<1>7. /\ pipe' \in PipeSet /\ pipe'.n = pipe.n /\ pipe'.server = pipe.server
      /\ Within(pipe'.s2c, pipe.s2c) /\ (pipe'.c2s = pipe.c2s \/ pipe'.c2s = q)
  BY <1>0, <1>6, PipeUpdates, WithinItself
<1>8. ChannelTypes'
  <2>1. faults' \in 0..MaxFaults
    BY <1>0, FaultTypes DEF Authenticate
  <2> QED BY <1>7, <2>1 DEF ChannelTypes
<1>9. ClientTypes'
  <2>1. stage' \in Stages
    BY DEF Authenticate, Stages
  <2>2. nextID' \in 1..(MaxId + 1) /\ authID' \in 0..MaxId
    BY <1>1, ClientAssumption
  <2> QED BY <1>0, <1>1, <2>1, <2>2 DEF ClientTypes
<1>10. ConnInv'
  BY <1>0, <1>1, <1>7 DEF ConnInv
<1>11. CallsInv'
  <2>1. \A c \in Callers : call[c].at # "writing"
    BY <1>0, <1>1, ClientAssumption DEF CallsInv, CallInv
  <2>2. ASSUME NEW c \in Callers, Active(c) PROVE call[c].id \in 1..(nextID' - 1)
    BY <1>0, <1>1, <2>2 DEF CallsInv, CallInv
  <2>3. \A c \in Callers : Active(c)' <=> Active(c)
    BY <1>1 DEF Active
  <2>4. CallInv'
    BY <1>0, <1>1, <1>7, <2>1, <2>2, <2>3 DEF CallsInv, CallInv
  <2> QED BY <1>0, <1>1, <2>3, <2>4 DEF CallsInv, PendingInv, BoxInv, AnswerMatches, Op
<1>12. CallsMove
  BY <1>1 DEF CallsMove, Active
<1>13. Top = nextID /\ Top' = nextID + 1 /\ Top < Top' /\ Top <= Top' /\ Top' \in Nat
  BY <1>1 DEF Top
<1>14. RequestsInv'
  <2>1. CASE pipe'.c2s = pipe.c2s
    BY <1>0, <1>1, <1>12, <1>13, <2>1, RequestsKept
  <2>2. CASE pipe'.c2s = Append(pipe.c2s, f)
    <3>1. \A c \in Callers : Active(c)' => call'[c].id # nextID
      BY <1>0, <1>1 DEF CallsInv, CallInv, Active
    <3> QED BY <1>0, <1>1, <1>3, <1>12, <1>13, <2>2, <3>1, RequestSent
  <2> QED BY <1>5, <1>7, <2>1, <2>2
<1>15. RepliesInv'
  BY <1>0, <1>1, <1>7, <1>12, RepliesKept
<1>16. UnauthorizedInv'
  <2>1. ASSUME NoController, NEW i \in DOMAIN pipe'.c2s
        PROVE  pipe'.c2s[i].type \in {"authenticate", "garbage"}
    <3>1. \A j \in DOMAIN pipe.c2s : pipe.c2s[j].type \in {"authenticate", "garbage"}
      BY <1>0, <2>1 DEF UnauthorizedInv
    <3>2. \A j \in DOMAIN q : q[j] = f \/ (j \in DOMAIN pipe.c2s /\ q[j] = pipe.c2s[j])
      BY <1>3, <1>4, <1>5
    <3> QED BY <1>3, <1>7, <2>1, <3>1, <3>2
  <2> QED BY <1>0, <1>1, <1>7, <2>1, UnauthorizedKept
<1>17. ServerSide'
  BY <1>7, ServerUntouched DEF Inv, ServerSide
<1> QED BY <1>8, <1>9, <1>10, <1>11, <1>14, <1>15, <1>16, <1>17 DEF Inv, CallsInv, ServerSide, UnderWay

\* The connection is published: its server has a controller, or is finished.
LEMMA ReadAuthenticatedStep ==
    ASSUME Inv, UNCHANGED serverVars, ReadAuthenticated
    PROVE  Inv'
<1>0. /\ ChannelTypes /\ ClientTypes /\ ConnInv /\ CallsInv /\ pipe \in PipeSet
      /\ ListenerTypes /\ WriterTypes /\ SrvInv /\ RequestsInv /\ RepliesInv /\ UnauthorizedInv
  BY DEF Inv, ChannelTypes, CallsInv
<1>1. PICK r \in readNamedPipeFrame(pipe.s2c) :
         /\ pipe' = [pipe EXCEPT !.s2c = r.rest]
         /\ \/ /\ Grants(r.frame) /\ ~closed /\ conn' = attempt /\ stage' = "authenticated"
            \/ conn' = conn /\ stage' = "ending"
  BY DEF ReadAuthenticated, Grants, MayPublish
<1>2. /\ authID' = 0 /\ pipe.n = attempt /\ pipe.server = "connected"
      /\ UNCHANGED <<attempt, pending, nextID, closed, cancelled, backoff, requestMu, call, faults, lastRequestID>>
  BY DEF ReadAuthenticated, Connected, serverVars, listenerVars
<1>3. OnlyReads
  BY <1>0, <1>1, OnlyReadsPipe
<1>4. ChannelTypes'
  BY <1>0, <1>2, <1>3 DEF ChannelTypes, OnlyReads
<1>5. ClientTypes'
  BY <1>0, <1>1, <1>2, ClientAssumption DEF ClientTypes, Stages
<1>6. ConnInv'
  <2>1. attempt # 0
    BY <1>0, <1>2 DEF SrvInv
  <2> QED BY <1>0, <1>1, <1>2, <1>3, <2>1 DEF ConnInv, OnlyReads
<1>7. CallsInv'
  BY <1>0, <1>2, <1>3 DEF CallsInv, CallInv, PendingInv, BoxInv, AnswerMatches, Active, Op, OnlyReads
<1>8. CallsMove /\ Top' = Top /\ Top \in Nat /\ nextID \in Nat
  BY <1>0, <1>2, TopBounds DEF CallsMove, Active, Top
<1>9. RequestsInv' /\ RepliesInv'
  BY <1>0, <1>2, <1>3, <1>8, RequestsKept, RepliesKept DEF OnlyReads
<1>10. UnauthorizedInv'
  <2>1. CASE conn' = conn
    BY <1>0, <1>2, <1>3, <2>1, UnauthorizedKept DEF OnlyReads, UnauthorizedInv
  <2>2. CASE Grants(r.frame)
    <3>1. r.frame # Garbage
      BY <2>2, GarbageIsFrame DEF Grants
    <3>2. PICK j \in DOMAIN pipe.s2c : Alike(r.frame, pipe.s2c[j])
      BY <1>0, <3>1, PipeUpdates, ReadWithin
    <3>3. pipe.s2c[j] \in Flight /\ Grants(pipe.s2c[j])
      BY <2>2, <3>2 DEF Flight, Grants, Alike
    <3>4. ~NoController
      BY <1>0, <3>3 DEF UnauthorizedInv
    <3>5. ~NoController'
      BY <1>3, <3>4 DEF NoController, OnlyReads, serverVars, listenerVars
    <3> QED BY <3>5 DEF UnauthorizedInv
  <2> QED BY <1>1, <2>1, <2>2
<1>11. ServerSide'
  BY <1>3, ServerUntouched DEF Inv, ServerSide, OnlyReads
<1> QED BY <1>4, <1>5, <1>6, <1>7, <1>9, <1>10, <1>11 DEF Inv, CallsInv, ServerSide, UnderWay

\* A new connection: both streams are empty, and so is the writer.
LEMMA OpenPipeStep ==
    ASSUME Inv, UNCHANGED serverVars, OpenPipe
    PROVE  Inv'
<1>0. /\ ChannelTypes /\ ClientTypes /\ ConnInv /\ CallsInv /\ pipe \in PipeSet
      /\ ListenerTypes /\ WriterTypes /\ SrvInv /\ WriterInv /\ DelivererInv
      /\ RequestsInv /\ RepliesInv /\ UnauthorizedInv /\ pipe.n \in 0..MaxConns
  BY PipeUpdates DEF Inv, ChannelTypes, CallsInv
<1>1. /\ pipe.server = "listening" /\ attempt' = pipe.n + 1 /\ stage' = "awaiting_hello"
      /\ UNCHANGED <<conn, authID, pending, nextID, closed, cancelled, backoff, requestMu, call, faults>>
      /\ UNCHANGED <<srv, srvStop, session, controller, lastRequestID, serveErr, deliveries,
                     writes, queue, writer, inHand, wClosed, wCancelled>>
  BY DEF OpenPipe, serverVars, listenerVars, writerVars
<1>2. PICK e \in Seq(FrameSet) : e = <<>>
  BY EmptySeq
<1>3. PICK n \in 0..MaxConns : n = pipe.n + 1
  BY <1>0, ClientAssumption DEF OpenPipe
<1>4. pipe' = [n |-> n, client |-> TRUE, server |-> "connected", c2s |-> e, s2c |-> e]
  BY <1>2, <1>3 DEF OpenPipe
<1>5. pipe' \in PipeSet /\ pipe'.n = n /\ pipe'.server = "connected" /\ pipe'.c2s = <<>> /\ pipe'.s2c = <<>>
  BY <1>2, <1>4 DEF PipeSet, ServerEnds
<1>6. ChannelTypes' /\ ClientTypes' /\ ListenerTypes' /\ WriterTypes'
  BY <1>0, <1>1, <1>3, <1>5 DEF ChannelTypes, ClientTypes, ListenerTypes, WriterTypes, Stages
<1>7. ConnInv'
  BY <1>0, <1>1, <1>3, <1>5, ClientAssumption DEF ConnInv, ClientTypes
<1>8. CallsInv'
  <2>1. \A c \in Callers : Active(c)' <=> Active(c)
    BY <1>1 DEF Active
  <2>2. \A c \in Callers : Active(c) => call[c].on <= pipe'.n
    BY <1>0, <1>3, <1>5, CallFields, ClientAssumption DEF CallsInv, CallInv
  <2>3. CallInv'
    BY <1>0, <1>1, <2>1, <2>2 DEF CallsInv, CallInv
  <2> QED BY <1>0, <1>1, <2>1, <2>3 DEF CallsInv, PendingInv, BoxInv, AnswerMatches, Op
<1>9. srv \in {"listen", "finished"} /\ srvStop # "close"
  BY <1>0, <1>1 DEF SrvInv
<1>10. SrvInv'
  BY <1>0, <1>1, <1>3, <1>5, <1>9 DEF SrvInv
<1>11. WriterInv' /\ DelivererInv'
  BY <1>0, <1>1 DEF WriterInv, DelivererInv, Grants
<1>12. RequestsInv'
  BY <1>0, <1>1, <1>5 DEF RequestsInv, Ordered, Top
<1>13. Within(pipe'.s2c, pipe.s2c)
  BY <1>5 DEF Within
<1>14. RepliesInv'
  <2>1. CallsMove /\ nextID \in Nat
    BY <1>0, <1>1, TopBounds DEF CallsMove, Active
  <2> QED BY <1>0, <1>1, <1>13, <2>1, RepliesKept
<1>15. \A f \in Flight' : ~Grants(f)
  <2>1. writer \in {"none", "done"}
    BY <1>0, <1>9 DEF WriterInv
  <2>2. queue = <<>> /\ inHand.frame = Garbage
    BY <1>0, <2>1 DEF WriterInv
  <2>3. ~Grants(writes["serve"].frame)
    <3>1. writes["serve"].at = "idle"
      BY <1>0, <1>9 DEF SrvInv
    <3>2. writes["serve"].frame = Garbage
      BY <1>0, <3>1 DEF WriterInv, Writers
    <3> QED BY <3>2, GarbageIsFrame DEF Grants
  <2>4. \A t \in Writers : ~Grants(writes[t].frame)
    BY <1>0, <2>3 DEF DelivererInv, Writers
  <2>5. ~Grants(Garbage)
    BY GarbageIsFrame DEF Grants
  <2>6. ASSUME NEW f \in Flight' PROVE f = Garbage \/ \E t \in Writers : f = writes[t].frame
    BY <1>1, <1>5, <2>2, <2>6 DEF Flight
  <2> QED BY <2>4, <2>5, <2>6
<1>16. UnauthorizedInv'
  <2>1. conn' # pipe'.n
    BY <1>0, <1>1, <1>3, <1>5 DEF ConnInv, ClientTypes
  <2>2. ASSUME NEW c \in Callers, call'[c].at = "writing" PROVE call'[c].on # pipe'.n
    <3>1. call[c].on <= pipe.n /\ call[c].on \in 0..MaxConns
      BY <1>0, <1>1, <2>2, CallFields DEF CallsInv, CallInv, Active
    <3> QED BY <1>0, <1>1, <1>3, <1>5, <3>1
  <2>3. \A i \in DOMAIN pipe'.c2s : pipe'.c2s[i].type \in {"authenticate", "garbage"}
    BY <1>5
  <2> QED BY <1>15, <2>1, <2>2, <2>3 DEF UnauthorizedInv, Grants
<1> QED BY <1>6, <1>7, <1>8, <1>10, <1>11, <1>12, <1>14, <1>16 DEF Inv, CallsInv

\* What a caller that writes may put into the stream.
LEMMA WrittenRequest ==
    ASSUME ClientTypes, CallsInv, NEW c \in Callers, call[c].at = "writing"
    PROVE  LET f == Frame(Op(c), call[c].id, "none", TRUE)
           IN  /\ f \in FrameSet /\ f.id = call[c].id /\ f.type = Op(c)
               /\ [f EXCEPT !.cut = TRUE] \in FrameSet /\ [f EXCEPT !.cut = TRUE].id = call[c].id
               /\ [f EXCEPT !.cut = TRUE].type = Op(c)
<1>1. PICK op \in FrameTypes : op = Op(c)
  BY DEF Op, FrameTypes, Ops
<1>2. PICK id \in Nat : id = call[c].id
  BY CallFields
<1>3. PICK f : f = Frame(op, id, "none", TRUE)
  OBVIOUS
<1>4. f \in FrameSet /\ f.id = id /\ f.type = op
  BY <1>3 DEF Frame, FrameSet
<1>5. PICK g : g = [f EXCEPT !.cut = TRUE]
  OBVIOUS
<1>6. g \in FrameSet /\ g.id = id /\ g.type = op
  BY <1>4, <1>5 DEF FrameSet
<1> QED BY <1>1, <1>2, <1>3, <1>4, <1>5, <1>6

\* The identifier of the caller that holds requestMu is the one Top leaves out.
LEMMA HeldTop ==
    ASSUME ClientTypes, CallsInv, NEW c \in Callers, call[c].at = "writing"
    PROVE  requestMu = c /\ Top = nextID - 1 /\ call[c].id = Top /\ Top < nextID
             /\ nextID \in Nat /\ Top \in Nat
<1>1. requestMu = c /\ requestMu # "none" /\ call[c].id = nextID - 1
  BY ClientAssumption DEF CallsInv, CallInv
<1> QED BY <1>1, TopBounds DEF Top

\* A request is written under requestMu, after all those with lesser identifiers.
LEMMA CallWrittenStep ==
    ASSUME Inv, UNCHANGED serverVars, NEW c \in Callers, CallWritten(c)
    PROVE  Inv'
<1>0. /\ ChannelTypes /\ ClientTypes /\ ConnInv /\ CallsInv /\ pipe \in PipeSet
      /\ ListenerTypes /\ WriterTypes /\ SrvInv /\ RequestsInv /\ RepliesInv /\ UnauthorizedInv
  BY DEF Inv, ChannelTypes, CallsInv
<1>1. /\ call[c].at = "writing" /\ pipe.n = call[c].on
      /\ UNCHANGED <<stage, conn, attempt, authID, pending, nextID, closed, cancelled, backoff, faults,
                     lastRequestID>>
  BY DEF CallWritten, Connected, serverVars, listenerVars
<1>2. PICK f \in FrameSet : /\ f = Frame(Op(c), call[c].id, "none", TRUE)
                            /\ f.id = call[c].id /\ f.type = Op(c)
  BY <1>0, <1>1, WrittenRequest
<1>3. PICK q \in Seq(FrameSet) : q = Append(pipe.c2s, f)
  BY <1>0, PipeUpdates, AppendProperties
<1>4. pipe' = [pipe EXCEPT !.c2s = q]
  BY <1>2, <1>3 DEF CallWritten
<1>5. /\ pipe' \in PipeSet /\ pipe'.n = pipe.n /\ pipe'.server = pipe.server
      /\ Within(pipe'.s2c, pipe.s2c) /\ pipe'.c2s = Append(pipe.c2s, f)
  BY <1>0, <1>3, <1>4, PipeUpdates, WithinItself
<1>6. /\ call' \in [Callers -> CallSet] /\ CallsInv' /\ CallsMove
      /\ \A d \in Callers : call'[d].at = "writing" => call[d].at = "writing" /\ call'[d].on = call[d].on
  BY <1>0, <1>5, WrittenCalls
<1>7. requestMu = c /\ requestMu' = "none" /\ call[c].id = Top /\ Top' = nextID /\ Top < Top' /\ Top' \in Nat
  BY <1>0, <1>1, HeldTop DEF CallWritten, Unlock, Top
<1>8. ASSUME NEW d \in Callers, Active(d)', call'[d].id = f.id PROVE f.type = Op(d)
  <2>1. call'[c].id = call[c].id /\ Active(c)'
    BY <1>0 DEF CallWritten, Active, ClientTypes, CallSet
  <2>2. d = c
    BY <1>2, <1>6, <1>8, <2>1 DEF CallsInv, CallInv
  <2> QED BY <1>2, <2>2
<1>9. RequestsInv'
  BY <1>0, <1>1, <1>2, <1>5, <1>6, <1>7, <1>8, RequestSent
<1>10. RepliesInv'
  BY <1>0, <1>1, <1>5, <1>6, RepliesKept, TopBounds
<1>11. UnauthorizedInv'
  <2>1. ~NoController
    BY <1>0, <1>1 DEF UnauthorizedInv
  <2>2. ~NoController'
    BY <1>5, <2>1 DEF NoController, serverVars, listenerVars
  <2> QED BY <2>2 DEF UnauthorizedInv
<1>12. ClientTypes' /\ ConnInv' /\ ChannelTypes'
  BY <1>0, <1>1, <1>5, <1>6, <1>7 DEF ClientTypes, ConnInv, ChannelTypes
<1>13. ServerSide'
  BY <1>5, ServerUntouched DEF Inv, ServerSide
<1> QED BY <1>6, <1>9, <1>10, <1>11, <1>12, <1>13 DEF Inv, CallsInv, ServerSide, UnderWay

\* A write that fails may leave a part of its frame in the stream; its call returns.
LEMMA CallWriteFailsStep ==
    ASSUME Inv, UNCHANGED serverVars, NEW c \in Callers, CallWriteFails(c)
    PROVE  Inv'
<1>0. /\ ChannelTypes /\ ClientTypes /\ ConnInv /\ CallsInv /\ pipe \in PipeSet
      /\ ListenerTypes /\ WriterTypes /\ SrvInv /\ RequestsInv /\ RepliesInv /\ UnauthorizedInv
  BY DEF Inv, ChannelTypes, CallsInv
<1>1. /\ call[c].at = "writing" /\ pending' = pending \ {call[c].id} /\ call' = Returned(c, FALSE, Garbage)
      /\ requestMu' = (IF requestMu = c THEN "none" ELSE requestMu)
      /\ UNCHANGED <<stage, conn, attempt, authID, nextID, closed, cancelled, backoff, lastRequestID>>
  BY DEF CallWriteFails, Unlock, serverVars, listenerVars
<1>2. PICK f \in FrameSet : /\ f = Frame(Op(c), call[c].id, "none", TRUE)
                            /\ f.id = call[c].id /\ f.type = Op(c)
  BY <1>0, <1>1, WrittenRequest
<1>3. PICK g \in FrameSet : g = [f EXCEPT !.cut = TRUE] /\ g.id = call[c].id /\ g.type = Op(c)
  BY <1>0, <1>1, <1>2, WrittenRequest
<1>4. pipe.c2s \in Seq(FrameSet)
  BY <1>0, PipeUpdates
<1>5. \/ OnlyReads
      \/ /\ Connected(call[c].on)
         /\ \E h \in {f, g} : pipe' = [pipe EXCEPT !.c2s = Append(pipe.c2s, h)]
  <2>1. CASE Connected(call[c].on)
    <3>1. PICK s \in FailedWrites(pipe.c2s, f) : pipe' = [pipe EXCEPT !.c2s = s]
      BY <1>2, <2>1 DEF CallWriteFails
    <3>2. s = pipe.c2s \/ s = Append(pipe.c2s, f) \/ s = Append(pipe.c2s, g)
      BY <1>3, <3>1 DEF FailedWrites
    <3>3. ASSUME s = pipe.c2s PROVE OnlyReads
      <4>1. s \in Seq(FrameSet)
        BY <1>4, <3>3
      <4>2. pipe' \in PipeSet /\ pipe'.n = pipe.n /\ pipe'.server = pipe.server
               /\ pipe'.c2s = s /\ pipe'.s2c = pipe.s2c
        BY <1>0, <3>1, <4>1, PipeUpdates
      <4> QED BY <3>3, <4>2, WithinItself DEF OnlyReads
    <3> QED BY <2>1, <3>1, <3>2, <3>3
  <2>2. CASE ~Connected(call[c].on)
    BY <1>0, <2>2, OnlyReadsPipe DEF CallWriteFails, channelVars
  <2> QED BY <2>1, <2>2
<1>6. faults' \in 0..MaxFaults
  BY <1>0, FaultTypes DEF CallWriteFails, channelVars
<1>7. requestMu = c /\ requestMu' = "none" /\ call[c].id = Top /\ Top' = nextID /\ Top < Top'
        /\ Top <= Top' /\ Top' \in Nat
  BY <1>0, <1>1, HeldTop DEF Top
<1>8. Active(c)
  BY <1>1 DEF Active
<1>9. CASE OnlyReads
  <2>1. /\ call' \in [Callers -> CallSet] /\ CallsInv' /\ CallsMove
        /\ \A d \in Callers : call'[d].at = "writing" => call[d].at = "writing" /\ call'[d].on = call[d].on
    BY <1>0, <1>1, <1>8, <1>9, ReturnedCalls, GarbageIsFrame DEF OnlyReads
  <2>2. RequestsInv'
    BY <1>0, <1>1, <1>7, <1>9, <2>1, RequestsKept DEF OnlyReads
  <2>3. Within(pipe'.s2c, pipe.s2c)
    BY <1>9 DEF OnlyReads
  <2>4. RepliesInv'
    BY <1>0, <1>1, <2>1, <2>3, RepliesKept, TopBounds
  <2>5. UnauthorizedInv'
    BY <1>0, <1>1, <1>9, <2>1, <2>3, UnauthorizedKept DEF UnauthorizedInv, OnlyReads
  <2>6. ClientTypes' /\ ConnInv' /\ ChannelTypes'
    BY <1>0, <1>1, <1>6, <1>7, <1>9, <2>1 DEF ClientTypes, ConnInv, ChannelTypes, OnlyReads
  <2>7. ServerSide'
    BY <1>9, ServerUntouched DEF Inv, ServerSide, OnlyReads
  <2> QED BY <2>1, <2>2, <2>4, <2>5, <2>6, <2>7 DEF Inv, CallsInv, ServerSide, UnderWay
<1>10. CASE /\ Connected(call[c].on)
            /\ \E h \in {f, g} : pipe' = [pipe EXCEPT !.c2s = Append(pipe.c2s, h)]
  <2>1. PICK h \in FrameSet : /\ h.id = call[c].id /\ h.type = Op(c)
                              /\ pipe' = [pipe EXCEPT !.c2s = Append(pipe.c2s, h)]
    BY <1>2, <1>3, <1>10
  <2>2. PICK q \in Seq(FrameSet) : q = Append(pipe.c2s, h)
    BY <1>4, AppendProperties
  <2>3. pipe' = [pipe EXCEPT !.c2s = q]
    BY <2>1, <2>2
  <2>4. /\ pipe' \in PipeSet /\ pipe'.n = pipe.n /\ pipe'.server = pipe.server
        /\ Within(pipe'.s2c, pipe.s2c) /\ pipe'.c2s = Append(pipe.c2s, h)
    BY <1>0, <2>2, <2>3, PipeUpdates, WithinItself
  <2>5. /\ call' \in [Callers -> CallSet] /\ CallsInv' /\ CallsMove
        /\ \A d \in Callers : call'[d].at = "writing" => call[d].at = "writing" /\ call'[d].on = call[d].on
    BY <1>0, <1>1, <1>8, <2>4, ReturnedCalls, GarbageIsFrame
  <2>6. ASSUME NEW d \in Callers, Active(d)' PROVE call'[d].id # h.id
    <3>0. PICK no \in BOOLEAN : call' = Returned(c, no, Garbage)
      BY <1>1
    <3>1. call'[c].at = "returned" /\ \A x \in Callers \ {c} : call'[x] = call[x]
      <4>1. Garbage \in FrameSet
        BY GarbageIsFrame
      <4> QED BY <1>0, <3>0, <4>1, ReturnedCall
    <3>2. d # c /\ call'[d] = call[d] /\ Active(d)
      BY <2>6, <3>1 DEF Active
    <3> QED BY <1>0, <1>8, <2>1, <3>2 DEF CallsInv, CallInv
  <2>7. RequestsInv'
    BY <1>0, <1>1, <1>7, <2>1, <2>4, <2>5, <2>6, RequestSent
  <2>8. RepliesInv'
    BY <1>0, <1>1, <2>4, <2>5, RepliesKept, TopBounds
  <2>9. UnauthorizedInv'
    <3>1. ~NoController
      BY <1>0, <1>1, <1>10 DEF UnauthorizedInv, Connected
    <3>2. ~NoController'
      BY <2>4, <3>1 DEF NoController, serverVars, listenerVars
    <3> QED BY <3>2 DEF UnauthorizedInv
  <2>10. ClientTypes' /\ ConnInv' /\ ChannelTypes'
    BY <1>0, <1>1, <1>6, <1>7, <2>4, <2>5 DEF ClientTypes, ConnInv, ChannelTypes
  <2>11. ServerSide'
    BY <2>4, ServerUntouched DEF Inv, ServerSide
  <2> QED BY <2>5, <2>7, <2>8, <2>9, <2>10, <2>11 DEF Inv, CallsInv, ServerSide, UnderWay
<1> QED BY <1>5, <1>9, <1>10

\* A call that waits returns its answer, an error or that of its context.
LEMMA CallEndSteps ==
    ASSUME Inv, UNCHANGED serverVars, NEW c \in Callers, CallReturns(c) \/ CallCancelled(c)
    PROVE  Inv'
<1>0. /\ ChannelTypes /\ ClientTypes /\ ConnInv /\ CallsInv /\ pipe \in PipeSet
  BY DEF Inv, ChannelTypes, CallsInv
<1>1. /\ call[c].at = "waiting" /\ requestMu # c /\ Active(c)
      /\ UNCHANGED <<stage, conn, attempt, authID, nextID, closed, cancelled, backoff, requestMu, pipe>>
  BY <1>0 DEF CallReturns, CallCancelled, channelVars, CallsInv, CallInv, Active
<1>2. faults' \in 0..MaxFaults
  BY <1>0, FaultTypes DEF CallReturns, CallCancelled, channelVars
<1>3. PICK ok \in BOOLEAN, f \in FrameSet :
         /\ call' = Returned(c, ok, f) /\ pending' = pending \ {call[c].id}
         /\ ok => f.id = call[c].id /\ f.op = Op(c)
  <2>1. CASE CallCancelled(c)
    BY <2>1, GarbageIsFrame DEF CallCancelled
  <2>2. CASE CallReturns(c)
    <3>1. PICK f \in FrameSet : f = Head(call[c].box) /\ 1 \in DOMAIN call[c].box /\ f = call[c].box[1]
      <4>1. call[c].box \in Seq(FrameSet) /\ call[c].box # <<>>
        BY <1>0, <2>2, CallFields DEF CallReturns
      <4> QED BY <4>1
    <3>2. f.ok \in BOOLEAN /\ call' = Returned(c, f.ok, f) /\ pending' = pending
      BY <2>2, <3>1 DEF CallReturns, FrameSet
    <3>3. f.ok => f.id = call[c].id /\ f.op = Op(c)
      BY <1>0, <1>1, <3>1 DEF CallsInv, BoxInv
    <3>4. call[c].id \notin pending
      <4>1. SUFFICES ASSUME call[c].id \in pending PROVE FALSE
        OBVIOUS
      <4>2. PICK d \in Callers : Active(d) /\ call[d].id = call[c].id /\ call[d].box = <<>>
        BY <1>0, <4>1 DEF CallsInv, PendingInv
      <4>3. d = c
        BY <1>0, <1>1, <4>2 DEF CallsInv, CallInv
      <4> QED BY <2>2, <4>2, <4>3 DEF CallReturns
    <3> QED BY <3>2, <3>3, <3>4
  <2> QED BY <2>1, <2>2
<1>4. /\ call' \in [Callers -> CallSet] /\ CallsInv' /\ CallsMove
      /\ \A d \in Callers : call'[d].at = "writing" => call[d].at = "writing" /\ call'[d].on = call[d].on
  BY <1>0, <1>1, <1>3, ReturnedCalls
<1>5. OnlyReads
  BY <1>0, <1>1, OnlyReadsPipe
<1>6. ServerSide' /\ UnderWay'
  BY <1>1, <1>4, <1>5, FlowKept
<1>7. ClientTypes' /\ ConnInv' /\ ChannelTypes'
  BY <1>0, <1>1, <1>2, <1>3, <1>4 DEF ClientTypes, ConnInv, ChannelTypes
<1> QED BY <1>4, <1>6, <1>7 DEF Inv, CallsInv, ServerSide, UnderWay

\* A call takes requestMu, allocates its identifier and registers itself.
LEMMA CallBeginsStep ==
    ASSUME Inv, UNCHANGED serverVars, NEW c \in Callers, CallBegins(c)
    PROVE  Inv'
<1>0. /\ ChannelTypes /\ ClientTypes /\ ConnInv /\ CallsInv /\ pipe \in PipeSet /\ pipe.n \in Nat
      /\ ListenerTypes /\ WriterTypes /\ SrvInv /\ RequestsInv /\ RepliesInv /\ UnauthorizedInv
  BY PipeUpdates, ClientAssumption DEF Inv, ChannelTypes, CallsInv
<1>1. /\ requestMu = "none" /\ requestMu' = c /\ nextID \in 1..MaxId /\ nextID' = nextID + 1
      /\ conn # 0 /\ pending' = pending \cup {nextID} /\ nextID \in Nat
      /\ UNCHANGED <<stage, conn, attempt, authID, closed, cancelled, backoff, pipe, faults, lastRequestID>>
  BY <1>0, ClientAssumption
     DEF CallBegins, Holds, ClientTypes, channelVars, serverVars, listenerVars
<1>2. /\ call' \in [Callers -> CallSet] /\ CallsInv' /\ CallsMove
      /\ \A d \in Callers : call'[d].at = "writing" =>
            \/ call[d].at = "writing" /\ call'[d].on = call[d].on
            \/ call'[d].on = conn
  BY <1>0, <1>1, BegunCalls
<1>3. Top' = Top /\ Top \in Nat
  BY <1>1, ClientAssumption DEF Top
<1>4. Within(pipe'.s2c, pipe.s2c)
  BY <1>1, WithinItself
<1>5. RequestsInv'
  BY <1>0, <1>1, <1>2, <1>3, RequestsKept
<1>6. RepliesInv'
  BY <1>0, <1>1, <1>2, <1>4, RepliesKept
<1>7. UnauthorizedInv'
  BY <1>0, <1>1, <1>2, <1>4, UnauthorizedKept DEF UnauthorizedInv
<1>8. ServerSide'
  BY <1>1, ServerUntouched DEF Inv, ServerSide
<1>9. nextID' \in 1..(MaxId + 1) /\ pending' \subseteq 1..MaxId
  BY <1>0, <1>1, ClientAssumption DEF ClientTypes
<1>10. ClientTypes' /\ ConnInv' /\ ChannelTypes'
  BY <1>0, <1>1, <1>2, <1>9 DEF ClientTypes, ConnInv, ChannelTypes
<1> QED BY <1>2, <1>5, <1>6, <1>7, <1>8, <1>10 DEF Inv, CallsInv, ServerSide, UnderWay

\* Every step of the client preserves the invariant.
LEMMA ClientStep ==
    ASSUME Inv, ClientNext, UNCHANGED serverVars
    PROVE  Inv'
<1>1. CASE RunSteps
  BY <1>1, QuietSteps, OpenPipeStep, AuthenticateStep, ReadAuthenticatedStep, ReadFrameStep, DetachSteps
     DEF RunSteps
<1>2. CASE CancelRun \/ ClientClose
  BY <1>2, QuietSteps, DetachSteps
<1>3. ASSUME NEW c \in Callers, CallSteps(c) \/ CallCancelled(c) \/ CallBegins(c)
      PROVE  Inv'
  BY <1>3, CallWrittenStep, CallWriteFailsStep, CallEndSteps, CallBeginsStep DEF CallSteps
<1> QED BY <1>1, <1>2, <1>3 DEF ClientNext

-----------------------------------------------------------------------------
(* What the steps of the server leave to the client and the frames under   *)
(* way.                                                                    *)

\* The client's side of the invariant does not depend on what the server keeps.
LEMMA ClientUntouched ==
    ASSUME ClientTypes, ConnInv, CallsInv, UNCHANGED clientVars, pipe'.n = pipe.n
    PROVE  ClientTypes' /\ ConnInv' /\ CallsInv'
<1>1. UNCHANGED <<stage, conn, attempt, authID, pending, nextID, closed, cancelled, backoff, requestMu, call>>
  BY DEF clientVars
<1>2. ClientTypes' /\ ConnInv'
  BY <1>1 DEF ClientTypes, ConnInv
<1>3. CallsInv'
  BY <1>1 DEF CallsInv, CallInv, PendingInv, BoxInv, AnswerMatches, Active, Op
<1> QED BY <1>2, <1>3

\* A frame that answers nobody.
Calm(f) == f.id = 0 /\ f.type # "response"

\* A frame like one that is in flight already.
Derived(f) == Calm(f) \/ \E g \in Flight : Alike(f, g)

\* A frame that derives from what is in flight is as sound as that.
LEMMA DerivedSound ==
    ASSUME ClientTypes, CallsInv, RepliesInv, NEW f, Derived(f)
    PROVE  /\ ReplySound(f)
           /\ (\A g \in Flight : ~Grants(g)) => ~Grants(f)
<1>1. CASE Calm(f)
  <2>1. nextID \in Nat /\ 0 < nextID
    BY ClientAssumption DEF ClientTypes
  <2>2. \A c \in Callers : Active(c) => call[c].id # 0
    BY DEF CallsInv, CallInv
  <2> QED BY <1>1, <2>1, <2>2 DEF Calm, ReplySound, Grants
<1>2. CASE \E g \in Flight : Alike(f, g)
  <2>1. PICK g \in Flight : Alike(f, g)
    BY <1>2
  <2>2. ReplySound(g)
    BY DEF RepliesInv
  <2> QED BY <2>1, <2>2 DEF Alike, ReplySound, Grants
<1> QED BY <1>1, <1>2 DEF Derived

\* A step of the server keeps the invariant when it keeps the server's side
\* of it, takes requests from the front of the stream and sends nothing but
\* sound answers.
LEMMA ServerStepKeeps ==
    ASSUME Inv, UNCHANGED clientVars, ServerSide',
           pipe' \in PipeSet, pipe'.n = pipe.n, faults' \in 0..MaxFaults,
           Within(pipe'.c2s, pipe.c2s), Ordered(pipe'.c2s),
           lastRequestID' < Top,
           \A i \in DOMAIN pipe'.c2s : pipe'.c2s[i].type # "garbage" => lastRequestID' < pipe'.c2s[i].id,
           NoController' => NoController,
           \A f \in Flight' : ReplySound(f) /\ (NoController' => ~Grants(f))
    PROVE  Inv'
<1>0. ChannelTypes /\ ClientTypes /\ ConnInv /\ CallsInv /\ RequestsInv /\ UnauthorizedInv
  BY DEF Inv, CallsInv
<1>1. ClientTypes' /\ ConnInv' /\ CallsInv'
  BY <1>0, ClientUntouched
<1>2. UNCHANGED <<conn, nextID, requestMu, call>> /\ Top' = Top
  BY DEF clientVars, Top
<1>3. RequestsInv'
  <2>1. ASSUME NEW i \in DOMAIN pipe'.c2s PROVE RequestSound(pipe.c2s[i])'
    <3>1. CASE pipe'.c2s[i] = Garbage
      BY <3>1, GarbageIsFrame DEF RequestSound
    <3>2. ASSUME NEW j \in DOMAIN pipe.c2s, pipe'.c2s[i] = pipe.c2s[j]
          PROVE  RequestSound(pipe.c2s[i])'
      <4>1. RequestSound(pipe.c2s[j])
        BY <1>0 DEF RequestsInv
      <4> QED BY <1>2, <2>1, <3>2, <4>1 DEF RequestSound, Active, Op
    <3> QED BY <2>1, <3>1, <3>2 DEF Within
  <2> QED BY <1>2, <2>1 DEF RequestsInv, Ordered, RequestSound
<1>4. RepliesInv'
  <2>1. ASSUME NEW f \in Flight' PROVE ReplySound(f)'
    BY <1>2, <2>1 DEF ReplySound, Active, Op
  <2> QED BY <2>1 DEF RepliesInv
<1>5. UnauthorizedInv'
  <2> SUFFICES ASSUME NoController'
      PROVE  /\ conn' # pipe'.n
             /\ \A c \in Callers : call'[c].at = "writing" => call'[c].on # pipe'.n
             /\ \A i \in DOMAIN pipe'.c2s : pipe'.c2s[i].type \in {"authenticate", "garbage"}
             /\ \A f \in Flight' : ~Grants(f)
    BY DEF UnauthorizedInv, Grants
  <2>1. /\ conn # pipe.n
        /\ \A c \in Callers : call[c].at = "writing" => call[c].on # pipe.n
        /\ \A i \in DOMAIN pipe.c2s : pipe.c2s[i].type \in {"authenticate", "garbage"}
    BY <1>0 DEF UnauthorizedInv
  <2> QED BY <1>2, <2>1, GarbageIsFrame DEF Within
<1> QED BY <1>1, <1>3, <1>4, <1>5 DEF Inv, CallsInv, ServerSide, ChannelTypes

\* The requests are where they were.
LEMMA RequestsStay ==
    ASSUME Inv, pipe'.c2s \in {pipe.c2s, <<>>}, lastRequestID' \in {lastRequestID, 0}
    PROVE  /\ Within(pipe'.c2s, pipe.c2s) /\ Ordered(pipe'.c2s) /\ lastRequestID' < Top
           /\ \A i \in DOMAIN pipe'.c2s :
                 pipe'.c2s[i].type # "garbage" => lastRequestID' < pipe'.c2s[i].id
<1>0. /\ RequestsInv /\ lastRequestID \in Nat /\ lastRequestID' \in Nat /\ lastRequestID' <= lastRequestID
      /\ Top \in Nat /\ pipe.c2s \in Seq(FrameSet)
  BY TopBounds, PipeUpdates DEF Inv, ListenerTypes, ChannelTypes
<1>1. ASSUME NEW i \in DOMAIN pipe.c2s, pipe.c2s[i].type # "garbage"
      PROVE  lastRequestID' < pipe.c2s[i].id
  <2>1. pipe.c2s[i] \in FrameSet /\ RequestSound(pipe.c2s[i])
    BY <1>0 DEF RequestsInv
  <2>2. lastRequestID < pipe.c2s[i].id /\ pipe.c2s[i].id \in Nat
    BY <1>1, <2>1 DEF RequestSound, FrameSet
  <2> QED BY <1>0, <2>2
<1>2. CASE pipe'.c2s = pipe.c2s
  BY <1>0, <1>1, <1>2, WithinItself DEF RequestsInv
<1>3. CASE pipe'.c2s = <<>>
  BY <1>0, <1>3 DEF RequestsInv, Within, Ordered
<1> QED BY <1>2, <1>3

\* If all that is in flight after a step derives from before, so does each frame.
LEMMA FlightDerived ==
    ASSUME NEW f \in Flight',
           \A i \in DOMAIN pipe'.s2c : Derived(pipe'.s2c[i]),
           \A i \in DOMAIN queue' : Derived(queue'[i].frame),
           Derived(inHand'.frame),
           \A t \in Writers : Derived(writes'[t].frame)
    PROVE  Derived(f)
BY DEF Flight, Derived

\* What is in flight derives from itself.
LEMMA FlightItself ==
    /\ \A i \in DOMAIN pipe.s2c : Derived(pipe.s2c[i])
    /\ \A i \in DOMAIN queue : Derived(queue[i].frame)
    /\ Derived(inHand.frame)
    /\ \A t \in Writers : Derived(writes[t].frame)
    /\ Derived(Garbage)
<1>1. \A f \in Flight : Derived(f)
  BY DEF Derived, Alike
<1>2. Derived(Garbage)
  BY GarbageIsFrame DEF Derived, Calm
<1> QED BY <1>1, <1>2 DEF Flight

-----------------------------------------------------------------------------
(* The writer and the calls of WriteFrame.                                 *)

WritesSet == {w \in [Writers -> WriteSet] : \A t \in Writers : w[t].at = "idle" => w[t].frame = Garbage}

\* The calls go on, or return: none starts and none changes its frame.
Moves(w, v) ==
    /\ v \in WritesSet
    /\ \A t \in Writers : /\ v[t].frame = w[t].frame \/ v[t].frame = Garbage
                          /\ w[t].at = "idle" => v[t].at = "idle"

\* Two moves of the calls to WriteFrame in a row are one.
LEMMA MovesTransitive ==
    ASSUME NEW w, NEW v, NEW u, Moves(w, v), Moves(v, u)
    PROVE  Moves(w, u)
BY DEF Moves

\* A call to WriteFrame that has returned holds no frame.
LEMMA IdleWrite ==
    ASSUME NEW result \in {"none", "ok", "error"}
    PROVE  /\ Idle(result) \in WriteSet /\ Idle(result).at = "idle" /\ Idle(result).frame = Garbage
BY GarbageIsFrame DEF Idle, WriteSet

\* One call to WriteFrame goes on or returns.
LEMMA MovesAlone ==
    ASSUME NEW w \in WritesSet
    PROVE  /\ Moves(w, w)
           /\ \A t \in Writers : \A at \in {"enqueue", "asleep", "await"} :
                 w[t].at # "idle" => Moves(w, [w EXCEPT ![t].at = at])
           /\ \A t : \A result \in {"none", "ok", "error"} : Moves(w, [w EXCEPT ![t] = Idle(result)])
<1>0. w \in [Writers -> WriteSet] /\ \A t \in Writers : w[t].at = "idle" => w[t].frame = Garbage
  BY DEF WritesSet
<1>1. Moves(w, w)
  BY DEF Moves
<1>2. ASSUME NEW t \in Writers, NEW at \in {"enqueue", "asleep", "await"}, w[t].at # "idle"
      PROVE  Moves(w, [w EXCEPT ![t].at = at])
  <2>1. PICK r : r = [w[t] EXCEPT !.at = at]
    OBVIOUS
  <2>2. r \in WriteSet /\ r.at = at /\ r.frame = w[t].frame
    BY <1>0, <2>1 DEF WriteSet
  <2>3. PICK v : v = [w EXCEPT ![t] = r]
    OBVIOUS
  <2>4. v \in [Writers -> WriteSet] /\ v[t] = r /\ \A x \in Writers \ {t} : v[x] = w[x]
    BY <1>0, <2>2, <2>3
  <2>5. Moves(w, v)
    BY <1>0, <1>2, <2>2, <2>4 DEF Moves, WritesSet
  <2>6. v = [w EXCEPT ![t].at = at]
    BY <2>1, <2>3
  <2> QED BY <2>5, <2>6
<1>3. ASSUME NEW t, NEW result \in {"none", "ok", "error"}
      PROVE  Moves(w, [w EXCEPT ![t] = Idle(result)])
  <2>1. PICK r \in WriteSet : r = Idle(result) /\ r.at = "idle" /\ r.frame = Garbage
    BY IdleWrite
  <2>2. PICK v : v = [w EXCEPT ![t] = r]
    OBVIOUS
  <2>3. v \in [Writers -> WriteSet] /\ \A x \in Writers : v[x] = r \/ v[x] = w[x]
    BY <1>0, <2>1, <2>2
  <2>4. \A x \in Writers : w[x].at = "idle" => v[x].at = "idle"
    BY <2>1, <2>3
  <2>5. Moves(w, v)
    BY <1>0, <2>1, <2>3, <2>4 DEF Moves, WritesSet
  <2> QED BY <2>1, <2>2, <2>5
<1> QED BY <1>1, <1>2, <1>3

\* A broadcast wakes every call that sleeps, and changes nothing else.
LEMMA BroadcastMoves ==
    ASSUME NEW w \in WritesSet
    PROVE  Moves(w, Broadcast(w)) /\ \A t \in Writers : Broadcast(w)[t].at # "asleep"
<1>0. w \in [Writers -> WriteSet] /\ \A t \in Writers : w[t].at = "idle" => w[t].frame = Garbage
  BY DEF WritesSet
<1>1. PICK v : v = Broadcast(w)
  OBVIOUS
<1>2. PICK at \in {"idle", "enqueue", "asleep", "await"} : at = "enqueue"
  OBVIOUS
<1>3. ASSUME NEW t \in Writers
      PROVE  /\ v[t] \in WriteSet /\ v[t].at # "asleep" /\ v[t].frame = w[t].frame
             /\ v[t].at = "idle" <=> w[t].at = "idle"
  <2>1. CASE w[t].at = "asleep"
    <3>1. v[t] = [w[t] EXCEPT !.at = at]
      BY <1>1, <1>2, <2>1 DEF Broadcast
    <3>2. v[t] \in WriteSet /\ v[t].at = at /\ v[t].frame = w[t].frame
      BY <1>0, <3>1 DEF WriteSet
    <3> QED BY <1>2, <2>1, <3>2
  <2>2. CASE w[t].at # "asleep"
    BY <1>0, <1>1, <2>2 DEF Broadcast
  <2> QED BY <2>1, <2>2
<1>4. v \in [Writers -> WriteSet]
  <2>1. v = [t \in Writers |-> v[t]]
    BY <1>1 DEF Broadcast
  <2> QED BY <1>3, <2>1
<1> QED BY <1>0, <1>1, <1>3, <1>4 DEF Moves, WritesSet

\* The writer tells a call the result of its write.
LEMMA AnsweredMoves ==
    ASSUME NEW w \in WritesSet, NEW request, NEW result \in {"none", "ok", "error"}
    PROVE  Moves(w, Answered(w, request, result))
BY MovesAlone DEF Answered

\* The writer answers everything left in its queue.
LEMMA DrainedMoves ==
    ASSUME NEW w \in WritesSet
    PROVE  Moves(w, Drained(w))
<1>0. w \in [Writers -> WriteSet] /\ \A t \in Writers : w[t].at = "idle" => w[t].frame = Garbage
  BY DEF WritesSet
<1>1. PICK v : v = Drained(w)
  OBVIOUS
<1>2. PICK r \in WriteSet : r = Idle("error") /\ r.at = "idle" /\ r.frame = Garbage
  BY IdleWrite
<1>3. v = [t \in Writers |-> v[t]] /\ \A t \in Writers : v[t] = r \/ v[t] = w[t]
  BY <1>1, <1>2 DEF Drained
<1>4. v \in [Writers -> WriteSet]
  BY <1>0, <1>2, <1>3
<1> QED BY <1>0, <1>1, <1>2, <1>3, <1>4 DEF Moves, WritesSet

\* A step of the writer, or of a call to it, while the listener stands still.
LEMMA WriterStepKeeps ==
    ASSUME Inv, UNCHANGED clientVars, UNCHANGED listenerVars,
           pipe' \in PipeSet, pipe'.n = pipe.n, pipe'.server = pipe.server, pipe'.c2s = pipe.c2s,
           faults' \in 0..MaxFaults,
           \A i \in DOMAIN pipe'.s2c : Derived(pipe'.s2c[i]),
           Moves(writes, writes'),
           queue' \in Seq(RequestSet), Len(queue') <= QueueSize,
           \A i \in DOMAIN queue' : Derived(queue'[i].frame),
           inHand' \in RequestSet, Derived(inHand'.frame),
           wClosed' \in BOOLEAN, wCancelled' \in BOOLEAN,
           writer' \in {"none", "select", "writing", "done"},
           writer' = writer \/ writer \in {"select", "writing"},
           writer' \in {"none", "done"} => queue' = <<>> /\ \A t \in Writers : writes'[t].at # "asleep",
           writer' = "done" => wClosed', writer' # "writing" => inHand'.frame = Garbage
    PROVE  Inv'
<1>0. ListenerTypes /\ WriterTypes /\ SrvInv /\ WriterInv /\ DelivererInv
        /\ ClientTypes /\ CallsInv /\ RepliesInv /\ UnauthorizedInv
  BY DEF Inv, CallsInv
<1>1. UNCHANGED <<srv, srvStop, session, controller, lastRequestID, serveErr, deliveries>>
  BY DEF listenerVars
<1>2. writes' \in [Writers -> WriteSet] /\ \A t \in Writers :
         /\ writes'[t].frame = writes[t].frame \/ writes'[t].frame = Garbage
         /\ writes[t].at = "idle" => writes'[t].at = "idle"
         /\ writes'[t].at = "idle" => writes'[t].frame = Garbage
  BY DEF Moves, WritesSet
<1>3. ListenerTypes' /\ WriterTypes'
  BY <1>0, <1>1, <1>2 DEF ListenerTypes, WriterTypes
<1>4. SrvInv'
  <2>1. "serve" \in Writers
    BY DEF Writers
  <2> QED BY <1>0, <1>1, <1>2, <2>1 DEF SrvInv
<1>5. WriterInv'
  BY <1>0, <1>1, <1>2 DEF WriterInv
<1>6. DelivererInv'
  BY <1>0, <1>2, GarbageIsFrame DEF DelivererInv, Grants, Writers
<1>7. NoController' <=> NoController
  BY <1>1 DEF NoController
<1>8. \A t \in Writers : Derived(writes'[t].frame)
  BY <1>2, FlightItself
<1>9. \A f \in Flight' : ReplySound(f) /\ (NoController' => ~Grants(f))
  <2> TAKE f \in Flight'
  <2>1. Derived(f)
    BY <1>8, FlightDerived
  <2>2. ReplySound(f) /\ ((\A g \in Flight : ~Grants(g)) => ~Grants(f))
    BY <1>0, <2>1, DerivedSound
  <2> QED BY <1>0, <1>7, <2>2 DEF UnauthorizedInv
<1>10. /\ Within(pipe'.c2s, pipe.c2s) /\ Ordered(pipe'.c2s) /\ lastRequestID' < Top
       /\ \A i \in DOMAIN pipe'.c2s : pipe'.c2s[i].type # "garbage" => lastRequestID' < pipe'.c2s[i].id
  BY <1>1, RequestsStay
<1>11. ServerSide'
  BY <1>3, <1>4, <1>5, <1>6 DEF ServerSide
<1> QED BY <1>7, <1>9, <1>10, <1>11, ServerStepKeeps

\* The types of the writer, call by call and request by request.
LEMMA WritesType ==
    ASSUME WriterTypes, WriterInv
    PROVE  /\ writes \in WritesSet /\ queue \in Seq(RequestSet) /\ Len(queue) <= QueueSize
           /\ \A i \in DOMAIN queue : queue[i] \in RequestSet
           /\ inHand \in RequestSet /\ inHand.frame \in FrameSet
           /\ \A t \in Writers : writes[t].frame \in FrameSet
<1>1. writes \in WritesSet
  BY DEF WriterTypes, WriterInv, WritesSet
<1>2. queue \in Seq(RequestSet) /\ Len(queue) <= QueueSize /\ inHand \in RequestSet
  BY DEF WriterTypes
<1>3. \A i \in DOMAIN queue : queue[i] \in RequestSet
  BY <1>2
<1>4. inHand.frame \in FrameSet
  BY <1>2 DEF RequestSet
<1>5. \A t \in Writers : writes[t].frame \in FrameSet
  BY DEF WriterTypes, WriteSet
<1> QED BY <1>1, <1>2, <1>3, <1>4, <1>5

\* enqueue puts the frame of its call at the end of the queue.
LEMMA EnqueueStep ==
    ASSUME Inv, UNCHANGED clientVars, NEW t \in Writers, Enqueue(t) \/ EnqueueWaits(t)
    PROVE  Inv'
<1>0. ChannelTypes /\ WriterTypes /\ WriterInv /\ pipe \in PipeSet
  BY DEF Inv, ChannelTypes
<1>1. /\ UNCHANGED <<writer, inHand, wClosed, wCancelled, listenerVars, pipe, faults>>
      /\ writes[t].at = "enqueue" /\ writer \notin {"none", "done"}
  BY <1>0 DEF Enqueue, EnqueueWaits, channelVars, OnWriter, Refuses, WriterInv
<1>2. PICK at \in {"enqueue", "asleep", "await"} : writes' = [writes EXCEPT ![t].at = at]
  <2>1. CASE Enqueue(t)
    BY <2>1 DEF Enqueue
  <2>2. CASE EnqueueWaits(t)
    BY <2>2 DEF EnqueueWaits
  <2> QED BY <2>1, <2>2
<1>3. Moves(writes, writes')
  BY <1>0, <1>1, <1>2, WritesType, MovesAlone
<1>4. /\ queue' \in Seq(RequestSet) /\ Len(queue') <= QueueSize
      /\ \A i \in DOMAIN queue' : Derived(queue'[i].frame)
  <2>1. CASE queue' = queue
    BY <1>0, <2>1, WritesType, FlightItself
  <2>2. CASE Enqueue(t)
    <3>1. PICK f \in FrameSet : f = writes[t].frame /\ Derived(f)
      BY <1>0, WritesType, FlightItself
    <3>2. PICK r : r = Request(t, f)
      OBVIOUS
    <3>3. r \in RequestSet /\ r.frame = f
      BY <3>2 DEF Request, RequestSet
    <3>4. queue' = Append(queue, r) /\ Len(queue) < QueueSize /\ queue \in Seq(RequestSet)
      BY <1>0, <2>2, <3>1, <3>2, WritesType DEF Enqueue
    <3>5. /\ queue' \in Seq(RequestSet) /\ Len(queue') = Len(queue) + 1
          /\ \A i \in DOMAIN queue' : queue'[i] = r \/ (i \in DOMAIN queue /\ queue'[i] = queue[i])
      BY <3>3, <3>4
    <3>6. Len(queue') <= QueueSize
      BY <3>4, <3>5, ServerAssumption
    <3> QED BY <3>1, <3>3, <3>5, <3>6, FlightItself
  <2> QED BY <2>1, <2>2 DEF EnqueueWaits
<1>5. faults' \in 0..MaxFaults
  BY <1>0, <1>1 DEF ChannelTypes
<1> QED BY <1>0, <1>1, <1>3, <1>4, <1>5, WriterStepKeeps, FlightItself DEF WriterTypes, WriterInv

\* A call to WriteFrame returns with an error.
LEMMA WriteEndsStep ==
    ASSUME Inv, UNCHANGED clientVars, NEW t \in Writers,
           EnqueueRefused(t) \/ WriterGone(t) \/ WriteExpires(t)
    PROVE  Inv'
<1>0. ChannelTypes /\ WriterTypes /\ WriterInv /\ pipe \in PipeSet
  BY DEF Inv, ChannelTypes
<1>1. /\ UNCHANGED <<writer, wClosed, wCancelled, listenerVars, pipe>>
      /\ writes' = [writes EXCEPT ![t] = Idle("error")]
  BY DEF EnqueueRefused, WriterGone, WriteExpires, channelVars
<1>2. faults' \in 0..MaxFaults
  BY <1>0, FaultTypes DEF EnqueueRefused, WriterGone, WriteExpires, channelVars
<1>3. Moves(writes, writes') /\ \A x \in Writers : writes'[x].at = "asleep" => writes[x].at = "asleep"
  <2>1. PICK result \in {"none", "ok", "error"} : result = "error"
    OBVIOUS
  <2>2. Moves(writes, writes')
    BY <1>0, <1>1, <2>1, WritesType, MovesAlone
  <2>3. writes \in [Writers -> WriteSet] /\ Idle(result).at = "idle"
    BY <1>0, IdleWrite DEF WriterTypes
  <2> QED BY <1>1, <2>1, <2>2, <2>3
<1>4. /\ inHand' \in RequestSet /\ inHand'.frame = inHand.frame
      /\ queue' \in Seq(RequestSet) /\ Len(queue') = Len(queue)
      /\ \A i \in DOMAIN queue' : queue'[i].frame = queue[i].frame /\ i \in DOMAIN queue
  <2>1. CASE UNCHANGED <<queue, inHand>>
    BY <1>0, <2>1, WritesType
  <2>2. CASE WriteExpires(t)
    <3>1. PICK no \in BOOLEAN : no = FALSE
      OBVIOUS
    <3>2. \A r \in RequestSet : /\ [r EXCEPT !.live = no] \in RequestSet
                                /\ [r EXCEPT !.live = no].frame = r.frame
      BY DEF RequestSet
    <3>3. inHand' = (IF inHand.by = t THEN [inHand EXCEPT !.live = no] ELSE inHand)
      BY <2>2, <3>1 DEF WriteExpires
    <3>4. inHand' \in RequestSet /\ inHand'.frame = inHand.frame
      BY <1>0, <3>2, <3>3, WritesType
    <3>5. queue' = [i \in DOMAIN queue |->
                      IF queue[i].by = t THEN [queue[i] EXCEPT !.live = no] ELSE queue[i]]
      BY <2>2, <3>1 DEF WriteExpires
    <3>6. DOMAIN queue = 1..Len(queue) /\ Len(queue) \in Nat /\ \A i \in DOMAIN queue : queue[i] \in RequestSet
      BY <1>0, WritesType
    <3>7. ASSUME NEW i \in DOMAIN queue
          PROVE  queue'[i] \in RequestSet /\ queue'[i].frame = queue[i].frame
      BY <3>2, <3>5, <3>6
    <3>8. queue' \in [1..Len(queue) -> RequestSet]
      BY <3>5, <3>6, <3>7
    <3>9. queue' \in Seq(RequestSet) /\ Len(queue') = Len(queue)
      BY <3>6, <3>8, IsASeq, LenProperties
    <3> QED BY <3>4, <3>6, <3>7, <3>8, <3>9
  <2> QED BY <2>1, <2>2 DEF EnqueueRefused, WriterGone
<1>5. \A i \in DOMAIN queue' : Derived(queue'[i].frame)
  BY <1>4, FlightItself
<1>6. Derived(inHand'.frame)
  BY <1>4, FlightItself
<1>7. writer' \in {"none", "done"} => queue' = <<>> /\ \A x \in Writers : writes'[x].at # "asleep"
  <2>1. ASSUME writer' \in {"none", "done"} PROVE queue' = <<>>
    <3>1. queue = <<>>
      BY <1>0, <1>1, <2>1 DEF WriterInv
    <3> QED BY <1>4, <3>1
  <2> QED BY <1>0, <1>1, <1>3, <2>1 DEF WriterInv
<1>8. Len(queue') <= QueueSize
  BY <1>0, <1>4, WritesType
<1> QED BY <1>0, <1>1, <1>2, <1>3, <1>4, <1>5, <1>6, <1>7, <1>8, WriterStepKeeps, FlightItself
        DEF WriterTypes, WriterInv

\* The empty hand of the writer holds rubbish.
LEMMA NoRequestType == NoRequest \in RequestSet /\ NoRequest.frame = Garbage
BY GarbageIsFrame DEF NoRequest, Request, RequestSet

\* The first request of the queue, and what is left of it.
LEMMA QueueTail ==
    ASSUME WriterTypes, queue # <<>>
    PROVE  /\ Head(queue) \in RequestSet /\ Derived(Head(queue).frame)
           /\ Tail(queue) \in Seq(RequestSet) /\ Len(Tail(queue)) <= QueueSize
           /\ \A i \in DOMAIN Tail(queue) : Derived(Tail(queue)[i].frame)
<1>0. queue \in Seq(RequestSet) /\ Len(queue) <= QueueSize /\ QueueSize \in Nat
  BY ServerAssumption DEF WriterTypes
<1>1. Len(queue) \in Nat /\ Len(queue) > 0 /\ DOMAIN queue = 1..Len(queue)
  BY <1>0
<1>2. Head(queue) \in RequestSet /\ Head(queue) = queue[1] /\ 1 \in DOMAIN queue
  BY <1>0, <1>1
<1>3. PICK q : q = Tail(queue)
  OBVIOUS
<1>4. /\ q \in Seq(RequestSet) /\ Len(q) = Len(queue) - 1
      /\ \A i \in 1..(Len(queue) - 1) : q[i] = queue[i + 1]
  BY <1>0, <1>1, <1>3
<1>5. ASSUME NEW i \in DOMAIN q PROVE Derived(q[i].frame)
  <2>1. i + 1 \in DOMAIN queue /\ q[i] = queue[i + 1]
    BY <1>1, <1>4
  <2> QED BY <2>1, FlightItself
<1>6. Len(q) <= QueueSize
  BY <1>0, <1>1, <1>4
<1> QED BY <1>2, <1>3, <1>4, <1>5, <1>6, FlightItself

\* The writer takes the first request and writes it or skips it.
LEMMA WriterTakesStep ==
    ASSUME Inv, UNCHANGED clientVars, WriterSkips \/ WriterStarts
    PROVE  Inv'
<1>0. ChannelTypes /\ WriterTypes /\ WriterInv /\ pipe \in PipeSet
  BY DEF Inv, ChannelTypes
<1>1. /\ UNCHANGED <<wClosed, wCancelled, listenerVars, pipe, faults>>
      /\ writer = "select" /\ queue # <<>> /\ queue' = Tail(queue)
  BY DEF WriterSkips, WriterStarts, channelVars
<1>2. /\ queue' \in Seq(RequestSet) /\ Len(queue') <= QueueSize
      /\ \A i \in DOMAIN queue' : Derived(queue'[i].frame)
      /\ Head(queue) \in RequestSet /\ Derived(Head(queue).frame)
  BY <1>0, <1>1, QueueTail
<1>3. writes \in WritesSet
  BY <1>0, WritesType
<1>4. PICK w \in WritesSet : w = AwakensWaiters(writes) /\ Moves(writes, w)
  BY <1>3, BroadcastMoves DEF AwakensWaiters, Moves
<1>5. PICK error \in {"none", "ok", "error"} : error = "error"
  OBVIOUS
<1>6. Moves(w, Answered(w, Head(queue), error))
  BY <1>4, AnsweredMoves
<1>7. Moves(writes, writes')
  <2>1. writes' = w \/ writes' = Answered(w, Head(queue), error)
    BY <1>4, <1>5 DEF WriterSkips, WriterStarts
  <2> QED BY <1>4, <1>6, <2>1, MovesTransitive
<1>8. \/ writer' = "select" /\ inHand' = inHand
      \/ writer' = "writing" /\ inHand' = Head(queue)
  BY <1>1 DEF WriterSkips, WriterStarts
<1>9. inHand' \in RequestSet /\ Derived(inHand'.frame) /\ (writer' # "writing" => inHand'.frame = Garbage)
  BY <1>0, <1>1, <1>2, <1>8, WritesType, FlightItself DEF WriterInv
<1>10. faults' \in 0..MaxFaults /\ wClosed' \in BOOLEAN /\ wCancelled' \in BOOLEAN
  BY <1>0, <1>1 DEF ChannelTypes, WriterTypes
<1> QED BY <1>0, <1>1, <1>2, <1>7, <1>8, <1>9, <1>10, WriterStepKeeps, FlightItself

\* What the writer puts into the stream is the frame it has in hand.
LEMMA StreamWritten ==
    ASSUME pipe \in PipeSet, inHand.frame \in FrameSet,
           NEW s \in FailedWrites(pipe.s2c, inHand.frame), pipe' = [pipe EXCEPT !.s2c = s]
    PROVE  /\ pipe' \in PipeSet /\ pipe'.n = pipe.n /\ pipe'.server = pipe.server /\ pipe'.c2s = pipe.c2s
           /\ \A i \in DOMAIN pipe'.s2c : Derived(pipe'.s2c[i])
<1>0. pipe.s2c \in Seq(FrameSet)
  BY PipeUpdates
<1>1. PICK f \in FrameSet : f = inHand.frame
  OBVIOUS
<1>2. PICK g : g = [f EXCEPT !.cut = TRUE]
  OBVIOUS
<1>3. g \in FrameSet /\ Alike(g, f)
  BY <1>2 DEF FrameSet, Alike
<1>4. Derived(f) /\ Derived(g)
  BY <1>1, <1>3, FlightItself DEF Derived, Flight
<1>5. s = pipe.s2c \/ s = Append(pipe.s2c, f) \/ s = Append(pipe.s2c, g)
  BY <1>1, <1>2 DEF FailedWrites
<1>6. ASSUME NEW h \in FrameSet, Derived(h), s = Append(pipe.s2c, h)
      PROVE  s \in Seq(FrameSet) /\ \A i \in DOMAIN s : Derived(s[i])
  <2>1. s \in Seq(FrameSet) /\ \A i \in DOMAIN s : s[i] = h \/ (i \in DOMAIN pipe.s2c /\ s[i] = pipe.s2c[i])
    BY <1>0, <1>6
  <2> QED BY <1>6, <2>1, FlightItself
<1>7. s \in Seq(FrameSet) /\ \A i \in DOMAIN s : Derived(s[i])
  <2>1. CASE s = pipe.s2c
    BY <1>0, <2>1, FlightItself
  <2>2. CASE s = Append(pipe.s2c, f)
    BY <1>4, <1>6, <2>2
  <2>3. CASE s = Append(pipe.s2c, g)
    BY <1>3, <1>4, <1>6, <2>3
  <2> QED BY <1>5, <2>1, <2>2, <2>3
<1>8. /\ pipe' \in PipeSet /\ pipe'.n = pipe.n /\ pipe'.server = pipe.server /\ pipe'.c2s = pipe.c2s
      /\ pipe'.s2c = s
  BY <1>7, PipeUpdates
<1> QED BY <1>7, <1>8

\* The write ends, one way or the other.
LEMMA WriterWritesStep ==
    ASSUME Inv, UNCHANGED clientVars, WriterWrote \/ WriterFailed
    PROVE  Inv'
<1>0. ChannelTypes /\ WriterTypes /\ WriterInv /\ pipe \in PipeSet /\ inHand.frame \in FrameSet
  BY WritesType DEF Inv, ChannelTypes
<1>1. /\ UNCHANGED <<queue, wClosed, listenerVars>> /\ wCancelled' \in BOOLEAN
      /\ writer = "writing" /\ writer' = "select" /\ inHand' = NoRequest
  BY <1>0 DEF WriterWrote, WriterFailed, WriterTypes
<1>2. pipe' = pipe \/ \E s \in FailedWrites(pipe.s2c, inHand.frame) : pipe' = [pipe EXCEPT !.s2c = s]
  <2>1. CASE WriterWrote
    BY <2>1 DEF WriterWrote, FailedWrites
  <2>2. CASE WriterFailed
    BY <2>2 DEF WriterFailed, channelVars
  <2> QED BY <2>1, <2>2
<1>3. /\ pipe' \in PipeSet /\ pipe'.n = pipe.n /\ pipe'.server = pipe.server /\ pipe'.c2s = pipe.c2s
      /\ \A i \in DOMAIN pipe'.s2c : Derived(pipe'.s2c[i])
  <2>1. CASE pipe' = pipe
    BY <1>0, <2>1, FlightItself
  <2>2. CASE \E s \in FailedWrites(pipe.s2c, inHand.frame) : pipe' = [pipe EXCEPT !.s2c = s]
    BY <1>0, <2>2, StreamWritten
  <2> QED BY <1>2, <2>1, <2>2
<1>4. faults' \in 0..MaxFaults
  BY <1>0, FaultTypes DEF WriterWrote, WriterFailed, channelVars
<1>5. writes \in WritesSet
  BY <1>0, WritesType
<1>6. Moves(writes, writes')
  <2>1. CASE WriterWrote
    <3>1. PICK ok \in {"none", "ok", "error"} : ok = "ok"
      OBVIOUS
    <3> QED BY <1>5, <2>1, <3>1, AnsweredMoves DEF WriterWrote
  <2>2. CASE WriterFailed
    <3>1. PICK error \in {"none", "ok", "error"} : error = "error"
      OBVIOUS
    <3>2. PICK w \in WritesSet : w = Answered(writes, inHand, error) /\ Moves(writes, w)
      BY <1>5, AnsweredMoves DEF Moves
    <3>3. writes' = Broadcast(w)
      BY <2>2, <3>1, <3>2 DEF WriterFailed
    <3> QED BY <3>2, <3>3, BroadcastMoves, MovesTransitive
  <2> QED BY <2>1, <2>2
<1>7. inHand' \in RequestSet /\ Derived(inHand'.frame) /\ inHand'.frame = Garbage
  BY <1>1, NoRequestType, FlightItself
<1>8. /\ queue' \in Seq(RequestSet) /\ Len(queue') <= QueueSize
      /\ \A i \in DOMAIN queue' : Derived(queue'[i].frame)
  BY <1>0, <1>1, WritesType, FlightItself
<1>9. wClosed' \in BOOLEAN
  BY <1>0, <1>1 DEF WriterTypes
<1> QED BY <1>1, <1>3, <1>4, <1>6, <1>7, <1>8, <1>9, WriterStepKeeps

\* The writer answers what is left in the queue and ends.
LEMMA WriterEndsStep ==
    ASSUME Inv, UNCHANGED clientVars, WriterEnds
    PROVE  Inv'
<1>0. ChannelTypes /\ WriterTypes /\ WriterInv /\ pipe \in PipeSet /\ writes \in WritesSet
  BY WritesType DEF Inv, ChannelTypes
<1>1. /\ UNCHANGED <<inHand, wCancelled, listenerVars, pipe, faults>> /\ wClosed' = TRUE
      /\ writer = "select" /\ writer' = "done" /\ queue' = <<>> /\ writes' = Broadcast(Drained(writes))
  BY DEF WriterEnds, channelVars
<1>2. PICK w \in WritesSet : w = Drained(writes) /\ Moves(writes, w)
  BY <1>0, DrainedMoves DEF Moves
<1>3. Moves(writes, writes') /\ \A t \in Writers : writes'[t].at # "asleep"
  BY <1>1, <1>2, BroadcastMoves, MovesTransitive
<1>4. inHand' \in RequestSet /\ Derived(inHand'.frame) /\ inHand'.frame = Garbage
  BY <1>0, <1>1, WritesType, FlightItself DEF WriterInv
<1>5. queue' \in Seq(RequestSet) /\ Len(queue') <= QueueSize /\ \A i \in DOMAIN queue' : Derived(queue'[i].frame)
  <2>1. <<>> \in Seq(RequestSet) /\ Len(<<>>) = 0
    BY EmptySeq
  <2> QED BY <1>1, <2>1, ServerAssumption
<1>6. faults' \in 0..MaxFaults /\ wCancelled' \in BOOLEAN
  BY <1>0, <1>1 DEF ChannelTypes, WriterTypes
<1> QED BY <1>0, <1>1, <1>3, <1>4, <1>5, <1>6, WriterStepKeeps, FlightItself

\* Every step of the writer and of the calls to it preserves the invariant.
LEMMA WriterNextStep ==
    ASSUME Inv, UNCHANGED clientVars, WriterNext
    PROVE  Inv'
<1>1. ASSUME NEW t \in Writers, Enqueue(t) \/ EnqueueWaits(t) \/ EnqueueRefused(t)
                                  \/ WriterGone(t) \/ WriteExpires(t)
      PROVE  Inv'
  BY <1>1, EnqueueStep, WriteEndsStep
<1>2. CASE WriterSteps
  BY <1>2, WriterTakesStep, WriterWritesStep, WriterEndsStep DEF WriterSteps
<1> QED BY <1>1, <1>2 DEF WriterNext

-----------------------------------------------------------------------------
(* The listener.                                                           *)

\* A step of the listener that puts nothing new into flight.
LEMMA ListenerStepKeeps ==
    ASSUME Inv, UNCHANGED clientVars, ServerSide',
           pipe' \in PipeSet, pipe'.n = pipe.n, faults' \in 0..MaxFaults,
           pipe'.c2s \in {pipe.c2s, <<>>}, pipe'.s2c \in {pipe.s2c, <<>>},
           lastRequestID' \in {lastRequestID, 0}, NoController' => NoController,
           \A i \in DOMAIN queue' : Derived(queue'[i].frame), Derived(inHand'.frame),
           \A t \in Writers : Derived(writes'[t].frame)
    PROVE  Inv'
<1>0. ClientTypes /\ CallsInv /\ RepliesInv /\ UnauthorizedInv
  BY DEF Inv, CallsInv
<1>1. \A i \in DOMAIN pipe'.s2c : Derived(pipe'.s2c[i])
  BY FlightItself
<1>2. \A f \in Flight' : ReplySound(f) /\ (NoController' => ~Grants(f))
  <2> TAKE f \in Flight'
  <2>1. Derived(f)
    BY <1>1, FlightDerived
  <2>2. ReplySound(f) /\ ((\A g \in Flight : ~Grants(g)) => ~Grants(f))
    BY <1>0, <2>1, DerivedSound
  <2> QED BY <1>0, <2>2 DEF UnauthorizedInv
<1>3. /\ Within(pipe'.c2s, pipe.c2s) /\ Ordered(pipe'.c2s) /\ lastRequestID' < Top
      /\ \A i \in DOMAIN pipe'.c2s : pipe'.c2s[i].type # "garbage" => lastRequestID' < pipe'.c2s[i].id
  BY RequestsStay
<1> QED BY <1>2, <1>3, ServerStepKeeps

\* Steps that only move the listener on.
LEMMA ListenerMoves ==
    ASSUME Inv, UNCHANGED clientVars,
           \/ SrvRejectsPeer \/ SrvListenEnds \/ SrvBeginClosed \/ SrvWritten \/ SrvReadEnds \/ SrvIdle
           \/ SrvCreateFails \/ SrvRevokes
    PROVE  Inv'
<1>0. /\ ChannelTypes /\ ListenerTypes /\ WriterTypes /\ SrvInv /\ WriterInv /\ DelivererInv
      /\ pipe \in PipeSet
  BY DEF Inv, ChannelTypes
<1>1. UNCHANGED <<srvStop, serveErr, deliveries, writes, queue, writer, inHand, wClosed, wCancelled, pipe>>
  BY DEF SrvRejectsPeer, SrvListenEnds, SrvBeginClosed, SrvWritten, SrvReadEnds, SrvIdle, SrvCreateFails,
         SrvRevokes, writerVars, channelVars
<1>2. faults' \in 0..MaxFaults
  BY <1>0, FaultTypes DEF SrvRejectsPeer, SrvListenEnds, SrvBeginClosed, SrvWritten, SrvReadEnds, SrvIdle,
                          SrvCreateFails, SrvRevokes, channelVars
<1>3. \/ /\ UNCHANGED <<session, controller, lastRequestID>>
         /\ \/ srv = "listen" /\ srv' = "finished"
            \/ srv = "accepted" /\ srvStop = "close" /\ srv' = "finished"
            \/ srv \in {"hello", "respond", "lastWord"} /\ writes["serve"].at = "idle" /\ srv' \in {"read", "closing"}
            \/ srv = "read" /\ srv' = "closing"
            \/ srv = "create" /\ srv' = "down"
      \/ /\ srv = "joining" /\ writer = "done" /\ srv' = "finished"
         /\ controller' = FALSE /\ session' = 0 /\ lastRequestID' = 0
  <2>1. CASE SrvRejectsPeer \/ SrvListenEnds \/ SrvBeginClosed
    BY <2>1 DEF SrvRejectsPeer, SrvListenEnds, SrvBeginClosed
  <2>2. CASE SrvWritten
    BY <2>2 DEF SrvWritten
  <2>3. CASE SrvReadEnds \/ SrvIdle
    BY <2>3 DEF SrvReadEnds, SrvIdle
  <2>4. CASE SrvCreateFails
    BY <2>4 DEF SrvCreateFails
  <2>5. CASE SrvRevokes
    BY <2>5 DEF SrvRevokes, Revoked
  <2> QED BY <2>1, <2>2, <2>3, <2>4, <2>5
<1>4. ListenerTypes' /\ WriterTypes'
  <2>1. srv' \in {"finished", "read", "closing", "down"}
    BY <1>3
  <2>2. session' \in {session, 0} /\ lastRequestID' \in {lastRequestID, 0} /\ controller' \in {controller, FALSE}
    BY <1>3
  <2>3. session' \in Nat /\ lastRequestID' \in Nat
    BY <1>0, <2>2 DEF ListenerTypes
  <2>4. controller' \in BOOLEAN
    <3>1. controller \in BOOLEAN
      BY <1>0 DEF ListenerTypes
    <3> QED BY <2>2, <3>1, Zenon
  <2>5. ListenerTypes'
    BY <1>0, <1>1, <2>1, <2>3, <2>4 DEF ListenerTypes
  <2> QED BY <1>0, <1>1, <2>5 DEF WriterTypes
<1>5. SrvInv'
  BY <1>0, <1>1, <1>3 DEF SrvInv
<1>6. WriterInv' /\ DelivererInv'
  <2>1. srv' \in {"listen", "create"} => srv \in {"listen", "create"}
    BY <1>3
  <2>2. srv' = "finished" => writer \in {"none", "done"} \/ srvStop = "close"
    BY <1>0, <1>3 DEF WriterInv
  <2> QED BY <1>0, <1>1, <2>1, <2>2 DEF WriterInv, DelivererInv, Grants
<1>7. NoController' => NoController
  BY <1>0, <1>1, <1>3 DEF NoController, SrvInv
<1>8. lastRequestID' \in {lastRequestID, 0}
  BY <1>3
<1>9. ServerSide'
  BY <1>4, <1>5, <1>6 DEF ServerSide
<1> QED BY <1>0, <1>1, <1>2, <1>7, <1>8, <1>9, ListenerStepKeeps, FlightItself

\* Steps that open or close the server's end of the pipe.
LEMMA ListenerPipes ==
    ASSUME Inv, UNCHANGED clientVars, SrvFinishes \/ SrvCreates \/ ServerClose
    PROVE  Inv'
<1>0. /\ ChannelTypes /\ ListenerTypes /\ WriterTypes /\ SrvInv /\ WriterInv /\ DelivererInv
      /\ pipe \in PipeSet
  BY DEF Inv, ChannelTypes
<1>1. /\ UNCHANGED <<session, controller, lastRequestID, serveErr, deliveries, writes, queue, writer, inHand,
                     wClosed, wCancelled>>
  BY DEF SrvFinishes, SrvCreates, ServerClose, writerVars
<1>2. faults' \in 0..MaxFaults
  BY <1>0, FaultTypes DEF SrvFinishes, SrvCreates, ServerClose
<1>3. [pipe EXCEPT !.server = "listening"] \in PipeSet
        /\ [pipe EXCEPT !.server = "listening"].n = pipe.n
        /\ [pipe EXCEPT !.server = "listening"].server = "listening"
        /\ [pipe EXCEPT !.server = "listening"].c2s = pipe.c2s
        /\ [pipe EXCEPT !.server = "listening"].s2c = pipe.s2c
  <2>1. PICK listening \in ServerEnds : listening = "listening"
    BY DEF ServerEnds
  <2>2. PICK p : p = [pipe EXCEPT !.server = listening]
    OBVIOUS
  <2>3. p \in PipeSet /\ p.n = pipe.n /\ p.server = listening /\ p.c2s = pipe.c2s /\ p.s2c = pipe.s2c
    BY <1>0, <2>2 DEF PipeSet
  <2> QED BY <2>1, <2>2, <2>3
<1>4. /\ pipe' \in PipeSet /\ pipe'.n = pipe.n
      /\ pipe'.c2s \in {pipe.c2s, <<>>} /\ pipe'.s2c \in {pipe.s2c, <<>>}
      /\ \/ /\ srv = "finished" /\ pipe'.server = "none" /\ srvStop' = srvStop
            /\ srv' = IF srvStop = "no" THEN "create" ELSE "down"
         \/ /\ srv = "create" /\ srvStop = "close" /\ srvStop' = srvStop /\ srv' = "down"
            /\ pipe'.server = pipe.server
         \/ /\ srv = "create" /\ srvStop # "close" /\ srvStop' = srvStop /\ srv' = "listen"
            /\ pipe'.server = "listening"
         \/ /\ srv' = srv /\ srvStop = "no" /\ srvStop' = "close" /\ pipe'.server = "none"
  <2>1. CASE SrvFinishes
    BY <1>0, <2>1, EndsClosed DEF SrvFinishes
  <2>2. CASE SrvCreates
    BY <1>0, <1>3, <2>2 DEF SrvCreates
  <2>3. CASE ServerClose
    BY <1>0, <2>3, EndsClosed DEF ServerClose
  <2> QED BY <2>1, <2>2, <2>3
<1>5. ListenerTypes' /\ WriterTypes'
  BY <1>0, <1>1, <1>4 DEF ListenerTypes, WriterTypes
<1>6. SrvInv'
  BY <1>0, <1>1, <1>4 DEF SrvInv
<1>7. WriterInv' /\ DelivererInv'
  <2>1. srv' \in {"listen", "create"} => writer \in {"none", "done"}
    BY <1>0, <1>4 DEF WriterInv
  <2>2. srv' = "finished" => writer \in {"none", "done"} \/ srvStop' = "close"
    BY <1>0, <1>4 DEF WriterInv
  <2> QED BY <1>0, <1>1, <2>1, <2>2 DEF WriterInv, DelivererInv, Grants
<1>8. ~NoController' \/ (UNCHANGED <<srv, controller>> /\ pipe'.server = pipe.server)
  BY <1>0, <1>4 DEF NoController, SrvInv
<1>9. NoController' => NoController
  BY <1>8 DEF NoController
<1>10. ServerSide'
  BY <1>5, <1>6, <1>7 DEF ServerSide
<1> QED BY <1>0, <1>1, <1>2, <1>4, <1>9, <1>10, ListenerStepKeeps, FlightItself

\* Steps that begin or cancel the writer of a connection.
LEMMA ListenerWriters ==
    ASSUME Inv, UNCHANGED clientVars, SrvAccept \/ SrvCloses \/ ServerContextEnds
    PROVE  Inv'
<1>0. /\ ChannelTypes /\ ListenerTypes /\ WriterTypes /\ SrvInv /\ WriterInv /\ DelivererInv
      /\ pipe \in PipeSet /\ writes \in WritesSet
  BY WritesType DEF Inv, ChannelTypes
<1>1. /\ UNCHANGED <<session, controller, lastRequestID, serveErr, deliveries, pipe>>
      /\ wClosed' \in BOOLEAN /\ wCancelled' \in BOOLEAN
  BY <1>0 DEF SrvAccept, SrvCloses, ServerContextEnds, channelVars, WriterTypes, Cancels
<1>2. faults' \in 0..MaxFaults
  BY <1>0, FaultTypes DEF SrvAccept, SrvCloses, ServerContextEnds, channelVars
<1>3. Moves(writes, writes')
  BY <1>0, BroadcastMoves, MovesAlone DEF SrvAccept, SrvCloses, ServerContextEnds
<1>4. writes' \in [Writers -> WriteSet] /\ \A t \in Writers :
         /\ writes'[t].frame = writes[t].frame \/ writes'[t].frame = Garbage
         /\ writes[t].at = "idle" => writes'[t].at = "idle"
         /\ writes'[t].at = "idle" => writes'[t].frame = Garbage
  BY <1>3 DEF Moves, WritesSet
<1>5. \/ /\ srv = "listen" /\ pipe.server = "connected" /\ srv' = "accepted" /\ srvStop' = srvStop
         /\ writer' = "select" /\ queue' = <<>> /\ inHand' = NoRequest
      \/ /\ UNCHANGED <<queue, writer, inHand>> /\ \A t \in Writers : writes'[t].at # "asleep"
         /\ \/ srv = "closing" /\ srv' = "joining" /\ srvStop' = srvStop /\ wClosed'
            \/ srv' = srv /\ srvStop = "no" /\ srvStop' = "context" /\ wClosed' = wClosed
  <2>1. CASE SrvAccept
    BY <2>1 DEF SrvAccept
  <2>2. CASE SrvCloses
    BY <1>0, <2>2, BroadcastMoves DEF SrvCloses
  <2>3. CASE ServerContextEnds
    BY <1>0, <2>3, BroadcastMoves DEF ServerContextEnds
  <2> QED BY <2>1, <2>2, <2>3
<1>6. /\ queue' \in Seq(RequestSet) /\ Len(queue') <= QueueSize /\ inHand' \in RequestSet
      /\ Derived(inHand'.frame) /\ \A i \in DOMAIN queue' : Derived(queue'[i].frame)
  <2>1. CASE queue' = <<>> /\ inHand' = NoRequest
    <3>1. <<>> \in Seq(RequestSet) /\ Len(<<>>) = 0
      BY EmptySeq
    <3> QED BY <2>1, <3>1, NoRequestType, FlightItself, ServerAssumption
  <2>2. CASE UNCHANGED <<queue, inHand>>
    BY <1>0, <2>2, WritesType, FlightItself
  <2> QED BY <1>5, <2>1, <2>2
<1>7. ListenerTypes' /\ WriterTypes'
  BY <1>0, <1>1, <1>4, <1>5, <1>6 DEF ListenerTypes, WriterTypes
<1>8. SrvInv'
  <2>1. "serve" \in Writers
    BY DEF Writers
  <2> QED BY <1>0, <1>1, <1>4, <1>5, <2>1 DEF SrvInv
<1>9. WriterInv'
  <2>1. CASE srv' = "accepted" /\ writer' = "select" /\ queue' = <<>> /\ inHand' = NoRequest
    BY <1>4, <2>1, NoRequestType DEF WriterInv
  <2>2. CASE UNCHANGED <<queue, writer, inHand>> /\ \A t \in Writers : writes'[t].at # "asleep"
    BY <1>0, <1>4, <1>5, <2>2 DEF WriterInv
  <2> QED BY <1>5, <2>1, <2>2
<1>10. DelivererInv'
  BY <1>0, <1>4, GarbageIsFrame DEF DelivererInv, Grants, Writers
<1>11. NoController' => NoController
  BY <1>1, <1>5 DEF NoController
<1>12. \A t \in Writers : Derived(writes'[t].frame)
  BY <1>4, FlightItself
<1>13. ServerSide'
  BY <1>7, <1>8, <1>9, <1>10 DEF ServerSide
<1> QED BY <1>0, <1>1, <1>2, <1>6, <1>11, <1>12, <1>13, ListenerStepKeeps

\* A call to WriteFrame begins while a connection is served.
LEMMA WriteStarts ==
    ASSUME WriterTypes, WriterInv, NEW t \in Writers, NEW n \in Nat, NEW f \in FrameSet,
           writes' = StartWrite(writes, t, n, f),
           UNCHANGED <<queue, writer, inHand, wClosed, wCancelled, srvStop>>,
           srv' \notin {"listen", "create", "finished"}
    PROVE  /\ WriterTypes' /\ WriterInv'
           /\ writes'[t].at = "enqueue" /\ writes'[t].frame = f
           /\ \A x \in Writers \ {t} : writes'[x] = writes[x]
<1>1. writes \in [Writers -> WriteSet]
  BY DEF WriterTypes
<1>2. PICK r : r = [at |-> "enqueue", to |-> n, frame |-> f, result |-> "none"]
  OBVIOUS
<1>3. r \in WriteSet /\ r.at = "enqueue" /\ r.frame = f
  BY <1>2 DEF WriteSet
<1>4. writes' = [writes EXCEPT ![t] = r]
  BY <1>2 DEF StartWrite
<1>5. /\ writes' \in [Writers -> WriteSet] /\ writes'[t] = r
      /\ \A x \in Writers \ {t} : writes'[x] = writes[x]
  BY <1>1, <1>3, <1>4
<1>6. WriterTypes'
  BY <1>5 DEF WriterTypes
<1>7. WriterInv'
  BY <1>3, <1>5 DEF WriterInv
<1> QED BY <1>3, <1>5, <1>6, <1>7

\* serveNamedPipeController starts its writer and says hello.
LEMMA SrvBeginStep ==
    ASSUME Inv, UNCHANGED clientVars, SrvBegin
    PROVE  Inv'
<1>0. /\ ChannelTypes /\ ListenerTypes /\ WriterTypes /\ SrvInv /\ WriterInv /\ DelivererInv
      /\ pipe \in PipeSet /\ pipe.n \in Nat
  BY PipeUpdates, ClientAssumption DEF Inv, ChannelTypes
<1>1. PICK f : f = Frame("hello", 0, "none", TRUE)
  OBVIOUS
<1>2. f \in FrameSet /\ f.id = 0 /\ f.type = "hello"
  BY <1>1 DEF Frame, FrameSet, FrameTypes, Ops
<1>3. /\ srv = "accepted" /\ srv' = "hello" /\ session' = pipe.n
      /\ writes' = StartWrite(writes, "serve", pipe.n, f)
      /\ UNCHANGED <<srvStop, controller, lastRequestID, serveErr, deliveries, queue, writer, inHand,
                     wClosed, wCancelled, pipe, faults>>
  BY <1>1 DEF SrvBegin, channelVars
<1>4. "serve" \in Writers /\ \A t \in Deliverers : t \in Writers \ {"serve"}
  BY ServerAssumption DEF Writers
<1>5. /\ WriterTypes' /\ WriterInv' /\ writes'["serve"].frame = f
      /\ \A x \in Writers \ {"serve"} : writes'[x] = writes[x]
  BY <1>0, <1>2, <1>3, <1>4, WriteStarts
<1>6. ListenerTypes'
  BY <1>0, <1>3 DEF ListenerTypes
<1>7. SrvInv'
  BY <1>0, <1>3 DEF SrvInv
<1>8. DelivererInv'
  BY <1>0, <1>4, <1>5 DEF DelivererInv, Grants
<1>9. \A t \in Writers : Derived(writes'[t].frame)
  <2>1. Derived(f)
    BY <1>2 DEF Derived, Calm
  <2> QED BY <1>5, <2>1, FlightItself
<1>10. NoController' => NoController
  BY <1>3 DEF NoController
<1>11. ServerSide' /\ faults' \in 0..MaxFaults
  BY <1>0, <1>3, <1>5, <1>6, <1>7, <1>8 DEF ServerSide, ChannelTypes
<1> QED BY <1>0, <1>3, <1>9, <1>10, <1>11, ListenerStepKeeps, FlightItself

\* DeliverReply writes a delivery, which answers no request.
LEMMA DeliverReplyStep ==
    ASSUME Inv, UNCHANGED clientVars, NEW d \in Deliverers, DeliverReply(d)
    PROVE  Inv'
<1>0. /\ ChannelTypes /\ ListenerTypes /\ WriterTypes /\ SrvInv /\ WriterInv /\ DelivererInv
      /\ pipe \in PipeSet
  BY DEF Inv, ChannelTypes
<1>1. PICK f : f = Frame("delivery", 0, "none", TRUE)
  OBVIOUS
<1>2. f \in FrameSet /\ f.id = 0 /\ f.type = "delivery"
  BY <1>1 DEF Frame, FrameSet, FrameTypes, Ops
<1>3. /\ controller /\ deliveries < MaxDeliveries /\ deliveries' = deliveries + 1
      /\ writes' = StartWrite(writes, d, session, f)
      /\ UNCHANGED <<srv, srvStop, session, controller, lastRequestID, serveErr, queue, writer, inHand,
                     wClosed, wCancelled, pipe, faults>>
  BY <1>1 DEF DeliverReply, channelVars
<1>4. d \in Writers /\ d # "serve" /\ "serve" \in Writers /\ Deliverers \subseteq Writers
  BY ServerAssumption DEF Writers
<1>5. srv \notin {"listen", "create", "finished"} /\ session \in Nat
  BY <1>0, <1>3 DEF SrvInv, ListenerTypes
<1>6. /\ WriterTypes' /\ WriterInv' /\ writes'[d].frame = f
      /\ \A x \in Writers \ {d} : writes'[x] = writes[x]
  BY <1>0, <1>2, <1>3, <1>4, <1>5, WriteStarts
<1>7. ListenerTypes'
  <2>1. deliveries' \in 0..MaxDeliveries
    BY <1>0, <1>3, ServerAssumption DEF ListenerTypes
  <2> QED BY <1>0, <1>3, <2>1 DEF ListenerTypes
<1>8. SrvInv'
  <2>1. writes'["serve"] = writes["serve"]
    BY <1>4, <1>6
  <2> QED BY <1>0, <1>3, <2>1 DEF SrvInv
<1>9. DelivererInv'
  BY <1>0, <1>2, <1>4, <1>6 DEF DelivererInv, Grants
<1>10. \A t \in Writers : Derived(writes'[t].frame)
  <2>1. Derived(f)
    BY <1>2 DEF Derived, Calm
  <2> QED BY <1>6, <2>1, FlightItself
<1>11. NoController' => NoController
  BY <1>3 DEF NoController
<1>12. ServerSide' /\ faults' \in 0..MaxFaults
  BY <1>0, <1>3, <1>6, <1>7, <1>8, <1>9 DEF ServerSide, ChannelTypes
<1> QED BY <1>0, <1>3, <1>10, <1>11, <1>12, ListenerStepKeeps, FlightItself

\* A frame the server reads is rubbish, or a request whose identifier is new
\* and whose caller, if it still waits, asked just that.
LEMMA RequestRead ==
    ASSUME Inv, NEW r \in readNamedPipeFrame(pipe.c2s), pipe' = [pipe EXCEPT !.c2s = r.rest]
    PROVE  /\ r.frame \in FrameSet /\ RequestSound(r.frame)
           /\ NoController => r.frame.type \in {"authenticate", "garbage"}
           /\ pipe' \in PipeSet /\ pipe'.n = pipe.n /\ pipe'.server = pipe.server /\ pipe'.s2c = pipe.s2c
           /\ pipe'.c2s = r.rest /\ Within(pipe'.c2s, pipe.c2s) /\ Ordered(pipe'.c2s)
           /\ \A i \in DOMAIN pipe'.c2s : pipe'.c2s[i].type # "garbage" =>
                 /\ lastRequestID < pipe'.c2s[i].id
                 /\ r.frame.type # "garbage" => r.frame.id < pipe'.c2s[i].id
<1>0. pipe \in PipeSet /\ pipe.c2s \in Seq(FrameSet) /\ RequestsInv /\ UnauthorizedInv
  BY PipeUpdates DEF Inv, ChannelTypes
<1>1. /\ r.frame \in FrameSet /\ r.rest \in Seq(FrameSet) /\ Within(r.rest, pipe.c2s)
      /\ r.frame = Garbage \/ \E j \in DOMAIN pipe.c2s : Alike(r.frame, pipe.c2s[j])
  BY <1>0, ReadWithin
<1>2. /\ Ordered(r.rest)
      /\ r.frame.type # "garbage" =>
            \A i \in DOMAIN r.rest : r.rest[i].type # "garbage" => r.frame.id < r.rest[i].id
  BY <1>0, ReadOrdered DEF RequestsInv
<1>3. PICK q \in Seq(FrameSet) : q = r.rest
  BY <1>1
<1>4. /\ pipe' \in PipeSet /\ pipe'.n = pipe.n /\ pipe'.server = pipe.server /\ pipe'.s2c = pipe.s2c
      /\ pipe'.c2s = q
  BY <1>0, <1>3, PipeUpdates
<1>5. RequestSound(r.frame) /\ (NoController => r.frame.type \in {"authenticate", "garbage"})
  <2>1. CASE r.frame = Garbage
    BY <2>1, GarbageIsFrame DEF RequestSound
  <2>2. ASSUME NEW j \in DOMAIN pipe.c2s, Alike(r.frame, pipe.c2s[j])
        PROVE  RequestSound(r.frame) /\ (NoController => r.frame.type \in {"authenticate", "garbage"})
    <3>1. RequestSound(pipe.c2s[j])
      BY <1>0 DEF RequestsInv
    <3>2. NoController => pipe.c2s[j].type \in {"authenticate", "garbage"}
      BY <1>0 DEF UnauthorizedInv
    <3> QED BY <2>2, <3>1, <3>2 DEF RequestSound, Alike
  <2> QED BY <1>1, <2>1, <2>2
<1>6. ASSUME NEW i \in DOMAIN q, q[i].type # "garbage" PROVE lastRequestID < q[i].id
  <2>1. PICK j \in DOMAIN pipe.c2s : q[i] = pipe.c2s[j]
    BY <1>1, <1>3, <1>6, GarbageIsFrame DEF Within
  <2>2. RequestSound(pipe.c2s[j])
    BY <1>0 DEF RequestsInv
  <2> QED BY <1>6, <2>1, <2>2 DEF RequestSound
<1> QED BY <1>1, <1>2, <1>3, <1>4, <1>5, <1>6

\* The reply to a sound request is sound.
LEMMA ReplyToRequest ==
    ASSUME ClientTypes, NEW f \in FrameSet, RequestSound(f), f.type # "garbage", NEW ok \in BOOLEAN
    PROVE  /\ Reply(f, ok) \in FrameSet /\ ReplySound(Reply(f, ok))
           /\ Grants(Reply(f, ok)) => f.type = "authenticate" /\ ok
<1>1. f.type \in FrameTypes /\ f.id \in Nat
  BY DEF FrameSet
<1>2. f.id < nextID
  BY <1>1, TopBounds DEF RequestSound
<1>3. /\ Reply(f, ok) \in FrameSet /\ Reply(f, ok).id = f.id /\ Reply(f, ok).op = f.type
      /\ Reply(f, ok).ok = ok
  <2>1. CASE f.type = "ping" /\ ok
    BY <1>1, <2>1 DEF Reply, Frame, FrameSet, FrameTypes, Ops
  <2>2. CASE ~(f.type = "ping" /\ ok)
    BY <1>1, <2>2 DEF Reply, Frame, FrameSet, FrameTypes, Ops
  <2> QED BY <2>1, <2>2
<1>4. ReplySound(Reply(f, ok))
  BY <1>2, <1>3 DEF ReplySound, RequestSound
<1> QED BY <1>3, <1>4 DEF Grants

\* The serve loop takes a request and begins to write its reply.
LEMMA SrvReadStep ==
    ASSUME Inv, UNCHANGED clientVars, SrvRead
    PROVE  Inv'
<1>0. /\ ChannelTypes /\ ListenerTypes /\ WriterTypes /\ SrvInv /\ WriterInv /\ DelivererInv
      /\ ClientTypes /\ CallsInv /\ RepliesInv /\ UnauthorizedInv /\ pipe \in PipeSet /\ pipe.n \in Nat
  BY PipeUpdates, ClientAssumption DEF Inv, ChannelTypes, CallsInv
<1>1. PICK r \in readNamedPipeFrame(pipe.c2s) :
         /\ pipe' = [pipe EXCEPT !.c2s = r.rest]
         /\ r.frame.type # "garbage" /\ r.frame.id > lastRequestID
         /\ lastRequestID' = r.frame.id
         /\ IF controller THEN Operation(r.frame) /\ UNCHANGED <<controller, serveErr>>
            ELSE Unauthenticated(r.frame)
  BY DEF SrvRead
<1>2. /\ srv = "read" /\ pipe.server = "connected"
      /\ UNCHANGED <<srvStop, session, deliveries, queue, writer, inHand, wClosed, wCancelled>>
  BY DEF SrvRead
<1>3. /\ r.frame \in FrameSet /\ RequestSound(r.frame)
      /\ NoController => r.frame.type \in {"authenticate", "garbage"}
      /\ pipe' \in PipeSet /\ pipe'.n = pipe.n /\ pipe'.server = pipe.server /\ pipe'.s2c = pipe.s2c
      /\ Within(pipe'.c2s, pipe.c2s) /\ Ordered(pipe'.c2s)
      /\ \A i \in DOMAIN pipe'.c2s : pipe'.c2s[i].type # "garbage" => r.frame.id < pipe'.c2s[i].id
  BY <1>1, RequestRead
<1>4. PICK f \in FrameSet : f = r.frame /\ f.id \in Nat
  BY <1>3 DEF FrameSet
<1>5. PICK ok \in BOOLEAN, last \in BOOLEAN :
         /\ Replies(f, ok, last) /\ (Fault \/ UNCHANGED faults) /\ UNCHANGED serveErr
         /\ \/ controller /\ controller' = controller
            \/ ~controller /\ controller' = TRUE
            \/ ~controller /\ controller' = controller /\ ~ok
  <2>1. CASE controller
    BY <1>1, <1>4, <2>1 DEF Operation
  <2>2. CASE ~controller
    <3>1. f.type = "authenticate"
      BY <1>1, <1>2, <1>3, <1>4, <2>2 DEF NoController
    <3>2. Unauthenticated(f)
      BY <1>1, <1>4, <2>2
    <3> QED BY <2>2, <3>1, <3>2 DEF Unauthenticated
  <2> QED BY <2>1, <2>2
<1>6. PICK g \in FrameSet : g = Reply(f, ok) /\ ReplySound(g) /\ (Grants(g) => ok)
  BY <1>0, <1>1, <1>3, <1>4, ReplyToRequest
<1>7. writes' = StartWrite(writes, "serve", pipe.n, g) /\ srv' \in {"lastWord", "respond"}
  BY <1>5, <1>6 DEF Replies
<1>8. "serve" \in Writers /\ \A t \in Deliverers : t \in Writers \ {"serve"}
  BY ServerAssumption DEF Writers
<1>9. /\ WriterTypes' /\ WriterInv' /\ writes'["serve"].frame = g
      /\ \A x \in Writers \ {"serve"} : writes'[x] = writes[x]
  BY <1>0, <1>2, <1>7, <1>8, WriteStarts
<1>10. faults' \in 0..MaxFaults
  BY <1>0, <1>5, FaultTypes
<1>11. ListenerTypes'
  <2>1. controller' \in BOOLEAN
    BY <1>0, <1>5 DEF ListenerTypes
  <2>2. lastRequestID' \in Nat
    BY <1>1, <1>4
  <2>3. serveErr' = "none"
    BY <1>0, <1>5 DEF ListenerTypes
  <2> QED BY <1>0, <1>2, <1>7, <2>1, <2>2, <2>3 DEF ListenerTypes
<1>12. SrvInv'
  BY <1>0, <1>2, <1>3, <1>7 DEF SrvInv
<1>13. DelivererInv'
  BY <1>0, <1>8, <1>9 DEF DelivererInv, Grants
<1>14. NoController' => NoController /\ ~ok
  BY <1>2, <1>5 DEF NoController
<1>15. lastRequestID' < Top
  BY <1>1, <1>3 DEF RequestSound
<1>16. \A h \in Flight' : ReplySound(h) /\ (NoController' => ~Grants(h))
  <2> TAKE h \in Flight'
  <2>1. h \in Flight \/ h = g
    BY <1>2, <1>3, <1>9 DEF Flight
  <2>2. CASE h \in Flight
    BY <1>0, <1>14, <2>2 DEF RepliesInv, UnauthorizedInv
  <2>3. CASE h = g
    BY <1>6, <1>14, <2>3
  <2> QED BY <2>1, <2>2, <2>3
<1>17. \A i \in DOMAIN pipe'.c2s : pipe'.c2s[i].type # "garbage" => lastRequestID' < pipe'.c2s[i].id
  BY <1>1, <1>3
<1>18. ServerSide'
  BY <1>9, <1>11, <1>12, <1>13 DEF ServerSide
<1> QED BY <1>3, <1>10, <1>14, <1>15, <1>16, <1>17, <1>18, ServerStepKeeps

\* A connection that ends with a broken frame, and a reader that takes in a
\* frame as part of another.
LEMMA SrvBrokenSteps ==
    ASSUME Inv, UNCHANGED clientVars, SrvViolation \/ SrvSwallows
    PROVE  Inv'
<1>0. /\ ChannelTypes /\ ListenerTypes /\ WriterTypes /\ SrvInv /\ WriterInv /\ DelivererInv
      /\ RequestsInv /\ RepliesInv /\ UnauthorizedInv /\ pipe \in PipeSet /\ pipe.c2s \in Seq(FrameSet)
  BY PipeUpdates DEF Inv, ChannelTypes
<1>1. /\ srv = "read" /\ srv' \in {"closing", "read"}
      /\ UNCHANGED <<srvStop, session, controller, lastRequestID, deliveries, writes, queue, writer, inHand,
                     wClosed, wCancelled, faults>>
  BY DEF SrvViolation, SrvSwallows, writerVars, listenerVars
<1>2. /\ pipe' \in PipeSet /\ pipe'.n = pipe.n /\ pipe'.server = pipe.server /\ pipe'.s2c = pipe.s2c
      /\ Within(pipe'.c2s, pipe.c2s) /\ Ordered(pipe'.c2s)
      /\ \A i \in DOMAIN pipe'.c2s : pipe'.c2s[i].type # "garbage" => lastRequestID < pipe'.c2s[i].id
      /\ serveErr' = "none"
  <2>1. CASE SrvViolation
    <3>1. PICK r \in readNamedPipeFrame(pipe.c2s) :
             /\ pipe' = [pipe EXCEPT !.c2s = r.rest]
             /\ r.frame.type = "garbage" \/ r.frame.id <= lastRequestID
             /\ serveErr' = IF r.frame.type = "garbage" THEN serveErr ELSE "ids"
      BY <2>1 DEF SrvViolation
    <3>2. /\ r.frame \in FrameSet /\ RequestSound(r.frame)
          /\ pipe' \in PipeSet /\ pipe'.n = pipe.n /\ pipe'.server = pipe.server /\ pipe'.s2c = pipe.s2c
          /\ Within(pipe'.c2s, pipe.c2s) /\ Ordered(pipe'.c2s)
          /\ \A i \in DOMAIN pipe'.c2s : pipe'.c2s[i].type # "garbage" => lastRequestID < pipe'.c2s[i].id
      BY <3>1, RequestRead
    <3>3. r.frame.id \in Nat /\ lastRequestID \in Nat
      BY <1>0, <3>2 DEF FrameSet, ListenerTypes
    <3>4. r.frame.type = "garbage"
      BY <3>1, <3>2, <3>3 DEF RequestSound
    <3>5. serveErr' = "none"
      BY <1>0, <3>1, <3>4 DEF ListenerTypes
    <3> QED BY <3>2, <3>5
  <2>2. CASE SrvSwallows
    <3>1. Len(pipe.c2s) > 1 /\ pipe' = [pipe EXCEPT !.c2s = Swallowed(pipe.c2s)] /\ serveErr' = serveErr
      BY <2>2 DEF SrvSwallows, listenerVars
    <3>2. PICK q \in Seq(FrameSet) : q = Swallowed(pipe.c2s) /\ Within(q, pipe.c2s) /\ Ordered(q)
      BY <1>0, <3>1, SwallowedOrdered DEF RequestsInv
    <3>3. /\ pipe' \in PipeSet /\ pipe'.n = pipe.n /\ pipe'.server = pipe.server /\ pipe'.s2c = pipe.s2c
          /\ pipe'.c2s = q
      BY <1>0, <3>1, <3>2, PipeUpdates
    <3>4. ASSUME NEW i \in DOMAIN q, q[i].type # "garbage" PROVE lastRequestID < q[i].id
      <4>1. PICK j \in DOMAIN pipe.c2s : q[i] = pipe.c2s[j]
        BY <3>2, <3>4, GarbageIsFrame DEF Within
      <4>2. RequestSound(pipe.c2s[j])
        BY <1>0 DEF RequestsInv
      <4> QED BY <3>4, <4>1, <4>2 DEF RequestSound
    <3> QED BY <1>0, <3>1, <3>2, <3>3, <3>4 DEF ListenerTypes
  <2> QED BY <2>1, <2>2
<1>3. ListenerTypes' /\ WriterTypes'
  BY <1>0, <1>1, <1>2 DEF ListenerTypes, WriterTypes
<1>4. SrvInv' /\ WriterInv' /\ DelivererInv'
  <2>1. SrvInv'
    BY <1>0, <1>1, <1>2 DEF SrvInv
  <2>2. WriterInv'
    BY <1>0, <1>1 DEF WriterInv
  <2> QED BY <1>0, <1>1, <2>1, <2>2 DEF DelivererInv, Grants
<1>5. NoController' => NoController
  BY <1>1, <1>2 DEF NoController
<1>6. \A f \in Flight' : ReplySound(f) /\ (NoController' => ~Grants(f))
  <2>1. Flight' = Flight
    BY <1>1, <1>2 DEF Flight
  <2> QED BY <1>0, <1>5, <2>1 DEF RepliesInv, UnauthorizedInv
<1>7. lastRequestID' < Top /\ faults' \in 0..MaxFaults
  BY <1>0, <1>1 DEF RequestsInv, ChannelTypes
<1>8. ServerSide'
  BY <1>3, <1>4 DEF ServerSide
<1> QED BY <1>1, <1>2, <1>5, <1>6, <1>7, <1>8, ServerStepKeeps

\* Every step of the server preserves the invariant.
LEMMA ServerStep ==
    ASSUME Inv, ServerNext, UNCHANGED clientVars
    PROVE  Inv'
<1>1. CASE ServerSteps
  BY <1>1, ListenerMoves, ListenerPipes, ListenerWriters, SrvBeginStep, SrvReadStep, SrvBrokenSteps
     DEF ServerSteps
<1>2. CASE SrvRejectsPeer \/ SrvCreateFails \/ ServerClose \/ ServerContextEnds
  BY <1>2, ListenerMoves, ListenerPipes, ListenerWriters
<1>3. ASSUME NEW d \in Deliverers, DeliverReply(d) PROVE Inv'
  BY <1>3, DeliverReplyStep
<1> QED BY <1>1, <1>2, <1>3, WriterNextStep DEF ServerNext

-----------------------------------------------------------------------------
(* The theorems.                                                           *)

\* A step that changes nothing preserves the invariant.
LEMMA Stutter ==
    ASSUME Inv, UNCHANGED vars
    PROVE  Inv'
<1>1. UNCHANGED <<clientVars, serverVars, pipe, faults>>
  BY DEF vars, channelVars
<1>2. UNCHANGED <<stage, conn, attempt, authID, pending, nextID, closed, cancelled, backoff, requestMu, call>>
  BY <1>1 DEF clientVars
<1>3. UNCHANGED serverVars
  BY <1>1
<1>4. ChannelTypes /\ ClientTypes /\ ConnInv /\ CallsInv /\ pipe \in PipeSet
  BY DEF Inv, ChannelTypes, CallsInv
<1>5. ClientTypes' /\ ConnInv' /\ CallsInv'
  BY <1>1, <1>4, ClientUntouched
<1>6. OnlyReads
  BY <1>1, <1>4, OnlyReadsPipe
<1>7. CallsMove
  BY <1>2 DEF CallsMove, Active
<1>8. ServerSide' /\ UnderWay'
  BY <1>2, <1>3, <1>6, <1>7, FlowKept
<1>9. ChannelTypes'
  BY <1>1, <1>4 DEF ChannelTypes
<1> QED BY <1>5, <1>8, <1>9 DEF Inv, CallsInv, ServerSide, UnderWay

\* The invariant holds before the first connection.
LEMMA Initial ==
    ASSUME Init
    PROVE  Inv
<1>0. /\ stage = "idle" /\ conn = 0 /\ attempt = 0 /\ authID = 0 /\ pending = {} /\ nextID = 1
      /\ closed = FALSE /\ cancelled = FALSE /\ backoff = ReconnectMin
      /\ requestMu = "none" /\ call = [c \in Callers |-> NoCall]
      /\ srv = "listen" /\ srvStop = "no" /\ session = 0 /\ controller = FALSE
      /\ lastRequestID = 0 /\ serveErr = "none" /\ deliveries = 0
      /\ writes = [t \in Writers |-> Idle("none")]
      /\ queue = <<>> /\ writer = "none" /\ inHand = NoRequest
      /\ wClosed = FALSE /\ wCancelled = FALSE /\ pipe = NoPipe /\ faults = 0
  BY DEF Init, ClientInit, ServerInit
<1>1. PICK e \in Seq(FrameSet) : e = <<>>
  BY EmptySeq
<1>2. /\ pipe \in PipeSet /\ pipe.n = 0 /\ pipe.server = "listening" /\ pipe.c2s = <<>> /\ pipe.s2c = <<>>
  BY <1>0, <1>1, ClientAssumption DEF NoPipe, PipeSet, ServerEnds
<1>3. ChannelTypes
  BY <1>0, <1>2, ServerAssumption DEF ChannelTypes
<1>4. NoCall \in CallSet /\ NoCall.box = <<>> /\ NoCall.at = "idle"
  BY <1>1, ClientAssumption, GarbageIsFrame DEF NoCall, CallSet
<1>5. ClientTypes
  <2>1. closed \in BOOLEAN /\ cancelled \in BOOLEAN
    BY <1>0, Zenon
  <2>2. call \in [Callers -> CallSet]
    BY <1>0, <1>4
  <2>3. nextID \in 1..(MaxId + 1) /\ authID \in 0..MaxId /\ conn \in 0..MaxConns /\ attempt \in 0..MaxConns
          /\ backoff \in ReconnectMin..ReconnectMax
    BY <1>0, ClientAssumption
  <2>4. stage \in Stages /\ pending \subseteq 1..MaxId /\ requestMu \in Callers \cup {"none"}
    BY <1>0 DEF Stages
  <2> QED BY <2>1, <2>2, <2>3, <2>4 DEF ClientTypes
<1>6. \A c \in Callers : call[c].at = "idle" /\ call[c].box = <<>>
  BY <1>0, <1>4
<1>7. CallsInv
  BY <1>0, <1>6, ClientAssumption DEF CallsInv, CallInv, PendingInv, BoxInv, AnswerMatches, Active
<1>8. ConnInv
  BY <1>0, <1>2 DEF ConnInv
<1>9. \A t \in Writers : writes[t] \in WriteSet /\ writes[t].at = "idle" /\ writes[t].frame = Garbage
  <2>1. PICK w \in WriteSet : w = Idle("none") /\ w.at = "idle" /\ w.frame = Garbage
    BY IdleWrite
  <2> QED BY <1>0, <2>1
<1>10. ListenerTypes /\ WriterTypes
  <2>1. <<>> \in Seq(RequestSet) /\ Len(<<>>) = 0
    BY EmptySeq
  <2>2. writes \in [Writers -> WriteSet]
    BY <1>0, <1>9
  <2>3. controller \in BOOLEAN /\ wClosed \in BOOLEAN /\ wCancelled \in BOOLEAN
    BY <1>0, Zenon
  <2>4. session \in Nat /\ lastRequestID \in Nat /\ deliveries \in 0..MaxDeliveries
    BY <1>0, ServerAssumption
  <2>5. srv = "listen" /\ srvStop = "no" /\ serveErr = "none" /\ writer = "none" /\ queue = <<>>
          /\ inHand = NoRequest
    BY <1>0
  <2>6. ListenerTypes
    BY <2>3, <2>4, <2>5 DEF ListenerTypes
  <2>7. Len(queue) <= QueueSize /\ queue \in Seq(RequestSet) /\ inHand \in RequestSet
    BY <2>1, <2>5, NoRequestType, ServerAssumption
  <2> QED BY <2>2, <2>3, <2>5, <2>6, <2>7 DEF WriterTypes
<1>11. SrvInv
  <2>1. writes["serve"].at = "idle"
    BY <1>9 DEF Writers
  <2> QED BY <1>0, <1>2, <2>1 DEF SrvInv
<1>12. WriterInv
  BY <1>0, <1>9, NoRequestType DEF WriterInv
<1>13. DelivererInv
  BY <1>9, GarbageIsFrame DEF DelivererInv, Grants, Writers
<1>14. RequestsInv
  BY <1>0, <1>2 DEF RequestsInv, Ordered, Top
<1>15. RepliesInv
  <2>1. \A f \in Flight : f = Garbage
    BY <1>0, <1>2, <1>9, NoRequestType DEF Flight
  <2> QED BY <1>0, <2>1, GarbageIsFrame DEF RepliesInv, ReplySound
<1>16. UnauthorizedInv
  BY <1>2 DEF UnauthorizedInv, NoController
<1> QED BY <1>3, <1>5, <1>7, <1>8, <1>10, <1>11, <1>12, <1>13, <1>14, <1>15, <1>16 DEF Inv, CallsInv

\* The invariant that carries the three theorems below: identifiers, calls,
\* streams, writer and controller of the two ends agree in every state.
THEOREM PipeInvariant == Spec => []Inv
<1>1. Init => Inv
  BY Initial
<1>2. Inv /\ [Next]_vars => Inv'
  BY ClientStep, ServerStep, Stutter DEF Next
<1> QED BY <1>1, <1>2, PTL DEF Spec

\* The connection stays usable while callers race: the client keeps the
\* server's protocol, a pending entry is waited for, no response channel takes
\* two sends, and a writer that is done is drained.
THEOREM PipeIsSound == Spec => []PipeSound
<1>1. Inv => PipeSound
  <2> SUFFICES ASSUME Inv PROVE PipeSound
    OBVIOUS
  <2>0. /\ ChannelTypes /\ ClientTypes /\ ListenerTypes /\ WriterTypes /\ ConnInv /\ CallsInv /\ WriterInv
        /\ pipe \in PipeSet
    BY DEF Inv, CallsInv, ChannelTypes
  <2>1. ChannelTypeOK
    <3>1. \A q \in Seq(FrameSet) : \A i \in DOMAIN q : q[i].type \in FrameTypes
      <4> TAKE q \in Seq(FrameSet)
      <4> TAKE i \in DOMAIN q
      <4>1. q[i] \in FrameSet
        OBVIOUS
      <4> QED BY <4>1 DEF FrameSet
    <3> QED BY <2>0, <3>1, PipeUpdates, ClientAssumption DEF ChannelTypeOK, ChannelTypes
  <2>2. ClientTypeOK
    BY <2>0, CallFields DEF ClientTypeOK, ClientTypes
  <2>3. ServerTypeOK
    <3>1. \A t \in Writers : /\ writes[t].at \in {"idle", "enqueue", "asleep", "await"}
                             /\ writes[t].result \in {"none", "ok", "error"}
      BY <2>0 DEF WriterTypes, WriteSet
    <3>2. inHand.by \in Writers \cup {"none"}
      BY <2>0 DEF WriterTypes, RequestSet
    <3> QED BY <2>0, <3>1, <3>2 DEF ServerTypeOK, WriterTypes, ListenerTypes
  <2>4. ProtocolKept
    BY <2>0 DEF ProtocolKept, ListenerTypes
  <2>5. PendingIsWaitedFor
    <3>1. pending = {call[c].id : c \in {c \in Callers : /\ call[c].at \in {"writing", "waiting"}
                                                         /\ call[c].box = <<>>}}
      BY <2>0 DEF CallsInv, PendingInv, Active
    <3> QED BY <2>0, <3>1 DEF PendingIsWaitedFor, ConnInv
  <2>6. SendNeverBlocks
    BY <2>0 DEF SendNeverBlocks, CallsInv, CallInv
  <2>7. DoneIsDrained
    BY <2>0 DEF DoneIsDrained, WriterInv
  <2> QED BY <2>1, <2>2, <2>3, <2>4, <2>5, <2>6, <2>7 DEF PipeSound, TypeOK
<1> QED BY <1>1, PipeInvariant, PTL

\* A call that returns without error returns the answer to its own request,
\* however late other answers arrive and whichever connection they came from.
THEOREM AnswersMatch == Spec => []AnswerMatches
<1>1. Inv => AnswerMatches
  BY DEF Inv
<1> QED BY <1>1, PipeInvariant, PTL

\* A controller lives only inside the connection that authenticated it.
THEOREM RevokedInTime == Spec => []RevokedBeforeNext
<1>1. Inv => RevokedBeforeNext
  BY DEF Inv, SrvInv, ListenerTypes, RevokedBeforeNext
<1> QED BY <1>1, PipeInvariant, PTL
=============================================================================
