------------------------- MODULE RouteJournalProofs -------------------------
(***************************************************************************)
(* Proofs about the route transaction and its journal, for any number of   *)
(* processes, adapters and destinations and any plan.                      *)
(*                                                                         *)
(* The invariant has two halves.  Tables relates the route table to the    *)
(* journal: a route Tachyon created has a journal entry that describes it  *)
(* (Backed), a route of other software has none.  Local(p) is what process *)
(* p may rely on at its place: the lock it holds, its adapter, where its   *)
(* routes are, and what its last read under the lock told it.              *)
(*                                                                         *)
(* A step of p is shown to preserve Local(q) for every other process q     *)
(* from its Footprint only (lemma OthersKept): what p may do to the tables *)
(* while another process holds the lock.                                   *)
(***************************************************************************)
EXTENDS RouteJournal, SequenceTheorems, TLAPS

\* A route Tachyon created, by a process that is alive or dead.
Owned(k) == routes[k].by \in Procs \cup {"orphan"}
Key(e)   == <<e.luid, e.prefix>>

\* The entries S describe every route Tachyon created.
Backed(S) ==
    \A k \in Keys : Owned(k) =>
        /\ routes[k].fits
        /\ \E e \in S : Key(e) = k
        /\ \A e \in S : Key(e) = k => e.idx = routes[k].idx

\* Places of a process.
Early       == {"down", "reconcile"}
Staging     == {"recClaim", "recStage", "recDelete", "recVerify"}
Reconciling == {"recEntry"} \cup Staging
Undoing     == {"undoRead", "undoDelete", "undoVerify", "undoSave"}
Removing    == {"rbRead", "rbDelete", "rbVerify", "rbRelease"}
Claiming    == {"prepareSave", "add", "record", "releaseIntent"}
Aiming      == Claiming \cup Undoing \cup {"prepare", "readback"}
Locked      == Reconciling \cup Claiming \cup Undoing \cup Removing
Untied      == Early \cup Reconciling \cup {"install", "prepare", "prepareSave", "readback"}
Places      == Locked \cup Aiming \cup Untied \cup {"up", "rollback", "closed", "failed", "retained"}

Ops == [pc : Places, luid : LUIDs \cup {None}, idx : 0..MaxIndex, cancelled : BOOLEAN, failed : BOOLEAN,
        pos : Nat \ {0}, installed : Seq(Dests), remaining : Seq(Dests), transition : Dests \cup {None},
        addErr : BOOLEAN, todo : SUBSET Entry, kept : SUBSET Entry, cur : Entry \cup {NoEntry}]

\* The entries a reconciliation will leave in the journal if it stops here.
Working(p) == op[p].kept \cup op[p].todo

TableTypes ==
    /\ routes \in [Keys -> Route \cup {NoRoute}]
    /\ adapters \in [LUIDs -> 0..MaxIndex]
    /\ journal \subseteq Entry
    /\ lock \in Procs \cup {"free"}
    /\ op \in [Procs -> Ops]

\* The program counter against the rest of the process.
PlaceInv(p) ==
    /\ op[p].pc # "down" => op[p].luid \in LUIDs /\ op[p].idx \in 1..MaxIndex
    /\ op[p].pc \in Aiming => op[p].pos <= Len(Plan[p])
    /\ op[p].pc \in {"record"} \cup Undoing => op[p].installed # <<>> /\ Last(op[p].installed) = Target(p)
    /\ op[p].pc \in Removing => op[p].installed # <<>>
    /\ op[p].pc = "closed" => op[p].installed = <<>> /\ op[p].remaining = <<>>
    /\ op[p].pc \in Early \cup {"recEntry"} => op[p].cur = NoEntry
    /\ op[p].pc \in Staging => op[p].cur \in op[p].todo
    /\ op[p].pc \in Untied => op[p].transition = None
    /\ op[p].pc \in Reconciling => op[p].failed \/ \A e \in op[p].kept : e.luid # op[p].luid

LockInv(p) ==
    /\ op[p].pc \in Locked => lock = p
    /\ op[p].transition # None => lock = p

\* A live process has its adapter to itself.
AdapterInv(p) ==
    op[p].pc # "down" =>
       /\ adapters[op[p].luid] = op[p].idx
       /\ \A q \in Procs \ {p} : op[q].pc # "down" => op[q].luid # op[p].luid

\* The routes of a process are on its adapter and known to its transaction;
\* past its reconciliation no orphan is there.
RouteInv(p) ==
    /\ \A k \in Keys : routes[k].by = p =>
          /\ op[p].pc # "down" /\ k[1] = op[p].luid /\ routes[k].idx = op[p].idx
          /\ Contains(op[p].installed, k[2]) \/ Contains(op[p].remaining, k[2])
    /\ op[p].pc \notin Early \cup Reconciling \cup {"failed"} =>
          \A k \in Keys : k[1] = op[p].luid => routes[k].by # "orphan"

\* What was learnt under the lock and stays true while it is held.
HeldInv(p) ==
    /\ op[p].pc \in Reconciling => Backed(Working(p)) /\ \A e \in Working(p) : Claims(Key(e)) # {}
    /\ op[p].pc \in Staging => routes[Key(op[p].cur)].by \notin Procs \ {p}
    /\ op[p].pc = "prepareSave" => routes[Own(p, Target(p))].by # "foreign"
    /\ op[p].pc \in {"add", "releaseIntent", "undoSave"} => ~Owned(Own(p, Target(p)))
    /\ op[p].pc \in {"add", "record"} => Claims(Own(p, Target(p))) = {claim(p, "pending")}
    /\ op[p].pc = "rbRelease" => ~Owned(Own(p, Victim(p)))

Tables   == TableTypes /\ Backed(journal) /\ ForeignUnclaimed
Local(p) == PlaceInv(p) /\ LockInv(p) /\ AdapterInv(p) /\ RouteInv(p) /\ HeldInv(p)
Inv      == Tables /\ \A p \in Procs : Local(p)

-----------------------------------------------------------------------------
(* What a step of p does to the state that others look at.                 *)

RouteChange(p, k) ==
    \/ routes'[k] = routes[k]
    \/ routes'[k] = NoRoute
    \/ /\ p \in Procs /\ routes[k].by = p /\ routes'[k].by = "orphan"
       /\ routes'[k].idx = routes[k].idx /\ routes'[k].fits = routes[k].fits
    \/ lock = p /\ routes'[k].by = p
    \/ /\ routes'[k].by \in {"foreign", "contested"}
       /\ routes'[k].by = "foreign" => ~Contested(k)

Footprint(p) ==
    /\ \A q \in Procs \ {p} : op'[q] = op[q]
    /\ lock' # lock => lock \in {p, "free"}
    /\ journal' # journal => lock \in {p, "free"}
    /\ \A q \in Procs \ {p} : op[q].pc # "down" =>
          /\ adapters'[op[q].luid] = adapters[op[q].luid]
          /\ \A s \in Procs \ {q} : op'[s].pc # "down" => op'[s].luid # op[q].luid
    /\ \A k \in Keys : RouteChange(p, k)

\* A key is a pair.
LEMMA KeyFacts ==
    /\ \A l \in LUIDs, d \in Dests : <<l, d>> \in Keys
    /\ \A k \in Keys : k[1] \in LUIDs /\ k[2] \in Dests /\ k = <<k[1], k[2]>>
    /\ \A e \in Entry : Key(e) \in Keys /\ Key(e)[1] = e.luid /\ Key(e)[2] = e.prefix
BY DEF Keys, Entry, Key

\* The destination and the route a process works on.
LEMMA AimFacts ==
    ASSUME Inv, NEW p \in Procs
    PROVE  /\ op[p].pc \in Aiming => Target(p) \in Dests /\ Own(p, Target(p)) \in Keys
           /\ op[p].installed # <<>> => Victim(p) \in Dests
           /\ op[p].pc \in Removing => Own(p, Victim(p)) \in Keys
           /\ op[p].pc \in Staging => op[p].cur \in Entry /\ Key(op[p].cur) \in Keys
<1> USE DEF Inv, Tables, TableTypes, Local, PlaceInv
<1>1. op[p] \in Ops
  OBVIOUS
<1>2. Plan[p] \in Seq(Dests)
  BY PlanAssumption
<1>3. op[p].pos \in Nat \ {0} /\ op[p].installed \in Seq(Dests) /\ op[p].todo \subseteq Entry
  BY <1>1 DEF Ops
<1>4. op[p].pc \in Aiming => Target(p) \in Dests
  BY <1>2, <1>3 DEF Target
<1>5. op[p].installed # <<>> => Victim(p) \in Dests
  BY <1>3 DEF Victim, Last
<1>6. op[p].pc \in Aiming \cup Removing => op[p].luid \in LUIDs
  BY DEF Aiming, Claiming, Undoing, Removing
<1>7. QED
  BY <1>3, <1>4, <1>5, <1>6, KeyFacts DEF Own

\* Another process keeps everything it relies on.
LEMMA OthersKept ==
    ASSUME Inv, NEW p \in Procs \cup {"free"}, Footprint(p), TableTypes', NEW q \in Procs, q # p
    PROVE  Local(q)'
<1>1. op'[q] = op[q] /\ op[q] \in Ops
  BY DEF Inv, Tables, TableTypes, Footprint
<1>2. PlaceInv(q)'
  BY <1>1 DEF Inv, Local, PlaceInv, Target
<1>3. LockInv(q)'
  BY <1>1, NamesAssumption DEF Inv, Local, LockInv, Footprint
<1>4. AdapterInv(q)'
  BY <1>1 DEF Inv, Local, AdapterInv, Footprint
<1>5. RouteInv(q)'
  <2>1. ASSUME NEW k \in Keys, routes'[k].by = q
        PROVE  routes'[k] = routes[k]
    BY <2>1, NamesAssumption DEF Footprint, RouteChange, NoRoute
  <2>2. ASSUME NEW k \in Keys, routes'[k].by = "orphan", k[1] = op[q].luid, op[q].pc # "down"
        PROVE  routes[k].by = "orphan"
    <3>1. CASE routes[k].by = p
      <4>1. p \in Procs
        BY <3>1, NamesAssumption DEF Inv, Tables, TableTypes, Route, Creators, NoRoute
      <4>2. QED
        BY <2>2, <3>1, <4>1 DEF Inv, Local, RouteInv, AdapterInv
    <3>2. CASE routes[k].by # p
      BY <2>2, <3>2, NamesAssumption DEF Footprint, RouteChange, NoRoute
    <3>3. QED
      BY <3>1, <3>2
  <2>3. QED
    BY <1>1, <2>1, <2>2 DEF Inv, Local, RouteInv, Early
<1>6. HeldInv(q)'
  <2>1. CASE op[q].pc \notin Locked
    BY <1>1, <2>1 DEF HeldInv, Locked, Claiming, Undoing, Removing, Reconciling
  <2>2. CASE op[q].pc \in Locked
    <3>1. lock = q /\ journal' = journal
      BY <2>2, NamesAssumption DEF Inv, Local, LockInv, Footprint
    <3>2. \A k \in Keys : Owned(k)' => Owned(k) /\ routes'[k].idx = routes[k].idx /\ routes'[k].fits = routes[k].fits
      BY <3>1, NamesAssumption DEF Footprint, RouteChange, Owned, NoRoute
    <3>3. \A k \in Keys : routes'[k].by \in Procs => routes'[k] = routes[k]
      BY <3>1, NamesAssumption DEF Footprint, RouteChange, NoRoute
    <3>4. \A k \in Keys : routes'[k].by = "foreign" => routes[k].by = "foreign" \/ ~Contested(k)
      BY <3>1, NamesAssumption DEF Footprint, RouteChange, NoRoute
    <3>5. \A S : Backed(S) => Backed(S)'
      BY <3>2 DEF Backed
    <3>6. \A k : Claims(k)' = Claims(k)
      BY <3>1 DEF Claims
    <3>7. Working(q)' = Working(q) /\ Target(q)' = Target(q) /\ Victim(q)' = Victim(q) /\ claim(q, "pending")' = claim(q, "pending")
      BY <1>1 DEF Working, Target, Victim, claim
    <3>8. \A x : Own(q, x)' = Own(q, x)
      BY <1>1 DEF Own
    <3>9. op[q].pc \in Reconciling => (Backed(Working(q)) /\ \A e \in Working(q) : Claims(Key(e)) # {})'
      <4>1. SUFFICES ASSUME op[q].pc \in Reconciling
                     PROVE  (Backed(Working(q)) /\ \A e \in Working(q) : Claims(Key(e)) # {})'
        OBVIOUS
      <4>2. PICK S : S = Working(q)
        OBVIOUS
      <4>3. Backed(S) /\ \A e \in S : Claims(Key(e)) # {}
        BY <4>1, <4>2 DEF Inv, Local, HeldInv
      <4>4. Backed(S)'
        BY <4>3, <3>5
      <4>5. QED
        BY <4>2, <4>3, <4>4, <3>6, <3>7 DEF Key
    <3>10. QED
      BY <1>1, <3>2, <3>3, <3>4, <3>6, <3>7, <3>8, <3>9, AimFacts DEF Inv, Local, HeldInv, Key, Contested, Aiming, Claiming, Undoing, Removing
  <2>3. QED
    BY <2>1, <2>2
<1>7. QED
  BY <1>2, <1>3, <1>4, <1>5, <1>6 DEF Local

\* A step of a process that goes on on its adapter.
Moves(p, r) ==
    /\ r \in Ops
    /\ op' = [op EXCEPT ![p] = r]
    /\ op[p].pc # "down" /\ r.pc # "down"
    /\ r.luid = op[p].luid /\ r.idx = op[p].idx
    /\ UNCHANGED adapters
    /\ \/ lock' = lock
       \/ lock = p /\ lock' = "free"
       \/ lock = "free" /\ lock' = p

\* A move that keeps the tables sound and what its own process relies on keeps
\* the invariant: OthersKept does the rest.
LEMMA MoveKeeps ==
    ASSUME Inv, NEW p \in Procs, NEW r, Moves(p, r),
           routes' \in [Keys -> Route \cup {NoRoute}], journal' \subseteq Entry,
           journal' = journal \/ lock \in {p, "free"},
           \A k \in Keys : RouteChange(p, k),
           Backed(journal)', ForeignUnclaimed',
           PlaceInv(p)', LockInv(p)', RouteInv(p)', HeldInv(p)'
    PROVE  Inv'
<1>1. TableTypes'
  BY DEF Inv, Tables, TableTypes, Moves
<1>2. op'[p] = r /\ \A q \in Procs \ {p} : op'[q] = op[q]
  BY DEF Inv, Tables, TableTypes, Moves
<1>3. Footprint(p)
  BY <1>2 DEF Inv, Local, AdapterInv, Footprint, Moves
<1>4. AdapterInv(p)'
  BY <1>2 DEF Inv, Local, AdapterInv, Moves
<1>5. \A q \in Procs \ {p} : Local(q)'
  BY <1>1, <1>3, OthersKept
<1>6. QED
  BY <1>1, <1>4, <1>5 DEF Inv, Tables, Local

\* The tables are left alone.
LEMMA QuietKeeps ==
    ASSUME Inv, NEW p \in Procs, NEW r, Moves(p, r), UNCHANGED <<routes, journal>>,
           PlaceInv(p)', LockInv(p)', RouteInv(p)', HeldInv(p)'
    PROVE  Inv'
<1>1. Backed(journal)'
  BY DEF Inv, Tables, Backed, Owned
<1>2. ForeignUnclaimed'
  BY DEF Inv, Tables, ForeignUnclaimed, Claims
<1>3. \A k \in Keys : RouteChange(p, k)
  BY DEF RouteChange
<1>4. QED
  BY <1>1, <1>2, <1>3, MoveKeeps DEF Inv, Tables, TableTypes


-----------------------------------------------------------------------------
(* The fields of a process under the updates the code makes.               *)

\* The transaction stays as it is but for its place.
SameTx(r, o) ==
    /\ r.luid = o.luid /\ r.idx = o.idx /\ r.pos = o.pos
    /\ r.installed = o.installed /\ r.remaining = o.remaining

\* Types of the fields of a process.
LEMMA FieldTypes ==
    ASSUME NEW o \in Ops
    PROVE  /\ o.pc \in Places /\ o.luid \in LUIDs \cup {None} /\ o.idx \in 0..MaxIndex
           /\ o.cancelled \in BOOLEAN /\ o.failed \in BOOLEAN /\ o.pos \in Nat \ {0}
           /\ o.installed \in Seq(Dests) /\ o.remaining \in Seq(Dests) /\ o.transition \in Dests \cup {None}
           /\ o.todo \subseteq Entry /\ o.kept \subseteq Entry /\ o.cur \in Entry \cup {NoEntry}
BY DEF Ops

\* The places the code jumps to.
LEMMA PlaceFacts ==
    /\ {"up", "rollback", "closed", "failed", "retained", "install", "prepare", "readback"} \subseteq Places
    /\ Early \subseteq Places /\ Reconciling \subseteq Places /\ Staging \subseteq Reconciling
    /\ Claiming \subseteq Places /\ Undoing \subseteq Places /\ Removing \subseteq Places
BY DEF Places, Aiming, Untied, Locked, Reconciling

\* To another place.
LEMMA Jumps ==
    ASSUME NEW o \in Ops, NEW c \in Places, NEW r, r = [o EXCEPT !.pc = c]
    PROVE  r \in Ops /\ SameTx(r, o) /\ r.pc = c /\ r.transition = o.transition
BY DEF Ops, SameTx

\* To the rollback, with an error.
LEMMA Unwinds ==
    ASSUME NEW o \in Ops, NEW r, r = [o EXCEPT !.pc = "rollback", !.failed = TRUE]
    PROVE  r \in Ops /\ SameTx(r, o) /\ r.pc = "rollback" /\ r.transition = o.transition
BY PlaceFacts DEF Ops, SameTx

\* The end of a transition.
LEMMA Unties ==
    ASSUME NEW o \in Ops, NEW r, r = [o EXCEPT !.transition = None]
    PROVE  r \in Ops /\ SameTx(r, o) /\ r.pc = o.pc /\ r.transition = None
BY DEF Ops, SameTx

\* The n-th destination.
LEMMA Advances ==
    ASSUME NEW o \in Ops, NEW n \in Nat \ {0}, NEW r, r = [o EXCEPT !.pos = n]
    PROVE  /\ r \in Ops /\ r.pc = o.pc /\ r.luid = o.luid /\ r.idx = o.idx
           /\ r.installed = o.installed /\ r.remaining = o.remaining /\ r.transition = o.transition
BY DEF Ops

\* A destination at the end of a sequence.
LEMMA AppendFacts ==
    ASSUME NEW s \in Seq(Dests), NEW d \in Dests
    PROVE  /\ Append(s, d) \in Seq(Dests) /\ Append(s, d) # <<>> /\ Last(Append(s, d)) = d
           /\ \A x : Contains(s, x) \/ x = d => Contains(Append(s, d), x)
<1>1. Len(Append(s, d)) = Len(s) + 1 /\ Append(s, d)[Len(s) + 1] = d /\ \A i \in 1..Len(s) : Append(s, d)[i] = s[i]
  OBVIOUS
<1>2. QED
  BY <1>1 DEF Last, Contains

\* A sequence without its last destination, and that one before another sequence.
LEMMA FrontFacts ==
    ASSUME NEW s \in Seq(Dests), NEW t \in Seq(Dests), s # <<>>
    PROVE  /\ Front(s) \in Seq(Dests) /\ Last(s) \in Dests /\ <<Last(s)>> \o t \in Seq(Dests)
           /\ \A x : Contains(s, x) => x = Last(s) \/ Contains(Front(s), x)
           /\ \A x : Contains(t, x) \/ x = Last(s) => Contains(<<Last(s)>> \o t, x)
<1>1. Len(s) \in Nat \ {0} /\ Last(s) \in Dests
  BY DEF Last
<1>2. Front(s) \in Seq(Dests) /\ Len(Front(s)) = Len(s) - 1 /\ \A i \in 1..(Len(s) - 1) : Front(s)[i] = s[i]
  <2>1. PICK n \in Nat : n = Len(s) - 1
    BY <1>1
  <2>2. \A i \in 1..n : s[i] \in Dests
    BY <1>1, <2>1
  <2>3. /\ SubSeq(s, 1, n) \in Seq(Dests)
        /\ Len(SubSeq(s, 1, n)) = IF 1 <= n THEN n - 1 + 1 ELSE 0
        /\ \A i \in 1 .. n - 1 + 1 : SubSeq(s, 1, n)[i] = s[1 + i - 1]
    BY <2>2, SubSeqProperties
  <2>4. QED
    BY <2>1, <2>3 DEF Front
<1>3. \A x : Contains(s, x) => x = Last(s) \/ Contains(Front(s), x)
  BY <1>1, <1>2 DEF Last, Contains
<1>4. PICK y \in Dests : y = Last(s)
  BY <1>1
<1>5. PICK u : u = <<y>> \o t
  OBVIOUS
<1>6. u \in Seq(Dests) /\ Len(u) = 1 + Len(t) /\ u[1] = y /\ \A i \in 1..Len(t) : u[1 + i] = t[i]
  BY <1>5
<1>7. Contains(u, y)
  BY <1>6 DEF Contains
<1>8. ASSUME NEW x, Contains(t, x)
      PROVE  Contains(u, x)
  <2>1. PICK i \in 1..Len(t) : t[i] = x
    BY <1>8 DEF Contains
  <2>2. 1 + i \in 1..Len(u) /\ u[1 + i] = x
    BY <1>6, <2>1
  <2>3. QED
    BY <2>2 DEF Contains
<1>9. QED
  BY <1>1, <1>2, <1>3, <1>4, <1>5, <1>6, <1>7, <1>8

\* A destination that is visited, and one that is retained.
LEMMA Visits ==
    ASSUME NEW o \in Ops, o.installed # <<>>
    PROVE  /\ \A r : r = visited(o) =>
                /\ r \in Ops /\ r.pc = "rollback" /\ r.luid = o.luid /\ r.idx = o.idx /\ r.transition = o.transition
                /\ \A x : Contains(o.installed, x) \/ Contains(o.remaining, x) =>
                       x = Last(o.installed) \/ Contains(r.installed, x) \/ Contains(r.remaining, x)
           /\ \A r : r = retain(o) =>
                /\ r \in Ops /\ r.pc = "rollback" /\ r.luid = o.luid /\ r.idx = o.idx /\ r.transition = o.transition
                /\ \A x : Contains(o.installed, x) \/ Contains(o.remaining, x) =>
                       Contains(r.installed, x) \/ Contains(r.remaining, x)
<1>1. o.installed \in Seq(Dests) /\ o.remaining \in Seq(Dests) /\ "rollback" \in Places
  BY FieldTypes, PlaceFacts
<1>2. PICK s \in Seq(Dests), u \in Seq(Dests) : s = o.installed /\ u = o.remaining
  BY <1>1
<1>3. PICK f, g : f = Front(s) /\ g = <<Last(s)>> \o u
  OBVIOUS
<1>a. /\ f \in Seq(Dests) /\ g \in Seq(Dests)
      /\ \A x : Contains(s, x) => x = Last(s) \/ Contains(f, x)
      /\ \A x : Contains(u, x) \/ x = Last(s) => Contains(g, x)
  BY <1>2, <1>3, FrontFacts
<1>4. ASSUME NEW r, r = [o EXCEPT !.installed = f, !.pc = "rollback"]
      PROVE  /\ r \in Ops /\ r.pc = "rollback" /\ r.luid = o.luid /\ r.idx = o.idx /\ r.transition = o.transition
             /\ r.installed = f /\ r.remaining = o.remaining
  BY <1>1, <1>a, <1>4 DEF Ops
<1>5. ASSUME NEW v \in Ops, NEW r, r = [v EXCEPT !.remaining = g]
      PROVE  /\ r \in Ops /\ r.pc = v.pc /\ r.luid = v.luid /\ r.idx = v.idx /\ r.transition = v.transition
             /\ r.installed = v.installed /\ r.remaining = g
  BY <1>a, <1>5 DEF Ops
<1>6. PICK v : v = visited(o)
  OBVIOUS
<1>7. v = [o EXCEPT !.installed = f, !.pc = "rollback"]
  BY <1>2, <1>3, <1>6 DEF visited
<1>8. /\ v \in Ops /\ v.pc = "rollback" /\ v.luid = o.luid /\ v.idx = o.idx /\ v.transition = o.transition
      /\ v.installed = f /\ v.remaining = o.remaining
  BY <1>4, <1>7
<1>9. ASSUME NEW r, r = retain(o)
      PROVE  r = [v EXCEPT !.remaining = g]
  BY <1>2, <1>3, <1>6, <1>8, <1>9 DEF retain
<1>10. \A x : Contains(o.installed, x) \/ Contains(o.remaining, x) =>
             x = Last(o.installed) \/ Contains(v.installed, x) \/ Contains(v.remaining, x)
  BY <1>2, <1>a, <1>8
<1>11. ASSUME NEW r, r = retain(o)
       PROVE  /\ r \in Ops /\ r.pc = "rollback" /\ r.luid = o.luid /\ r.idx = o.idx /\ r.transition = o.transition
              /\ \A x : Contains(o.installed, x) \/ Contains(o.remaining, x) =>
                     Contains(r.installed, x) \/ Contains(r.remaining, x)
  <2>1. /\ r \in Ops /\ r.pc = "rollback" /\ r.luid = o.luid /\ r.idx = o.idx /\ r.transition = o.transition
        /\ r.installed = f /\ r.remaining = g
    BY <1>5, <1>8, <1>9, <1>11
  <2>2. QED
    BY <1>2, <1>a, <2>1
<1>12. QED
  BY <1>6, <1>8, <1>10, <1>11

-----------------------------------------------------------------------------
(* Steps that leave the tables alone.                                      *)

\* Past reconciliation, with a transaction that may hold routes.
InTx(c) == c \notin Early \cup Reconciling \cup {"failed"}

\* The transaction forgets no destination.
Remembers(r, o) ==
    \A x : Contains(o.installed, x) \/ Contains(o.remaining, x) => Contains(r.installed, x) \/ Contains(r.remaining, x)

\* A transaction that did not change forgot nothing.
LEMMA SameTxRemembers ==
    ASSUME NEW r, NEW o, SameTx(r, o)
    PROVE  Remembers(r, o)
BY DEF SameTx, Remembers

\* The routes of a process stay where they are while none is created.
LEMMA RoutesShrink ==
    ASSUME Inv, NEW p \in Procs, NEW r, Moves(p, r), \A k \in Keys : routes'[k] \in {routes[k], NoRoute},
           Remembers(r, op[p]), InTx(r.pc) => InTx(op[p].pc)
    PROVE  RouteInv(p)'
<1>1. op'[p] = r
  BY DEF Moves, Inv, Tables, TableTypes
<1>2. NoRoute.by # p /\ NoRoute.by # "orphan"
  BY NamesAssumption DEF NoRoute
<1>3. QED
  BY <1>1, <1>2 DEF Moves, Inv, Local, RouteInv, InTx, Remembers

\* The same when no route changes at all.
LEMMA RoutesFollow ==
    ASSUME Inv, NEW p \in Procs, NEW r, Moves(p, r), UNCHANGED routes, Remembers(r, op[p]),
           InTx(r.pc) => InTx(op[p].pc)
    PROVE  RouteInv(p)'
BY RoutesShrink

\* To a place where nothing is held but, perhaps, an unfinished transition.
LEMMA CalmKeeps ==
    ASSUME Inv, NEW p \in Procs, NEW r, Moves(p, r), UNCHANGED <<routes, journal>>, Remembers(r, op[p]),
           r.pc \in {"rollback", "up", "install", "failed", "retained", "closed"},
           r.pc = "closed" => r.installed = <<>> /\ r.remaining = <<>>,
           InTx(op[p].pc) \/ r.pc = "failed",
           r.transition = None \/ (r.transition = op[p].transition /\ lock' = lock),
           r.pc = "install" => r.transition = None
    PROVE  Inv'
<1>1. op'[p] = r
  BY DEF Moves, Inv, Tables, TableTypes
<1>2. PlaceInv(p)'
  BY <1>1 DEF Moves, Inv, Local, PlaceInv, Aiming, Claiming, Undoing, Removing, Early, Staging, Untied, Reconciling
<1>3. LockInv(p)'
  BY <1>1 DEF Inv, Local, LockInv, Locked, Claiming, Undoing, Removing, Staging, Reconciling
<1>4. RouteInv(p)'
  BY RoutesFollow DEF InTx
<1>5. HeldInv(p)'
  BY <1>1 DEF HeldInv, Staging, Reconciling
<1>6. QED
  BY <1>2, <1>3, <1>4, <1>5, QuietKeeps

\* On its own adapter, past reconciliation, a process that does not see its
\* route in the table has lost it.
LEMMA GoneIsGone ==
    ASSUME Inv, NEW p \in Procs, InTx(op[p].pc), NEW k \in Keys, k[1] = op[p].luid,
           Seen(k, op[p].idx) # "match"
    PROVE  ~Owned(k)
<1>1. SUFFICES ASSUME Owned(k) PROVE FALSE
  OBVIOUS
<1>2. op[p].pc # "down"
  BY DEF InTx, Early
<1>3. routes[k].by # "orphan"
  BY DEF Inv, Local, RouteInv, InTx
<1>4. PICK q \in Procs : routes[k].by = q
  BY <1>1, <1>3 DEF Owned
<1>5. op[q].pc # "down" /\ k[1] = op[q].luid /\ routes[k].idx = op[q].idx
  BY <1>4 DEF Inv, Local, RouteInv
<1>6. q = p
  BY <1>2, <1>5 DEF Inv, Local, AdapterInv
<1>7. routes[k].fits /\ routes[k] # NoRoute
  BY <1>1, <1>4, NamesAssumption DEF Inv, Tables, Backed, NoRoute
<1>8. QED
  BY <1>5, <1>6, <1>7 DEF Seen

\* An error of the installation.
LEMMA UnwindKeeps ==
    ASSUME Inv, NEW p \in Procs, unwind(p), UNCHANGED <<routes, adapters, journal>>,
           lock' = lock \/ (lock = p /\ lock' = "free"),
           InTx(op[p].pc), op[p].transition = None
    PROVE  Inv'
<1>1. PICK o \in Ops : o = op[p]
  BY DEF Inv, Tables, TableTypes
<1>2. PICK r : r = [o EXCEPT !.pc = "rollback", !.failed = TRUE]
  OBVIOUS
<1>3. r \in Ops /\ SameTx(r, o) /\ r.pc = "rollback" /\ r.transition = o.transition
  BY <1>2, Unwinds
<1>4. op' = [op EXCEPT ![p] = r] /\ op[p].pc # "down"
  BY <1>1, <1>2 DEF unwind, Step, InTx, Early
<1>5. Moves(p, r)
  BY <1>1, <1>3, <1>4 DEF Moves, SameTx
<1>6. QED
  BY <1>1, <1>3, <1>5, CalmKeeps, SameTxRemembers

\* An error of the installation that ends its transition.
LEMMA UndoFailsKeeps ==
    ASSUME Inv, NEW p \in Procs, NEW o \in Ops, SameTx(o, op[p]), InTx(op[p].pc), lock = p,
           finish(p, [o EXCEPT !.pc = "rollback", !.failed = TRUE]), UNCHANGED <<routes, adapters, journal>>
    PROVE  Inv'
<1>1. PICK u : u = [o EXCEPT !.pc = "rollback", !.failed = TRUE]
  OBVIOUS
<1>2. u \in Ops /\ SameTx(u, o) /\ u.pc = "rollback"
  BY <1>1, Unwinds
<1>3. PICK r : r = [u EXCEPT !.transition = None]
  OBVIOUS
<1>4. r \in Ops /\ SameTx(r, u) /\ r.pc = "rollback" /\ r.transition = None
  BY <1>2, <1>3, Unties
<1>5. op' = [op EXCEPT ![p] = r] /\ lock' = "free" /\ op[p].pc # "down"
  BY <1>1, <1>3 DEF finish, Unlock, Step, InTx, Early
<1>6. SameTx(r, op[p])
  BY <1>2, <1>4 DEF SameTx
<1>7. Moves(p, r)
  BY <1>4, <1>5, <1>6 DEF Moves, SameTx
<1>8. QED
  BY <1>4, <1>6, <1>7, CalmKeeps, SameTxRemembers

\* A step of the installation or of the rollback to a place that relies on
\* more than its routes.
LEMMA AimedKeeps ==
    ASSUME Inv, NEW p \in Procs, NEW c \in Places, op' = [op EXCEPT ![p] = [op[p] EXCEPT !.pc = c]],
           UNCHANGED <<routes, adapters, journal>>, InTx(op[p].pc), InTx(c),
           lock' = lock \/ (lock = "free" /\ lock' = p),
           c \in Locked => lock' = p,
           c \in Untied => op[p].transition = None,
           c \in Aiming => op[p].pos <= Len(Plan[p]),
           c \in Undoing => op[p].pc \in Undoing,
           c \in Removing => op[p].pc \in Removing,
           c \notin {"record", "add", "closed"},
           c = "prepareSave" => routes[Own(p, Target(p))].by # "foreign",
           c \in {"releaseIntent", "undoSave"} => ~Owned(Own(p, Target(p))),
           c = "rbRelease" => ~Owned(Own(p, Victim(p)))
    PROVE  Inv'
<1>1. PICK o \in Ops : o = op[p]
  BY DEF Inv, Tables, TableTypes
<1>2. PICK r : r = [o EXCEPT !.pc = c]
  OBVIOUS
<1>3. r \in Ops /\ SameTx(r, o) /\ r.pc = c /\ r.transition = o.transition
  BY <1>2, Jumps
<1>4. op' = [op EXCEPT ![p] = r] /\ op'[p] = r /\ op[p].pc # "down" /\ c # "down"
  BY <1>1, <1>2 DEF InTx, Early, Inv, Tables, TableTypes
<1>5. Moves(p, r)
  BY <1>1, <1>3, <1>4 DEF Moves, SameTx
<1>6. Target(p)' = Target(p) /\ Victim(p)' = Victim(p) /\ \A x : Own(p, x)' = Own(p, x)
  BY <1>1, <1>3, <1>4 DEF Target, Victim, Own, SameTx
<1>7. PlaceInv(p)'
  BY <1>1, <1>3, <1>4, <1>6 DEF Inv, Local, PlaceInv, SameTx, InTx, Early, Staging, Reconciling
<1>8. LockInv(p)'
  BY <1>1, <1>3, <1>4, NamesAssumption DEF Inv, Local, LockInv
<1>9. RouteInv(p)'
  BY <1>1, <1>3, <1>5, RoutesFollow, SameTxRemembers
<1>10. HeldInv(p)'
  BY <1>3, <1>4, <1>6 DEF HeldInv, Owned, InTx, Staging, Reconciling
<1>11. QED
  BY <1>5, <1>7, <1>8, <1>9, <1>10, QuietKeeps

\* baseline: installRouteTransaction reads a destination and skips it, goes on
\* to prepare it, or unwinds.
LEMMA baselineKeeps ==
    ASSUME Inv, NEW p \in Procs, baseline(p)
    PROVE  Inv'
<1>1. PICK o \in Ops : o = op[p]
  BY DEF Inv, Tables, TableTypes
<1>2. /\ o.pc = "install" /\ o.pos <= Len(Plan[p]) /\ o.transition = None
      /\ UNCHANGED <<routes, adapters, journal, lock>>
  BY <1>1 DEF baseline, Inv, Local, PlaceInv, Untied
<1>3. InTx(o.pc)
  BY <1>2 DEF InTx, Early, Reconciling, Staging
<1>4. CASE unwind(p)
  BY <1>1, <1>2, <1>3, <1>4, UnwindKeeps
<1>5. CASE Step(p, [op[p] EXCEPT !.pos = @ + 1])
  <2>1. PICK n \in Nat \ {0} : n = o.pos + 1
    BY FieldTypes
  <2>2. PICK r : r = [o EXCEPT !.pos = n]
    OBVIOUS
  <2>3. /\ r \in Ops /\ r.pc = "install" /\ r.luid = o.luid /\ r.idx = o.idx
        /\ r.installed = o.installed /\ r.remaining = o.remaining /\ r.transition = None
    BY <1>2, <2>2, Advances
  <2>4. op' = [op EXCEPT ![p] = r]
    BY <1>1, <1>5, <2>1, <2>2 DEF Step
  <2>5. Moves(p, r) /\ Remembers(r, op[p])
    BY <1>1, <1>2, <2>3, <2>4 DEF Moves, Remembers
  <2>6. QED
    BY <1>1, <1>2, <1>3, <2>3, <2>5, CalmKeeps
<1>6. CASE Step(p, [op[p] EXCEPT !.pc = "prepare"])
  <2>1. "prepare" \in Places /\ InTx("prepare") /\ "prepare" \notin Locked \cup Undoing \cup Removing
    BY PlaceFacts DEF InTx, Early, Reconciling, Staging, Locked, Claiming, Undoing, Removing
  <2>2. QED
    BY <1>1, <1>2, <1>3, <1>6, <2>1, AimedKeeps DEF Step
<1>7. QED
  BY <1>4, <1>5, <1>6 DEF baseline

\* installed: the last destination of the plan is done.
LEMMA installedKeeps ==
    ASSUME Inv, NEW p \in Procs, installed(p)
    PROVE  Inv'
<1>1. PICK o \in Ops : o = op[p]
  BY DEF Inv, Tables, TableTypes
<1>2. o.pc = "install" /\ o.transition = None /\ UNCHANGED <<routes, adapters, journal, lock>>
  BY <1>1 DEF installed, Inv, Local, PlaceInv, Untied
<1>3. PICK r : r = [o EXCEPT !.pc = "up"]
  OBVIOUS
<1>4. r \in Ops /\ SameTx(r, o) /\ r.pc = "up" /\ r.transition = None
  BY <1>2, <1>3, Jumps, PlaceFacts
<1>5. Moves(p, r)
  BY <1>1, <1>2, <1>3, <1>4 DEF installed, Step, Moves, SameTx
<1>6. QED
  BY <1>1, <1>2, <1>4, <1>5, CalmKeeps, SameTxRemembers DEF InTx, Early, Reconciling, Staging

\* Close: the rollback starts with whatever the transaction remembers.
LEMMA CloseKeeps ==
    ASSUME Inv, NEW p \in Procs, Close(p)
    PROVE  Inv'
<1>1. PICK o \in Ops : o = op[p]
  BY DEF Inv, Tables, TableTypes
<1>2. o.pc \in {"up", "retained"} /\ UNCHANGED <<routes, adapters, journal, lock>>
  BY <1>1 DEF Close
<1>3. PICK r : r = [o EXCEPT !.pc = "rollback"]
  OBVIOUS
<1>4. r \in Ops /\ SameTx(r, o) /\ r.pc = "rollback" /\ r.transition = o.transition
  BY <1>3, Jumps, PlaceFacts
<1>5. Moves(p, r)
  BY <1>1, <1>2, <1>3, <1>4 DEF Close, Step, Moves, SameTx
<1>6. QED
  BY <1>1, <1>2, <1>4, <1>5, CalmKeeps, SameTxRemembers DEF InTx, Early, Reconciling, Staging

\* A read that succeeds tells what is in the table.
LEMMA ReadTells ==
    ASSUME NEW out, NEW k, NEW i, NEW cancelled, Read(out, k, i, cancelled), out # "error"
    PROVE  out = Seen(k, i)
BY DEF Read

\* prepareLock: the baseline read under the lock found no row, so none of other
\* software is there.
LEMMA prepareLockKeeps ==
    ASSUME Inv, NEW p \in Procs, prepareLock(p)
    PROVE  Inv'
<1>1. PICK o \in Ops : o = op[p]
  BY DEF Inv, Tables, TableTypes
<1>2. o.pc = "prepare" /\ o.transition = None /\ o.pos <= Len(Plan[p]) /\ UNCHANGED <<routes, adapters, journal>>
  BY <1>1 DEF prepareLock, Inv, Local, PlaceInv, Untied, Aiming
<1>3. InTx(o.pc)
  BY <1>2 DEF InTx, Early, Reconciling, Staging
<1>4. CASE unwind(p) /\ UNCHANGED lock
  BY <1>1, <1>2, <1>3, <1>4, UnwindKeeps
<1>5. CASE /\ lock = "free" /\ lock' = p /\ Step(p, [op[p] EXCEPT !.pc = "prepareSave"])
           /\ \E out \in Outcomes : Read(out, Own(p, Target(p)), op[p].idx, op[p].cancelled) /\ out = "absent"
  <2>1. routes[Own(p, Target(p))] = NoRoute
    BY <1>5, ReadTells DEF Seen
  <2>2. /\ "prepareSave" \in Places /\ InTx("prepareSave") /\ "prepareSave" \notin Undoing \cup Removing
    BY PlaceFacts DEF InTx, Early, Reconciling, Staging, Claiming, Undoing, Removing
  <2>3. routes[Own(p, Target(p))].by # "foreign"
    BY <2>1 DEF NoRoute
  <2>4. QED
    BY <1>1, <1>2, <1>3, <1>5, <2>2, <2>3, AimedKeeps DEF Step
<1>6. QED
  BY <1>4, <1>5 DEF prepareLock, baselineAbsent

\* addFails: the claim is still the only one, and no route of Tachyon is at its
\* row.
LEMMA addFailsKeeps ==
    ASSUME Inv, NEW p \in Procs, addFails(p)
    PROVE  Inv'
<1>1. op[p].pc = "add" /\ UNCHANGED <<routes, adapters, journal, lock>>
  BY DEF addFails
<1>2. op[p].pos <= Len(Plan[p]) /\ lock = p /\ ~Owned(Own(p, Target(p)))
  BY <1>1 DEF Inv, Local, PlaceInv, LockInv, HeldInv, Aiming, Claiming, Locked
<1>3. /\ "releaseIntent" \in Places /\ InTx("releaseIntent") /\ InTx("add")
      /\ "releaseIntent" \notin Undoing \cup Removing \cup Untied
  BY PlaceFacts DEF InTx, Early, Reconciling, Staging, Claiming, Undoing, Removing, Untied
<1>4. QED
  BY <1>1, <1>2, <1>3, AimedKeeps DEF addFails, Step

\* What a process at work on a route finds.
LEMMA UndoFacts ==
    ASSUME Inv, NEW p \in Procs, op[p].pc \in Undoing
    PROVE  /\ op[p].pos <= Len(Plan[p]) /\ lock = p /\ InTx(op[p].pc)
           /\ Own(p, Target(p)) \in Keys /\ Own(p, Target(p))[1] = op[p].luid
<1>1. op[p].pc \in Aiming /\ op[p].pc \in Locked /\ InTx(op[p].pc)
  BY DEF Aiming, Locked, InTx, Early, Reconciling, Staging, Undoing
<1>2. QED
  BY <1>1, AimFacts DEF Inv, Local, PlaceInv, LockInv, Own

\* undoRead: a row that does not match is not the route that was recorded
\* (GoneIsGone).
LEMMA undoReadKeeps ==
    ASSUME Inv, NEW p \in Procs, undoRead(p)
    PROVE  Inv'
<1>1. op[p].pc = "undoRead" /\ op[p].pc \in Undoing /\ UNCHANGED <<routes, adapters, journal>>
  BY DEF undoRead, Undoing
<1>2. op[p] \in Ops /\ SameTx(op[p], op[p])
  BY DEF Inv, Tables, TableTypes, SameTx
<1>3. PICK out \in Outcomes :
        /\ Read(out, Own(p, Target(p)), op[p].idx, FALSE)
        /\ IF out = "error" THEN undoFails(p)
           ELSE UNCHANGED lock /\ Step(p, [op[p] EXCEPT !.pc = IF out = "match" THEN "undoDelete" ELSE "undoSave"])
  BY DEF undoRead
<1>4. CASE out = "error"
  BY <1>1, <1>2, <1>3, <1>4, UndoFacts, UndoFailsKeeps DEF undoFails, notRolledBack
<1>5. CASE out # "error"
  <2>1. out # "match" => ~Owned(Own(p, Target(p)))
    BY <1>1, <1>3, <1>5, UndoFacts, ReadTells, GoneIsGone
  <2>2. PICK c : c = IF out = "match" THEN "undoDelete" ELSE "undoSave"
    OBVIOUS
  <2>3. c \in Places /\ c \in Undoing /\ InTx(c) /\ c \notin Untied \cup Removing \cup {"record", "add", "closed", "prepareSave", "releaseIntent"}
    BY <2>2, PlaceFacts DEF InTx, Early, Reconciling, Staging, Undoing, Removing, Untied
  <2>4. c = "undoSave" => ~Owned(Own(p, Target(p)))
    BY <2>1, <2>2
  <2>5. QED
    BY <1>1, <1>3, <1>5, <2>2, <2>3, <2>4, UndoFacts, AimedKeeps DEF Step
<1>6. QED
  BY <1>4, <1>5

\* undoVerify: only a read that says so gives the route up.
LEMMA undoVerifyKeeps ==
    ASSUME Inv, NEW p \in Procs, undoVerify(p)
    PROVE  Inv'
<1>1. op[p].pc = "undoVerify" /\ op[p].pc \in Undoing /\ UNCHANGED <<routes, adapters, journal>>
  BY DEF undoVerify, Undoing
<1>2. op[p] \in Ops /\ SameTx(op[p], op[p])
  BY DEF Inv, Tables, TableTypes, SameTx
<1>3. PICK out \in Outcomes :
        /\ Read(out, Own(p, Target(p)), op[p].idx, FALSE)
        /\ IF verifiedGone(out) THEN UNCHANGED lock /\ Step(p, [op[p] EXCEPT !.pc = "undoSave"])
           ELSE undoFails(p)
  BY DEF undoVerify
<1>4. CASE ~verifiedGone(out)
  BY <1>1, <1>2, <1>3, <1>4, UndoFacts, UndoFailsKeeps DEF undoFails, notRolledBack
<1>5. CASE verifiedGone(out)
  <2>1. ~Owned(Own(p, Target(p)))
    BY <1>1, <1>3, <1>5, UndoFacts, ReadTells, GoneIsGone DEF verifiedGone
  <2>2. "undoSave" \in Places /\ "undoSave" \in Undoing /\ InTx("undoSave") /\ "undoSave" \notin Untied \cup Removing
    BY PlaceFacts DEF InTx, Early, Reconciling, Staging, Undoing, Removing, Untied
  <2>3. QED
    BY <1>1, <1>3, <1>5, <2>1, <2>2, UndoFacts, AimedKeeps DEF Step
<1>6. QED
  BY <1>4, <1>5

\* readback: the created route stays installed whatever the readback says.
LEMMA readbackKeeps ==
    ASSUME Inv, NEW p \in Procs, readback(p)
    PROVE  Inv'
<1>1. PICK o \in Ops : o = op[p]
  BY DEF Inv, Tables, TableTypes
<1>2. o.pc = "readback" /\ o.transition = None /\ UNCHANGED <<routes, adapters, journal, lock>>
  BY <1>1 DEF readback, Inv, Local, PlaceInv, Untied
<1>3. InTx(o.pc)
  BY <1>2 DEF InTx, Early, Reconciling, Staging
<1>4. CASE unwind(p)
  BY <1>1, <1>2, <1>3, <1>4, UnwindKeeps
<1>5. CASE Step(p, [op[p] EXCEPT !.pc = "install", !.pos = @ + 1])
  <2>1. PICK n \in Nat \ {0} : n = o.pos + 1
    BY FieldTypes
  <2>2. PICK u : u = [o EXCEPT !.pc = "install"]
    OBVIOUS
  <2>3. u \in Ops /\ SameTx(u, o) /\ u.pc = "install" /\ u.transition = None
    BY <1>2, <2>2, Jumps, PlaceFacts
  <2>4. PICK r : r = [u EXCEPT !.pos = n]
    OBVIOUS
  <2>5. /\ r \in Ops /\ r.pc = "install" /\ r.luid = o.luid /\ r.idx = o.idx
        /\ r.installed = o.installed /\ r.remaining = o.remaining /\ r.transition = None
    BY <2>3, <2>4, Advances DEF SameTx
  <2>6. op' = [op EXCEPT ![p] = r]
    BY <1>1, <1>5, <2>1, <2>2, <2>3, <2>4 DEF Step, SameTx
  <2>7. Moves(p, r) /\ Remembers(r, op[p])
    BY <1>1, <1>2, <2>5, <2>6 DEF Moves, Remembers
  <2>8. QED
    BY <1>1, <1>2, <1>3, <2>5, <2>7, CalmKeeps
<1>6. QED
  BY <1>4, <1>5 DEF readback

\* A destination is retained, with its transition finished or not.
LEMMA RetainKeeps ==
    ASSUME Inv, NEW p \in Procs, InTx(op[p].pc), op[p].installed # <<>>, UNCHANGED <<routes, adapters, journal>>,
           \/ finish(p, retain(op[p])) /\ lock = p
           \/ Step(p, retain(op[p])) /\ lock' = lock
    PROVE  Inv'
<1>1. PICK o \in Ops : o = op[p]
  BY DEF Inv, Tables, TableTypes
<1>2. PICK v : v = retain(o)
  OBVIOUS
<1>3. /\ v \in Ops /\ v.pc = "rollback" /\ v.luid = o.luid /\ v.idx = o.idx /\ v.transition = o.transition
      /\ Remembers(v, o)
  BY <1>1, <1>2, Visits DEF Remembers
<1>4. CASE Step(p, retain(op[p])) /\ lock' = lock
  <2>1. Moves(p, v)
    BY <1>1, <1>2, <1>3, <1>4 DEF Moves, Step, InTx, Early
  <2>2. QED
    BY <1>1, <1>3, <1>4, <2>1, CalmKeeps
<1>5. CASE finish(p, retain(op[p])) /\ lock = p
  <2>1. PICK r : r = [v EXCEPT !.transition = None]
    OBVIOUS
  <2>2. r \in Ops /\ SameTx(r, v) /\ r.pc = "rollback" /\ r.transition = None
    BY <1>3, <2>1, Unties
  <2>3. op' = [op EXCEPT ![p] = r] /\ lock' = "free"
    BY <1>1, <1>2, <1>5, <2>1 DEF finish, Unlock, Step
  <2>4. Moves(p, r)
    BY <1>1, <1>3, <1>5, <2>2, <2>3 DEF Moves, SameTx, InTx, Early
  <2>5. Remembers(r, op[p])
    BY <1>1, <1>3, <2>2 DEF SameTx, Remembers
  <2>6. QED
    BY <2>2, <2>4, <2>5, CalmKeeps
<1>6. QED
  BY <1>4, <1>5

\* What a process that removes a route finds.
LEMMA RemovalFacts ==
    ASSUME Inv, NEW p \in Procs, op[p].pc \in Removing
    PROVE  /\ lock = p /\ InTx(op[p].pc) /\ op[p].installed # <<>>
           /\ Own(p, Victim(p)) \in Keys /\ Own(p, Victim(p))[1] = op[p].luid
<1>1. op[p].pc \in Locked /\ InTx(op[p].pc)
  BY DEF Locked, InTx, Early, Reconciling, Staging, Removing
<1>2. QED
  BY <1>1, AimFacts DEF Inv, Local, PlaceInv, LockInv, Own

\* To the next place of a removal.
LEMMA RemovalMoves ==
    ASSUME Inv, NEW p \in Procs, op[p].pc \in Removing, NEW c \in Removing, Step(p, [op[p] EXCEPT !.pc = c]),
           UNCHANGED <<routes, adapters, journal, lock>>, c = "rbRelease" => ~Owned(Own(p, Victim(p)))
    PROVE  Inv'
<1>1. c \in Places /\ InTx(c) /\ c \notin Aiming \cup Untied \cup Undoing \cup {"closed"}
  BY PlaceFacts DEF InTx, Early, Reconciling, Staging, Removing, Aiming, Claiming, Untied, Undoing
<1>2. c \notin {"record", "add", "prepareSave", "releaseIntent", "undoSave"}
  BY <1>1 DEF Aiming, Claiming, Undoing
<1>3. QED
  BY <1>1, <1>2, RemovalFacts, AimedKeeps DEF Step

\* rollbackRead: a failed read retains the destination; a row that does not
\* match is gone.
LEMMA rollbackReadKeeps ==
    ASSUME Inv, NEW p \in Procs, rollbackRead(p)
    PROVE  Inv'
<1>1. op[p].pc \in Removing /\ UNCHANGED <<routes, adapters, journal>>
  BY DEF rollbackRead, Removing
<1>2. PICK out \in Outcomes :
        /\ Read(out, Own(p, Victim(p)), op[p].idx, FALSE)
        /\ IF out = "error" THEN reinstate(p)
           ELSE UNCHANGED lock /\ Step(p, [op[p] EXCEPT !.pc = IF out = "match" THEN "rbDelete" ELSE "rbRelease"])
  BY DEF rollbackRead
<1>3. CASE out = "error"
  BY <1>1, <1>2, <1>3, RemovalFacts, RetainKeeps DEF reinstate
<1>4. CASE out # "error"
  <2>1. out # "match" => ~Owned(Own(p, Victim(p)))
    BY <1>1, <1>2, <1>4, RemovalFacts, ReadTells, GoneIsGone
  <2>2. PICK c : c = IF out = "match" THEN "rbDelete" ELSE "rbRelease"
    OBVIOUS
  <2>3. c \in Removing /\ (c = "rbRelease" => ~Owned(Own(p, Victim(p))))
    BY <2>1, <2>2 DEF Removing
  <2>4. QED
    BY <1>1, <1>2, <1>4, <2>2, <2>3, RemovalMoves
<1>5. QED
  BY <1>3, <1>4

\* rollbackVerify: a failed verification retains the destination, its
\* transition and its lock.
LEMMA rollbackVerifyKeeps ==
    ASSUME Inv, NEW p \in Procs, rollbackVerify(p)
    PROVE  Inv'
<1>1. op[p].pc \in Removing /\ "rbRelease" \in Removing /\ UNCHANGED <<routes, adapters, journal>>
  BY DEF rollbackVerify, Removing
<1>2. PICK out \in Outcomes :
        /\ Read(out, Own(p, Victim(p)), op[p].idx, FALSE)
        /\ IF verifiedGone(out) THEN UNCHANGED lock /\ Step(p, [op[p] EXCEPT !.pc = "rbRelease"])
           ELSE IF out = "error" THEN UNCHANGED lock /\ Step(p, retain(op[p]))
           ELSE reinstate(p)
  BY DEF rollbackVerify
<1>3. CASE ~verifiedGone(out)
  BY <1>1, <1>2, <1>3, RemovalFacts, RetainKeeps DEF reinstate
<1>4. CASE verifiedGone(out)
  <2>1. ~Owned(Own(p, Victim(p)))
    BY <1>1, <1>2, <1>4, RemovalFacts, ReadTells, GoneIsGone DEF verifiedGone
  <2>2. QED
    BY <1>1, <1>2, <1>4, <2>1, RemovalMoves
<1>5. QED
  BY <1>3, <1>4

\* rollbackEnd: what remains becomes what is installed; closed only when
\* nothing remains.
LEMMA rollbackEndKeeps ==
    ASSUME Inv, NEW p \in Procs, rollbackEnd(p)
    PROVE  Inv'
<1>1. PICK o \in Ops : o = op[p]
  BY DEF Inv, Tables, TableTypes
<1>2. o.pc = "rollback" /\ o.installed = <<>> /\ UNCHANGED <<routes, adapters, journal, lock>>
  BY <1>1 DEF rollbackEnd
<1>3. PICK c : c = IF o.remaining = <<>> THEN "closed" ELSE IF o.failed THEN "failed" ELSE "retained"
  OBVIOUS
<1>4. PICK r : r = [o EXCEPT !.installed = o.remaining, !.remaining = <<>>, !.pc = c]
  OBVIOUS
<1>5. op' = [op EXCEPT ![p] = r]
  BY <1>1, <1>3, <1>4 DEF rollbackEnd, Step
<1>6. c \in {"closed", "failed", "retained"} /\ c \in Places
  BY <1>3, PlaceFacts
<1>7. PICK e \in Seq(Dests) : e = <<>>
  BY <1>2, FieldTypes
<1>8. /\ r \in Ops /\ r.pc = c /\ r.luid = o.luid /\ r.idx = o.idx /\ r.transition = o.transition
      /\ r.installed = o.remaining /\ r.remaining = <<>>
  <2>1. r = [o EXCEPT !.installed = o.remaining, !.remaining = e, !.pc = c]
    BY <1>4, <1>7
  <2>2. o.remaining \in Seq(Dests)
    BY FieldTypes
  <2>3. /\ r \in Ops /\ r.pc = c /\ r.luid = o.luid /\ r.idx = o.idx /\ r.transition = o.transition
        /\ r.installed = o.remaining /\ r.remaining = e
    BY <1>6, <2>1, <2>2 DEF Ops
  <2>4. QED
    BY <1>7, <2>3
<1>9. Moves(p, r) /\ InTx(o.pc)
  BY <1>1, <1>2, <1>5, <1>6, <1>8 DEF Moves, InTx, Early, Reconciling, Staging
<1>10. Remembers(r, o)
  BY <1>2, <1>8 DEF Remembers, Contains
<1>11. c = "closed" => r.installed = <<>> /\ r.remaining = <<>>
  BY <1>3, <1>8
<1>12. QED
  BY <1>1, <1>2, <1>6, <1>8, <1>9, <1>10, <1>11, CalmKeeps

\* cancel: the context of a process is no part of what anybody relies on.
LEMMA cancelKeeps ==
    ASSUME Inv, NEW p \in Procs, cancel(p)
    PROVE  Inv'
<1>1. PICK o \in Ops : o = op[p]
  BY DEF Inv, Tables, TableTypes
<1>2. PICK r : r = [o EXCEPT !.cancelled = TRUE]
  OBVIOUS
<1>3. /\ r \in Ops /\ SameTx(r, o) /\ r.pc = o.pc /\ r.transition = o.transition
      /\ r.failed = o.failed /\ r.todo = o.todo /\ r.kept = o.kept /\ r.cur = o.cur
  BY <1>2 DEF Ops, SameTx
<1>4. o.pc # "down" /\ op' = [op EXCEPT ![p] = r] /\ UNCHANGED <<routes, adapters, journal, lock>>
  BY <1>1, <1>2 DEF cancel, Step
<1>5. Moves(p, r) /\ op'[p] = r
  BY <1>1, <1>3, <1>4 DEF Moves, SameTx, Inv, Tables, TableTypes
<1>6. PlaceInv(p)'
  BY <1>1, <1>3, <1>5 DEF Inv, Local, PlaceInv, SameTx, Target
<1>7. LockInv(p)'
  BY <1>1, <1>3, <1>4, <1>5 DEF Inv, Local, LockInv
<1>8. RouteInv(p)'
  BY <1>1, <1>3, <1>4, <1>5, RoutesFollow, SameTxRemembers
<1>9. HeldInv(p)'
  <2>1. /\ Target(p)' = Target(p) /\ Victim(p)' = Victim(p) /\ Working(p)' = Working(p) /\ claim(p, "pending")' = claim(p, "pending")
        /\ \A x : Own(p, x)' = Own(p, x)
        /\ \A k : Claims(k)' = Claims(k)
    BY <1>1, <1>3, <1>4, <1>5 DEF Target, Victim, Working, claim, Own, SameTx, Claims
  <2>2. Backed(Working(p)) => Backed(Working(p))'
    BY <1>4, <2>1 DEF Backed, Owned
  <2>3. QED
    BY <1>1, <1>3, <1>4, <1>5, <2>1, <2>2 DEF Inv, Local, HeldInv, Owned, Key
<1>10. QED
  BY <1>4, <1>5, <1>6, <1>7, <1>8, <1>9, QuietKeeps

-----------------------------------------------------------------------------
(* Reconciliation.                                                         *)

\* What a reconciling process may rely on.
LEMMA WorkFacts ==
    ASSUME Inv, NEW p \in Procs, op[p].pc \in Reconciling
    PROVE  /\ lock = p /\ op[p].transition = None /\ op[p].luid \in LUIDs /\ op[p].pc # "down"
           /\ Working(p) \subseteq Entry /\ Backed(Working(p))
           /\ \A e \in Working(p) : Claims(Key(e)) # {}
           /\ op[p].failed \/ \A e \in op[p].kept : e.luid # op[p].luid
<1>1. op[p].pc \in Locked /\ op[p].pc \in Untied /\ op[p].pc # "down"
  BY DEF Locked, Untied, Reconciling, Staging
<1>2. op[p] \in Ops
  BY DEF Inv, Tables, TableTypes
<1>3. Working(p) \subseteq Entry
  BY <1>2, FieldTypes DEF Working
<1>4. QED
  BY <1>1, <1>3 DEF Inv, Local, LockInv, PlaceInv, HeldInv

\* Entries T that describe the same claims as S, but for claims on routes that
\* are gone, back what S backs.
LEMMA Rework ==
    ASSUME NEW S, NEW T, Backed(S),
           \A y \in T : \E x \in S : Key(x) = Key(y) /\ x.idx = y.idx,
           \A x \in S : Owned(Key(x)) => \E y \in T : Key(y) = Key(x)
    PROVE  Backed(T)
BY DEF Backed

\* Fewer routes need no more entries.
LEMMA ShrinkBacked ==
    ASSUME NEW S, Backed(S), \A k \in Keys : routes'[k] \in {routes[k], NoRoute}
    PROVE  Backed(S)'
<1>1. \A k \in Keys : Owned(k)' => Owned(k) /\ routes'[k] = routes[k]
  BY NamesAssumption DEF Owned, NoRoute
<1>2. QED
  BY <1>1 DEF Backed

\* A step of a reconciliation.
LEMMA WorkKeeps ==
    ASSUME Inv, NEW p \in Procs, NEW r, Moves(p, r), SameTx(r, op[p]), op[p].pc \in Reconciling \cup {"reconcile"},
           lock' = p, r.pc \in Reconciling, r.transition = None,
           journal' = journal \/ lock = p,
           routes' \in [Keys -> Route \cup {NoRoute}], journal' \subseteq Entry,
           \A k \in Keys : routes'[k] \in {routes[k], NoRoute},
           Backed(journal)', ForeignUnclaimed',
           r.pc = "recEntry" => r.cur = NoEntry,
           r.pc \in Staging => r.cur \in r.todo /\ routes'[Key(r.cur)].by \notin Procs \ {p},
           r.failed \/ \A e \in r.kept : e.luid # op[p].luid,
           NEW W, W = r.kept \cup r.todo, Backed(W)', \A e \in W : Claims(Key(e))' # {}
    PROVE  Inv'
<1>1. op'[p] = r /\ r.pc # "down" /\ ~InTx(r.pc)
  BY DEF Moves, Inv, Tables, TableTypes, InTx
<1>2. PlaceInv(p)'
  BY <1>1 DEF Moves, Inv, Local, PlaceInv, SameTx, Aiming, Claiming, Undoing, Removing, Early, Staging, Reconciling
<1>3. LockInv(p)'
  BY <1>1 DEF LockInv
<1>4. RouteInv(p)'
  BY <1>1, RoutesShrink, SameTxRemembers
<1>5. HeldInv(p)'
  <2>1. Working(p)' = W
    BY <1>1 DEF Working
  <2>2. Backed(Working(p))'
    BY <2>1
  <2>3. (\A e \in Working(p) : Claims(Key(e)) # {})'
    BY <2>1 DEF Key
  <2>4. r.pc \notin {"prepareSave", "add", "record", "releaseIntent", "undoSave", "rbRelease"}
    BY DEF Reconciling, Staging
  <2>5. QED
    BY <1>1, <2>2, <2>3, <2>4 DEF HeldInv, Key
<1>6. \A k \in Keys : RouteChange(p, k)
  BY DEF RouteChange
<1>7. QED
  BY <1>2, <1>3, <1>4, <1>5, <1>6, MoveKeeps

\* A step of a reconciliation that leaves the tables alone.
LEMMA QuietWorkKeeps ==
    ASSUME Inv, NEW p \in Procs, NEW r, Moves(p, r), SameTx(r, op[p]), op[p].pc \in Reconciling \cup {"reconcile"},
           UNCHANGED <<routes, journal>>, lock' = p, r.pc \in Reconciling, r.transition = None,
           r.pc = "recEntry" => r.cur = NoEntry,
           r.pc \in Staging => r.cur \in r.todo /\ routes[Key(r.cur)].by \notin Procs \ {p},
           r.failed \/ \A e \in r.kept : e.luid # op[p].luid,
           NEW W, W = r.kept \cup r.todo, Backed(W), \A e \in W : Claims(Key(e)) # {}
    PROVE  Inv'
<1>1. \A k \in Keys : routes'[k] \in {routes[k], NoRoute}
  OBVIOUS
<1>2. Backed(journal)' /\ Backed(W)'
  BY DEF Inv, Tables, Backed, Owned
<1>3. ForeignUnclaimed' /\ \A k : Claims(k)' = Claims(k)
  BY DEF Inv, Tables, ForeignUnclaimed, Claims
<1>4. routes' \in [Keys -> Route \cup {NoRoute}] /\ journal' \subseteq Entry
  BY DEF Inv, Tables, TableTypes
<1>5. QED
  BY <1>1, <1>2, <1>3, <1>4, WorkKeeps

\* reconcileLock: the whole journal is what is left to reconcile.
LEMMA reconcileLockKeeps ==
    ASSUME Inv, NEW p \in Procs, reconcileLock(p)
    PROVE  Inv'
<1>1. PICK o \in Ops : o = op[p]
  BY DEF Inv, Tables, TableTypes
<1>2. /\ o.pc = "reconcile" /\ o.pc # "down" /\ o.transition = None /\ o.cur = NoEntry
      /\ UNCHANGED <<routes, adapters, journal>>
  BY <1>1 DEF reconcileLock, Inv, Local, PlaceInv, Untied, Early
<1>3. CASE giveUp(p) /\ UNCHANGED lock
  <2>1. PICK r : r = [o EXCEPT !.pc = "failed"]
    OBVIOUS
  <2>2. r \in Ops /\ SameTx(r, o) /\ r.pc = "failed" /\ r.transition = None
    BY <1>2, <2>1, Jumps, PlaceFacts
  <2>3. Moves(p, r)
    BY <1>1, <1>2, <1>3, <2>1, <2>2 DEF giveUp, Step, Moves, SameTx
  <2>4. QED
    BY <1>1, <1>2, <2>2, <2>3, CalmKeeps, SameTxRemembers
<1>4. CASE lock = "free" /\ lock' = p /\ Step(p, [op[p] EXCEPT !.pc = "recEntry", !.todo = journal, !.kept = {}])
  <2>1. PICK J \in SUBSET Entry : J = journal
    BY DEF Inv, Tables, TableTypes
  <2>2. PICK r : r = [o EXCEPT !.pc = "recEntry", !.todo = J, !.kept = {}]
    OBVIOUS
  <2>3. "recEntry" \in Places /\ "recEntry" \in Reconciling /\ "recEntry" \notin Staging
    BY PlaceFacts DEF Reconciling, Staging
  <2>4. /\ r \in Ops /\ SameTx(r, o) /\ r.pc = "recEntry" /\ r.transition = None
        /\ r.cur = NoEntry /\ r.todo = J /\ r.kept = {}
    BY <1>2, <2>2, <2>3 DEF Ops, SameTx
  <2>5. Moves(p, r)
    BY <1>1, <1>2, <1>4, <2>1, <2>2, <2>4 DEF Step, Moves, SameTx
  <2>6. J = r.kept \cup r.todo /\ Backed(J)
    BY <2>1, <2>4 DEF Inv, Tables
  <2>7. \A e \in J : Claims(Key(e)) # {}
    BY <2>1 DEF Claims, Key
  <2>8. QED
    BY <1>1, <1>2, <1>4, <2>3, <2>4, <2>5, <2>6, <2>7, QuietWorkKeeps
<1>5. QED
  BY <1>3, <1>4 DEF reconcileLock

\* An entry is kept for a later start, or dropped.
LEMMA Kept ==
    ASSUME Inv, NEW p \in Procs, NEW e \in Entry, NEW err \in BOOLEAN, keep(p, e, err)
    PROVE  \E r \in Ops :
             /\ op' = [op EXCEPT ![p] = r]
             /\ SameTx(r, op[p]) /\ r.pc = "recEntry" /\ r.transition = op[p].transition /\ r.cur = NoEntry
             /\ r.todo = op[p].todo \ {op[p].cur, e} /\ r.kept = op[p].kept \cup {e} /\ r.failed = (op[p].failed \/ err)
<1>1. PICK o \in Ops : o = op[p]
  BY DEF Inv, Tables, TableTypes
<1>2. PICK T \in SUBSET Entry, K \in SUBSET Entry : T = o.todo \ {o.cur, e} /\ K = o.kept \cup {e}
  BY FieldTypes
<1>3. PICK f \in BOOLEAN : f = (o.failed \/ err)
  OBVIOUS
<1>4. PICK r : r = [o EXCEPT !.pc = "recEntry", !.todo = T, !.kept = K, !.cur = NoEntry, !.failed = f]
  OBVIOUS
<1>5. "recEntry" \in Places
  BY PlaceFacts DEF Reconciling
<1>6. /\ r \in Ops /\ SameTx(r, o) /\ r.pc = "recEntry" /\ r.transition = o.transition /\ r.cur = NoEntry
      /\ r.todo = T /\ r.kept = K /\ r.failed = f
  BY <1>4, <1>5 DEF Ops, SameTx
<1>7. op' = [op EXCEPT ![p] = r]
  BY <1>1, <1>2, <1>3, <1>4 DEF keep, Step
<1>8. QED
  BY <1>1, <1>2, <1>3, <1>6, <1>7

\* The fields of a process after drop.
LEMMA Dropped ==
    ASSUME Inv, NEW p \in Procs, NEW e \in Entry, NEW err \in BOOLEAN, drop(p, e, err)
    PROVE  \E r \in Ops :
             /\ op' = [op EXCEPT ![p] = r]
             /\ SameTx(r, op[p]) /\ r.pc = "recEntry" /\ r.transition = op[p].transition /\ r.cur = NoEntry
             /\ r.todo = op[p].todo \ {e} /\ r.kept = op[p].kept /\ r.failed = (op[p].failed \/ err)
<1>1. PICK o \in Ops : o = op[p]
  BY DEF Inv, Tables, TableTypes
<1>2. PICK T \in SUBSET Entry : T = o.todo \ {e}
  BY FieldTypes
<1>3. PICK f \in BOOLEAN : f = (o.failed \/ err)
  OBVIOUS
<1>4. PICK r : r = [o EXCEPT !.pc = "recEntry", !.todo = T, !.cur = NoEntry, !.failed = f]
  OBVIOUS
<1>5. "recEntry" \in Places
  BY PlaceFacts DEF Reconciling
<1>6. /\ r \in Ops /\ SameTx(r, o) /\ r.pc = "recEntry" /\ r.transition = o.transition /\ r.cur = NoEntry
      /\ r.todo = T /\ r.kept = o.kept /\ r.failed = f
  BY <1>4, <1>5 DEF Ops, SameTx
<1>7. op' = [op EXCEPT ![p] = r]
  BY <1>1, <1>2, <1>3, <1>4 DEF drop, Step
<1>8. QED
  BY <1>1, <1>2, <1>3, <1>6, <1>7

\* keep: an entry of the process's own adapter is kept only with an error,
\* which fails the start.
LEMMA KeepKeeps ==
    ASSUME Inv, NEW p \in Procs, op[p].pc \in Reconciling, NEW e \in op[p].todo, op[p].cur \in {e, NoEntry},
           NEW err \in BOOLEAN, err \/ e.luid # op[p].luid, keep(p, e, err), UNCHANGED <<routes, adapters, journal, lock>>
    PROVE  Inv'
<1>1. PICK o \in Ops : o = op[p]
  BY DEF Inv, Tables, TableTypes
<1>2. e \in Entry /\ o.todo \subseteq Entry
  BY <1>1, FieldTypes
<1>3. PICK r \in Ops :
        /\ op' = [op EXCEPT ![p] = r]
        /\ SameTx(r, op[p]) /\ r.pc = "recEntry" /\ r.transition = op[p].transition /\ r.cur = NoEntry
        /\ r.todo = op[p].todo \ {op[p].cur, e} /\ r.kept = op[p].kept \cup {e} /\ r.failed = (op[p].failed \/ err)
  BY <1>2, Kept
<1>4. r.transition = None /\ lock' = p
  BY <1>3, WorkFacts
<1>5. Moves(p, r)
  BY <1>3, WorkFacts DEF Moves, SameTx
<1>6. PICK W : W = Working(p)
  OBVIOUS
<1>7. NoEntry \notin Entry
  BY DEF NoEntry, Entry, States, None
<1>8. W = r.kept \cup r.todo
  BY <1>1, <1>2, <1>3, <1>6, <1>7 DEF Working
<1>9. "recEntry" \in Reconciling /\ "recEntry" \notin Staging
  BY DEF Reconciling, Staging
<1>10. r.failed \/ \A x \in r.kept : x.luid # op[p].luid
  BY <1>3, WorkFacts
<1>11. Backed(W) /\ \A x \in W : Claims(Key(x)) # {}
  BY <1>6, WorkFacts
<1>12. QED
  BY <1>3, <1>4, <1>5, <1>8, <1>9, <1>10, <1>11, QuietWorkKeeps

\* drop: the route of the entry is not one of Tachyon's any more.
LEMMA DropKeeps ==
    ASSUME Inv, NEW p \in Procs, op[p].pc \in Reconciling, NEW e \in op[p].todo, ~Owned(Key(e)),
           NEW err \in BOOLEAN, drop(p, e, err), UNCHANGED <<routes, adapters, journal, lock>>
    PROVE  Inv'
<1>1. PICK o \in Ops : o = op[p]
  BY DEF Inv, Tables, TableTypes
<1>2. e \in Entry
  BY <1>1, FieldTypes
<1>3. PICK r \in Ops :
        /\ op' = [op EXCEPT ![p] = r]
        /\ SameTx(r, op[p]) /\ r.pc = "recEntry" /\ r.transition = op[p].transition /\ r.cur = NoEntry
        /\ r.todo = op[p].todo \ {e} /\ r.kept = op[p].kept /\ r.failed = (op[p].failed \/ err)
  BY <1>2, Dropped
<1>4. r.transition = None /\ lock' = p
  BY <1>3, WorkFacts
<1>5. Moves(p, r)
  BY <1>3, WorkFacts DEF Moves, SameTx
<1>6. PICK W : W = r.kept \cup r.todo
  OBVIOUS
<1>7. W \subseteq Working(p) /\ \A x \in Working(p) : x \in W \/ x = e
  BY <1>3, <1>6 DEF Working
<1>8. Backed(W)
  BY <1>7, WorkFacts, Rework
<1>9. "recEntry" \in Reconciling /\ "recEntry" \notin Staging
  BY DEF Reconciling, Staging
<1>10. r.failed \/ \A x \in r.kept : x.luid # op[p].luid
  BY <1>3, WorkFacts
<1>11. QED
  BY <1>3, <1>4, <1>5, <1>6, <1>7, <1>8, <1>9, <1>10, WorkFacts, QuietWorkKeeps

\* An entry whose route does not read as it says describes no route of Tachyon.
LEMMA EntryGone ==
    ASSUME Inv, NEW p \in Procs, op[p].pc \in Reconciling, NEW e \in Working(p), Seen(Key(e), e.idx) # "match"
    PROVE  ~Owned(Key(e))
<1>1. SUFFICES ASSUME Owned(Key(e)) PROVE FALSE
  OBVIOUS
<1>2. Key(e) \in Keys /\ Backed(Working(p))
  BY WorkFacts, KeyFacts
<1>3. routes[Key(e)].fits /\ routes[Key(e)].idx = e.idx
  BY <1>1, <1>2 DEF Backed
<1>4. routes[Key(e)] # NoRoute
  BY <1>3 DEF NoRoute
<1>5. QED
  BY <1>3, <1>4 DEF Seen

\* keepEntry: an adapter that exists under another identity, or whose owner is
\* alive.
LEMMA keepEntryKeeps ==
    ASSUME Inv, NEW p \in Procs, keepEntry(p)
    PROVE  Inv'
<1>1. op[p].pc = "recEntry" /\ op[p].pc \in Reconciling /\ op[p].cur = NoEntry /\ UNCHANGED <<routes, adapters, journal, lock>>
  BY DEF keepEntry, Reconciling, Inv, Local, PlaceInv
<1>2. PICK e \in op[p].todo, err \in BOOLEAN : keep(p, e, err) /\ (err \/ e.luid # op[p].luid)
  BY DEF keepEntry, ownerGone
<1>3. QED
  BY <1>1, <1>2, KeepKeeps

\* readEntry: a row that matches on an adapter without an owner is of no live
\* process but this one.
LEMMA readEntryKeeps ==
    ASSUME Inv, NEW p \in Procs, readEntry(p)
    PROVE  Inv'
<1>1. op[p].pc = "recEntry" /\ op[p].pc \in Reconciling /\ op[p].cur = NoEntry /\ UNCHANGED <<routes, adapters, journal, lock>>
  BY DEF readEntry, Reconciling, Inv, Local, PlaceInv
<1>2. PICK e \in op[p].todo, out \in Outcomes :
        /\ ownerGone(p, e)
        /\ Read(out, <<e.luid, e.prefix>>, e.idx, op[p].cancelled)
        /\ \/ out = "error" /\ keep(p, e, TRUE)
           \/ out \in {"absent", "differ"} /\ drop(p, e, FALSE)
           \/ /\ out = "match"
              /\ Step(p, [op[p] EXCEPT !.pc = IF e.state = "pending" THEN "recClaim" ELSE "recStage", !.cur = e])
  BY DEF readEntry
<1>3. CASE out = "error" /\ keep(p, e, TRUE)
  BY <1>1, <1>3, KeepKeeps
<1>4. CASE out \in {"absent", "differ"} /\ drop(p, e, FALSE)
  <2>1. e \in Working(p) /\ Seen(Key(e), e.idx) # "match"
    BY <1>2, <1>4, ReadTells DEF Key, Working
  <2>2. QED
    BY <1>1, <1>4, <2>1, EntryGone, DropKeeps
<1>5. CASE Step(p, [op[p] EXCEPT !.pc = IF e.state = "pending" THEN "recClaim" ELSE "recStage", !.cur = e])
  <2>1. PICK o \in Ops : o = op[p]
    BY DEF Inv, Tables, TableTypes
  <2>2. PICK c : c = IF e.state = "pending" THEN "recClaim" ELSE "recStage"
    OBVIOUS
  <2>3. c \in Places /\ c \in Staging /\ c \in Reconciling /\ c # "recEntry"
    BY <2>2, PlaceFacts DEF Reconciling, Staging
  <2>4. PICK r : r = [o EXCEPT !.pc = c, !.cur = e]
    OBVIOUS
  <2>5. e \in Entry
    BY <2>1, FieldTypes
  <2>6. /\ r \in Ops /\ SameTx(r, o) /\ r.pc = c /\ r.transition = o.transition /\ r.cur = e
        /\ r.todo = o.todo /\ r.kept = o.kept /\ r.failed = o.failed
    BY <2>3, <2>4, <2>5 DEF Ops, SameTx
  <2>7. Moves(p, r)
    BY <1>1, <1>5, <2>1, <2>2, <2>3, <2>4, <2>6, WorkFacts DEF Step, Moves, SameTx, Staging
  <2>8. routes[Key(e)].by \notin Procs \ {p}
    <3>1. SUFFICES ASSUME NEW q \in Procs, q # p, routes[Key(e)].by = q PROVE FALSE
      OBVIOUS
    <3>2. Key(e) \in Keys /\ Key(e)[1] = e.luid
      BY <2>5, KeyFacts
    <3>3. op[q].pc # "down" /\ e.luid = op[q].luid
      BY <3>1, <3>2 DEF Inv, Local, RouteInv
    <3>4. adapters[e.luid] = op[q].idx /\ op[q].idx \in 1..MaxIndex
      BY <3>3 DEF Inv, Local, AdapterInv, PlaceInv
    <3>5. e.luid = op[p].luid
      BY <1>2, <3>4 DEF ownerGone
    <3>6. QED
      BY <1>1, <3>1, <3>3, <3>5, WorkFacts DEF Inv, Local, AdapterInv
  <2>9. PICK W : W = Working(p)
    OBVIOUS
  <2>10. W = r.kept \cup r.todo
    BY <2>1, <2>6, <2>9 DEF Working
  <2>11. QED
    BY <1>1, <2>1, <2>3, <2>6, <2>7, <2>8, <2>9, <2>10, WorkFacts, QuietWorkKeeps
<1>6. QED
  BY <1>2, <1>3, <1>4, <1>5

\* verifyEntry: only a read that says so gives the entry up.
LEMMA verifyEntryKeeps ==
    ASSUME Inv, NEW p \in Procs, verifyEntry(p)
    PROVE  Inv'
<1>1. op[p].pc \in Reconciling /\ op[p].cur \in op[p].todo /\ UNCHANGED <<routes, adapters, journal, lock>>
  BY DEF verifyEntry, Reconciling, Staging, Inv, Local, PlaceInv
<1>2. PICK e \in op[p].todo, out \in Outcomes :
        /\ e = op[p].cur
        /\ Read(out, <<e.luid, e.prefix>>, e.idx, op[p].cancelled)
        /\ IF verifiedGone(out) THEN drop(p, e, TRUE) ELSE keep(p, e, TRUE)
  BY <1>1 DEF verifyEntry
<1>3. CASE verifiedGone(out)
  <2>1. e \in Working(p) /\ Seen(Key(e), e.idx) # "match"
    BY <1>2, <1>3, ReadTells DEF Key, Working, verifiedGone
  <2>2. QED
    BY <1>1, <1>2, <1>3, <2>1, EntryGone, DropKeeps
<1>4. CASE ~verifiedGone(out)
  BY <1>1, <1>2, <1>4, KeepKeeps
<1>5. QED
  BY <1>3, <1>4

\* The working entries in the journal: nothing foreign is claimed, and every
\* working entry is there.
LEMMA SaveWork ==
    ASSUME Inv, NEW N, journal' \in {journal, N}, UNCHANGED routes, N \subseteq Entry, Backed(N),
           \A x \in N : Claims(Key(x)) # {}
    PROVE  /\ Backed(journal)' /\ ForeignUnclaimed' /\ journal' \subseteq Entry
           /\ \A x \in N : Claims(Key(x))' # {}
<1>1. Backed(journal)'
  BY DEF Inv, Tables, Backed, Owned
<1>2. journal' \subseteq Entry
  BY DEF Inv, Tables, TableTypes
<1>3. ForeignUnclaimed'
  BY DEF Inv, Tables, ForeignUnclaimed, Claims, Key
<1>4. \A x \in N : Claims(Key(x))' # {}
  BY DEF Claims, Key
<1>5. QED
  BY <1>1, <1>2, <1>3, <1>4

\* stageEntry: the journal changes the state of an entry, not what it
\* describes, even when the write fails.
LEMMA stageEntryKeeps ==
    ASSUME Inv, NEW p \in Procs, NEW from \in Staging, NEW to \in Staging, NEW state \in States,
           stageEntry(p, from, to, state)
    PROVE  Inv'
<1>1. PICK o \in Ops : o = op[p]
  BY DEF Inv, Tables, TableTypes
<1>2. /\ o.pc = from /\ o.pc \in Reconciling /\ o.cur \in o.todo /\ o.todo \subseteq Entry /\ o.kept \subseteq Entry
      /\ UNCHANGED <<routes, adapters, lock>>
  BY <1>1, FieldTypes, PlaceFacts DEF stageEntry, Inv, Local, PlaceInv
<1>3. PICK c \in Entry : c = o.cur
  BY <1>2
<1>4. PICK e : e = [c EXCEPT !.state = state]
  OBVIOUS
<1>5. e \in Entry /\ Key(e) = Key(c) /\ e.idx = c.idx /\ e.luid = c.luid
  BY <1>4 DEF Entry, Key
<1>6. PICK N : N = o.kept \cup (o.todo \ {c}) \cup {e}
  OBVIOUS
<1>7. N \subseteq Entry /\ staged(p, state) = N
  BY <1>1, <1>2, <1>3, <1>4, <1>5, <1>6 DEF staged
<1>8. /\ \A y \in N : \E x \in Working(p) : Key(x) = Key(y) /\ x.idx = y.idx
      /\ \A x \in Working(p) : \E y \in N : Key(y) = Key(x)
  BY <1>1, <1>2, <1>3, <1>5, <1>6 DEF Working
<1>9. Backed(N)
  BY <1>1, <1>2, <1>8, WorkFacts, Rework
<1>10. \A x \in N : Claims(Key(x)) # {}
  BY <1>1, <1>2, <1>8, WorkFacts
<1>11. PICK ok \in BOOLEAN :
        /\ LoadSave(ok, staged(p, state))
        /\ LET d == [op[p].cur EXCEPT !.state = state]
           IN  IF ok THEN Step(p, [op[p] EXCEPT !.pc = to, !.cur = d, !.todo = (@ \ {op[p].cur}) \cup {d}])
                     ELSE keep(p, d, TRUE)
  BY DEF stageEntry
<1>12. journal' \in {journal, N}
  BY <1>7, <1>11 DEF LoadSave
<1>13. /\ Backed(journal)' /\ ForeignUnclaimed' /\ journal' \subseteq Entry
       /\ \A x \in N : Claims(Key(x))' # {}
  BY <1>2, <1>7, <1>9, <1>10, <1>12, SaveWork
<1>14. /\ routes' \in [Keys -> Route \cup {NoRoute}] /\ \A k \in Keys : routes'[k] \in {routes[k], NoRoute}
       /\ Backed(N)'
  BY <1>2, <1>9 DEF Inv, Tables, TableTypes, Backed, Owned
<1>15. lock = p /\ lock' = p
  BY <1>1, <1>2, WorkFacts
<1>16. CASE ok
  <2>1. PICK T \in SUBSET Entry : T = (o.todo \ {c}) \cup {e}
    BY <1>2, <1>5
  <2>2. PICK r : r = [o EXCEPT !.pc = to, !.cur = e, !.todo = T]
    OBVIOUS
  <2>3. to \in Places /\ to \in Reconciling /\ to # "recEntry"
    BY PlaceFacts DEF Staging
  <2>4. /\ r \in Ops /\ SameTx(r, o) /\ r.pc = to /\ r.transition = o.transition /\ r.cur = e
        /\ r.todo = T /\ r.kept = o.kept /\ r.failed = o.failed
    BY <1>5, <2>2, <2>3 DEF Ops, SameTx
  <2>5. op' = [op EXCEPT ![p] = r]
    BY <1>1, <1>3, <1>4, <1>11, <1>16, <2>1, <2>2 DEF Step
  <2>6. Moves(p, r)
    BY <1>1, <1>2, <2>3, <2>4, <2>5, WorkFacts DEF Moves, SameTx, Staging
  <2>7. N = r.kept \cup r.todo /\ e \in r.todo
    BY <1>6, <2>1, <2>4
  <2>8. routes'[Key(e)].by \notin Procs \ {p}
    BY <1>1, <1>2, <1>3, <1>5 DEF Inv, Local, HeldInv
  <2>9. r.transition = None /\ (r.failed \/ \A x \in r.kept : x.luid # op[p].luid)
    BY <1>1, <1>2, <2>4, WorkFacts
  <2>10. QED
    BY <1>1, <1>2, <1>13, <1>14, <1>15, <2>3, <2>4, <2>6, <2>7, <2>8, <2>9, WorkKeeps
<1>17. CASE ~ok
  <2>1. keep(p, e, TRUE)
    BY <1>1, <1>3, <1>4, <1>11, <1>17
  <2>2. PICK r \in Ops :
          /\ op' = [op EXCEPT ![p] = r]
          /\ SameTx(r, op[p]) /\ r.pc = "recEntry" /\ r.transition = op[p].transition /\ r.cur = NoEntry
          /\ r.todo = op[p].todo \ {op[p].cur, e} /\ r.kept = op[p].kept \cup {e} /\ r.failed = (op[p].failed \/ TRUE)
    BY <1>5, <2>1, Kept
  <2>3. Moves(p, r) /\ r.transition = None
    BY <1>1, <1>2, <2>2, WorkFacts DEF Moves, SameTx
  <2>4. N = r.kept \cup r.todo
    BY <1>1, <1>3, <1>6, <2>2
  <2>5. "recEntry" \in Reconciling /\ "recEntry" \notin Staging /\ r.failed
    BY <2>2 DEF Reconciling, Staging
  <2>6. QED
    BY <1>1, <1>2, <1>13, <1>14, <1>15, <2>2, <2>3, <2>4, <2>5, WorkKeeps
<1>18. QED
  BY <1>16, <1>17

\* claimEntry and stageDelete.
LEMMA StagingKeeps ==
    ASSUME Inv, NEW p \in Procs, claimEntry(p) \/ stageDelete(p)
    PROVE  Inv'
<1>1. {"recClaim", "recStage", "recDelete"} \subseteq Staging /\ {"active", "deleting"} \subseteq States
  BY DEF Staging, States
<1>2. QED
  BY <1>1, stageEntryKeeps DEF claimEntry, stageDelete

\* A delete removes its row or nothing; one that reports success removed it.
LEMMA DeleteTells ==
    ASSUME Inv, NEW k \in Keys, NEW out \in {"done", "error"}, NEW i, NEW cancelled, Delete(out, k, i, cancelled),
           UNCHANGED journal
    PROVE  /\ routes' \in [Keys -> Route \cup {NoRoute}]
           /\ \A j \in Keys : routes'[j] \in {routes[j], NoRoute}
           /\ \A j \in Keys : j # k => routes'[j] = routes[j]
           /\ out = "done" => routes'[k] = NoRoute
           /\ Backed(journal)' /\ ForeignUnclaimed'
<1>1. routes \in [Keys -> Route \cup {NoRoute}]
  BY DEF Inv, Tables, TableTypes
<1>2. routes' = routes \/ routes' = [routes EXCEPT ![k] = NoRoute]
  BY DEF Delete
<1>3. out = "done" => routes' = [routes EXCEPT ![k] = NoRoute]
  BY DEF Delete
<1>4. /\ routes' \in [Keys -> Route \cup {NoRoute}]
      /\ \A j \in Keys : routes'[j] \in {routes[j], NoRoute}
      /\ \A j \in Keys : j # k => routes'[j] = routes[j]
      /\ out = "done" => routes'[k] = NoRoute
  BY <1>1, <1>2, <1>3
<1>5. Backed(journal)'
  <2>1. PICK J : J = journal
    OBVIOUS
  <2>2. Backed(J)
    BY <2>1 DEF Inv, Tables
  <2>3. Backed(J)'
    BY <1>4, <2>2, ShrinkBacked
  <2>4. QED
    BY <2>1, <2>3
<1>6. ForeignUnclaimed'
  BY <1>4 DEF Inv, Tables, ForeignUnclaimed, Claims, NoRoute
<1>7. QED
  BY <1>4, <1>5, <1>6

\* deleteEntry: the row is the one of the entry; a failed delete keeps the
\* entry.
LEMMA deleteEntryKeeps ==
    ASSUME Inv, NEW p \in Procs, deleteEntry(p)
    PROVE  Inv'
<1>1. PICK o \in Ops : o = op[p]
  BY DEF Inv, Tables, TableTypes
<1>2. /\ o.pc = "recDelete" /\ o.pc \in Reconciling /\ o.pc \in Staging /\ o.cur \in o.todo /\ o.todo \subseteq Entry
      /\ UNCHANGED <<adapters, journal, lock>>
  BY <1>1, FieldTypes DEF deleteEntry, Inv, Local, PlaceInv, Reconciling, Staging
<1>3. PICK e \in Entry : e = o.cur
  BY <1>2
<1>4. Key(e) \in Keys
  BY KeyFacts
<1>5. PICK out \in {"done", "error"} :
        /\ Delete(out, Key(e), e.idx, op[p].cancelled)
        /\ IF out = "done" THEN drop(p, e, FALSE) ELSE Step(p, [op[p] EXCEPT !.pc = "recVerify"])
  BY <1>1, <1>3 DEF deleteEntry, Key
<1>6. /\ routes' \in [Keys -> Route \cup {NoRoute}]
      /\ \A j \in Keys : routes'[j] \in {routes[j], NoRoute}
      /\ \A j \in Keys : j # Key(e) => routes'[j] = routes[j]
      /\ out = "done" => routes'[Key(e)] = NoRoute
      /\ Backed(journal)' /\ ForeignUnclaimed' /\ journal' \subseteq Entry
  BY <1>2, <1>4, <1>5, DeleteTells DEF Inv, Tables, TableTypes
<1>7. lock = p /\ lock' = p /\ o.transition = None
  BY <1>1, <1>2, WorkFacts
<1>8. \A k : Claims(k)' = Claims(k)
  BY <1>2 DEF Claims
<1>9. CASE out = "done"
  <2>1. PICK r \in Ops :
          /\ op' = [op EXCEPT ![p] = r]
          /\ SameTx(r, op[p]) /\ r.pc = "recEntry" /\ r.transition = op[p].transition /\ r.cur = NoEntry
          /\ r.todo = op[p].todo \ {e} /\ r.kept = op[p].kept /\ r.failed = (op[p].failed \/ FALSE)
    BY <1>5, <1>9, Dropped
  <2>2. PICK W : W = r.kept \cup r.todo
    OBVIOUS
  <2>3. W \subseteq Working(p) /\ \A x \in Working(p) : x \in W \/ x = e
    BY <2>1, <2>2 DEF Working
  <2>4. Backed(W)'
    <3>1. PICK V : V = Working(p)
      OBVIOUS
    <3>2. Backed(V)
      BY <1>1, <1>2, <3>1, WorkFacts
    <3>3. Backed(V)'
      BY <1>6, <3>2, ShrinkBacked
    <3>4. ~Owned(Key(e))'
      BY <1>6, <1>9, NamesAssumption DEF Owned, NoRoute, Key
    <3>5. QED
      BY <2>3, <3>1, <3>3, <3>4 DEF Backed, Key
  <2>5. \A x \in W : Claims(Key(x))' # {}
    BY <1>1, <1>2, <1>8, <2>3, WorkFacts
  <2>6. Moves(p, r)
    BY <1>1, <1>2, <2>1, WorkFacts DEF Moves, SameTx
  <2>7. "recEntry" \in Reconciling /\ "recEntry" \notin Staging
    BY DEF Reconciling, Staging
  <2>8. r.failed \/ \A x \in r.kept : x.luid # op[p].luid
    BY <1>1, <1>2, <2>1, WorkFacts
  <2>9. QED
    BY <1>1, <1>2, <1>6, <1>7, <2>1, <2>2, <2>4, <2>5, <2>6, <2>7, <2>8, WorkKeeps
<1>10. CASE out = "error"
  <2>1. PICK r : r = [o EXCEPT !.pc = "recVerify"]
    OBVIOUS
  <2>2. "recVerify" \in Places /\ "recVerify" \in Reconciling /\ "recVerify" \in Staging
    BY PlaceFacts DEF Reconciling, Staging
  <2>3. /\ r \in Ops /\ SameTx(r, o) /\ r.pc = "recVerify" /\ r.transition = o.transition /\ r.cur = o.cur
        /\ r.todo = o.todo /\ r.kept = o.kept /\ r.failed = o.failed
    BY <2>1, <2>2 DEF Ops, SameTx
  <2>4. Moves(p, r)
    BY <1>1, <1>2, <1>5, <1>10, <2>1, <2>3, WorkFacts DEF Moves, SameTx, Step
  <2>5. PICK W : W = Working(p)
    OBVIOUS
  <2>6. W = r.kept \cup r.todo
    BY <1>1, <2>3, <2>5 DEF Working
  <2>7. Backed(W)' /\ \A x \in W : Claims(Key(x))' # {}
    BY <1>1, <1>2, <1>6, <1>8, <2>5, WorkFacts, ShrinkBacked
  <2>8. routes'[Key(r.cur)].by \notin Procs \ {p}
    BY <1>1, <1>2, <1>3, <1>4, <1>6, <2>3, NamesAssumption DEF Inv, Local, HeldInv, NoRoute
  <2>9. r.failed \/ \A x \in r.kept : x.luid # op[p].luid
    BY <1>1, <1>2, <2>3, WorkFacts
  <2>10. QED
    BY <1>1, <1>2, <1>6, <1>7, <2>2, <2>3, <2>4, <2>6, <2>7, <2>8, <2>9, WorkKeeps
<1>11. QED
  BY <1>9, <1>10

\* reconcileEnd: the installation starts only when no entry of the own adapter
\* was kept, hence no orphan is there.
LEMMA reconcileEndKeeps ==
    ASSUME Inv, NEW p \in Procs, reconcileEnd(p)
    PROVE  Inv'
<1>1. PICK o \in Ops : o = op[p]
  BY DEF Inv, Tables, TableTypes
<1>2. o.pc = "recEntry" /\ o.pc \in Reconciling /\ o.todo = {} /\ lock' = "free" /\ UNCHANGED <<routes, adapters>>
  BY <1>1 DEF reconcileEnd, Unlock, Reconciling
<1>3. PICK N : N = o.kept
  OBVIOUS
<1>4. N = Working(p) /\ N \subseteq Entry /\ Backed(N) /\ lock = p /\ o.transition = None
  BY <1>1, <1>2, <1>3, WorkFacts DEF Working
<1>5. PICK ok \in BOOLEAN :
        /\ LoadSave(ok, op[p].kept)
        /\ IF reconcileFails(p, ok) THEN giveUp(p)
           ELSE Step(p, [op[p] EXCEPT !.pc = "install", !.kept = {}])
  BY DEF reconcileEnd
<1>6. Backed(journal)' /\ ForeignUnclaimed' /\ journal' \subseteq Entry
  <2>1. journal' \in {journal, N}
    BY <1>1, <1>3, <1>5 DEF LoadSave
  <2>2. QED
    BY <1>1, <1>2, <1>4, <2>1, WorkFacts, SaveWork
<1>7. PICK r : r = IF reconcileFails(p, ok) THEN [o EXCEPT !.pc = "failed"] ELSE [o EXCEPT !.pc = "install", !.kept = {}]
  OBVIOUS
<1>8. op' = [op EXCEPT ![p] = r]
  BY <1>1, <1>5, <1>7 DEF giveUp, Step
<1>9. /\ r \in Ops /\ SameTx(r, o) /\ r.transition = None
      /\ \/ r.pc = "failed"
         \/ r.pc = "install" /\ ~o.failed
  <2>1. CASE reconcileFails(p, ok)
    BY <1>4, <1>7, <2>1, Jumps, PlaceFacts
  <2>2. CASE ~reconcileFails(p, ok)
    <3>1. ~o.failed
      BY <1>1, <2>2 DEF reconcileFails
    <3>2. r = [o EXCEPT !.pc = "install", !.kept = {}]
      BY <1>7, <2>2
    <3>3. r \in Ops /\ SameTx(r, o) /\ r.transition = o.transition /\ r.pc = "install"
      BY <3>2, PlaceFacts DEF Ops, SameTx
    <3>4. QED
      BY <1>4, <3>1, <3>3
  <2>3. QED
    BY <2>1, <2>2
<1>10. Moves(p, r) /\ op'[p] = r
  BY <1>1, <1>2, <1>4, <1>8, <1>9, WorkFacts DEF Moves, SameTx, Inv, Tables, TableTypes
<1>11. PlaceInv(p)'
  BY <1>1, <1>9, <1>10 DEF Moves, Inv, Local, PlaceInv, SameTx, Aiming, Claiming, Undoing, Removing, Early, Staging, Untied, Reconciling
<1>12. LockInv(p)'
  BY <1>9, <1>10 DEF LockInv, Locked, Claiming, Undoing, Removing, Staging, Reconciling
<1>13. HeldInv(p)'
  BY <1>9, <1>10 DEF HeldInv, Staging, Reconciling
<1>14. RouteInv(p)'
  <2>1. r.pc = "install" => \A k \in Keys : k[1] = op[p].luid => routes[k].by # "orphan"
    <3>1. SUFFICES ASSUME r.pc = "install", NEW k \in Keys, k[1] = op[p].luid, routes[k].by = "orphan"
                   PROVE  FALSE
      OBVIOUS
    <3>2. PICK e \in N : Key(e) = k
      BY <1>4, <3>1 DEF Backed, Owned
    <3>3. e.luid = op[p].luid
      BY <1>4, <3>1, <3>2, KeyFacts
    <3>4. QED
      BY <1>1, <1>2, <1>3, <1>9, <3>1, <3>3, WorkFacts
  <2>2. QED
    BY <1>1, <1>2, <1>9, <1>10, <2>1 DEF Inv, Local, RouteInv, SameTx
<1>15. \A k \in Keys : RouteChange(p, k)
  BY <1>2 DEF RouteChange
<1>16. routes' \in [Keys -> Route \cup {NoRoute}]
  BY <1>2 DEF Inv, Tables, TableTypes
<1>17. QED
  BY <1>4, <1>6, <1>10, <1>11, <1>12, <1>13, <1>14, <1>15, <1>16, MoveKeeps

-----------------------------------------------------------------------------
(* Steps of the installation and of the rollback that write the journal.   *)

\* To a place where nothing is held, with the journal rewritten.
LEMMA CalmWriteKeeps ==
    ASSUME Inv, NEW p \in Procs, NEW r, Moves(p, r), UNCHANGED routes,
           lock \in {p, "free"}, journal' \subseteq Entry, Backed(journal)', ForeignUnclaimed',
           r.pc = "rollback", r.transition = None \/ (r.transition = op[p].transition /\ lock' = lock),
           RouteInv(p)'
    PROVE  Inv'
<1>1. op'[p] = r
  BY DEF Moves, Inv, Tables, TableTypes
<1>2. PlaceInv(p)'
  BY <1>1 DEF Moves, Inv, Local, PlaceInv, Aiming, Claiming, Undoing, Removing, Early, Staging, Untied, Reconciling
<1>3. LockInv(p)'
  BY <1>1 DEF Inv, Local, LockInv, Locked, Claiming, Undoing, Removing, Staging, Reconciling
<1>4. HeldInv(p)'
  BY <1>1 DEF HeldInv, Staging, Reconciling
<1>5. \A k \in Keys : RouteChange(p, k)
  BY DEF RouteChange
<1>6. routes' \in [Keys -> Route \cup {NoRoute}]
  BY DEF Inv, Tables, TableTypes
<1>7. QED
  BY <1>2, <1>3, <1>4, <1>5, <1>6, MoveKeeps

\* The release of claims on a route that is not Tachyon's.
LEMMA ReleaseWrite ==
    ASSUME Inv, NEW k \in Keys, ~Owned(k), NEW ok \in BOOLEAN, LoadSave(ok, journal \ Claims(k)), UNCHANGED routes
    PROVE  Backed(journal)' /\ ForeignUnclaimed' /\ journal' \subseteq Entry
<1>1. PICK N : N = journal \ Claims(k)
  OBVIOUS
<1>2. journal' \in {journal, N}
  BY <1>1 DEF LoadSave
<1>3. N \subseteq Entry /\ \A x \in N : Claims(Key(x)) # {}
  BY <1>1 DEF Inv, Tables, TableTypes, Claims, Key
<1>4. \A x \in journal : Owned(Key(x)) => \E y \in N : Key(y) = Key(x)
  BY <1>1 DEF Claims, Key
<1>5. \A y \in N : \E x \in journal : Key(x) = Key(y) /\ x.idx = y.idx
  BY <1>1
<1>6. Backed(N)
  BY <1>4, <1>5, Rework DEF Inv, Tables
<1>7. QED
  BY <1>2, <1>3, <1>6, SaveWork

\* prepareSave: the claim is the only entry of its destination and is written
\* before the route exists.
LEMMA prepareSaveKeeps ==
    ASSUME Inv, NEW p \in Procs, prepareSave(p)
    PROVE  Inv'
<1>1. PICK o \in Ops : o = op[p]
  BY DEF Inv, Tables, TableTypes
<1>2. /\ o.pc = "prepareSave" /\ o.transition = None /\ o.pos <= Len(Plan[p]) /\ o.luid \in LUIDs /\ o.idx \in 1..MaxIndex
      /\ lock = p /\ UNCHANGED <<routes, adapters>>
  BY <1>1 DEF prepareSave, Inv, Local, PlaceInv, LockInv, Untied, Aiming, Claiming, Locked
<1>3. InTx(o.pc)
  BY <1>2 DEF InTx, Early, Reconciling, Staging
<1>4. PICK d \in Dests, k \in Keys : d = Target(p) /\ k = Own(p, d)
  BY <1>1, <1>2, AimFacts DEF Aiming, Claiming
<1>5. CASE unwind(p) /\ Unlock /\ UNCHANGED journal
  BY <1>1, <1>2, <1>3, <1>5, UnwindKeeps DEF Unlock
<1>6. CASE /\ \A e \in journal : e.prefix # Target(p)
           /\ \E ok \in BOOLEAN :
                /\ LoadSave(ok, journal \cup {claim(p, "pending")})
                /\ IF ok THEN UNCHANGED lock /\ Step(p, [op[p] EXCEPT !.pc = "add", !.transition = Target(p)])
                         ELSE Unlock /\ unwind(p)
  <2>1. PICK c : c = claim(p, "pending")
    OBVIOUS
  <2>2. c \in Entry /\ Key(c) = k /\ c.idx = o.idx
    BY <1>1, <1>2, <1>4, <2>1 DEF claim, Entry, States, Key, Own
  <2>3. Claims(k) = {}
    BY <1>4, <1>6 DEF Claims, Own
  <2>4. ~Owned(k)
    BY <2>3 DEF Inv, Tables, Backed, Claims, Key
  <2>5. PICK ok \in BOOLEAN :
          /\ LoadSave(ok, journal \cup {c})
          /\ IF ok THEN UNCHANGED lock /\ Step(p, [op[p] EXCEPT !.pc = "add", !.transition = d])
                   ELSE Unlock /\ unwind(p)
    BY <1>4, <1>6, <2>1
  <2>6. journal' \in {journal, journal \cup {c}}
    BY <2>5 DEF LoadSave
  <2>7. journal' \subseteq Entry
    BY <2>2, <2>6 DEF Inv, Tables, TableTypes
  <2>8. Backed(journal)'
    <3>1. \A j \in Keys : Owned(j)' => Owned(j) /\ j # k /\ routes'[j] = routes[j]
      BY <1>2, <2>4 DEF Owned
    <3>2. \A e \in journal' : Key(e) # k => e \in journal
      BY <2>2, <2>6
    <3>3. journal \subseteq journal'
      BY <2>6
    <3>4. QED
      BY <3>1, <3>2, <3>3 DEF Inv, Tables, Backed, Key
  <2>9. ForeignUnclaimed'
    <3>1. routes[k].by # "foreign"
      BY <1>1, <1>2, <1>4 DEF Inv, Local, HeldInv
    <3>2. \A j \in Keys : j # k => Claims(j)' = Claims(j)
      BY <2>2, <2>6 DEF Claims, Key
    <3>3. QED
      BY <1>2, <3>1, <3>2 DEF Inv, Tables, ForeignUnclaimed
  <2>10. CASE ok
    <3>1. PICK r : r = [o EXCEPT !.pc = "add", !.transition = d]
      OBVIOUS
    <3>2. PICK x \in Places : x = "add"
      BY PlaceFacts DEF Claiming
    <3>a. r = [o EXCEPT !.pc = x, !.transition = d]
      BY <3>1, <3>2
    <3>3. r \in Ops /\ SameTx(r, o) /\ r.pc = "add" /\ r.transition = d
      BY <3>2, <3>a DEF Ops, SameTx
    <3>4. Moves(p, r) /\ op'[p] = r
      BY <1>1, <1>2, <2>5, <2>10, <3>1, <3>3 DEF Moves, SameTx, Step, Inv, Tables, TableTypes
    <3>5. Target(p)' = d /\ Own(p, d)' = k /\ claim(p, "pending")' = c
      BY <1>1, <1>4, <2>1, <3>3, <3>4 DEF Target, Own, claim, SameTx
    <3>6. PlaceInv(p)'
      BY <1>1, <1>2, <3>3, <3>4 DEF PlaceInv, SameTx, Aiming, Claiming, Undoing, Removing, Early, Staging, Untied, Reconciling
    <3>7. LockInv(p)'
      BY <1>2, <2>5, <2>10 DEF LockInv
    <3>8. RouteInv(p)'
      BY <1>1, <1>2, <1>3, <3>3, <3>4, RoutesFollow, SameTxRemembers
    <3>9. HeldInv(p)'
      <4>1. Claims(k)' = {c}
        BY <2>2, <2>3, <2>5, <2>10 DEF Claims, LoadSave, Key
      <4>2. ~Owned(k)'
        BY <1>2, <2>4 DEF Owned
      <4>3. QED
        BY <3>3, <3>4, <3>5, <4>1, <4>2 DEF HeldInv, Staging, Reconciling
    <3>10. \A j \in Keys : RouteChange(p, j)
      BY <1>2 DEF RouteChange
    <3>11. routes' \in [Keys -> Route \cup {NoRoute}]
      BY <1>2 DEF Inv, Tables, TableTypes
    <3>12. QED
      BY <1>2, <2>7, <2>8, <2>9, <3>4, <3>6, <3>7, <3>8, <3>9, <3>10, <3>11, MoveKeeps
  <2>11. CASE ~ok
    <3>1. PICK r : r = [o EXCEPT !.pc = "rollback", !.failed = TRUE]
      OBVIOUS
    <3>2. r \in Ops /\ SameTx(r, o) /\ r.pc = "rollback" /\ r.transition = None
      BY <1>2, <3>1, Unwinds
    <3>3. Moves(p, r)
      BY <1>1, <1>2, <2>5, <2>11, <3>1, <3>2 DEF unwind, Unlock, Step, Moves, SameTx
    <3>4. RouteInv(p)'
      BY <1>1, <1>2, <1>3, <3>2, <3>3, RoutesFollow, SameTxRemembers
    <3>5. QED
      BY <1>2, <2>7, <2>8, <2>9, <3>2, <3>3, <3>4, CalmWriteKeeps
  <2>12. QED
    BY <2>10, <2>11
<1>7. QED
  BY <1>5, <1>6 DEF prepareSave

\* The routes of a step that changes none of them.
LEMMA SameRoutes ==
    ASSUME Inv, NEW p \in Procs, UNCHANGED routes
    PROVE  routes' \in [Keys -> Route \cup {NoRoute}] /\ \A k \in Keys : RouteChange(p, k)
BY DEF Inv, Tables, TableTypes, RouteChange

\* record: the claim becomes active; a failed write goes on to undo the route,
\* under the lock.
LEMMA recordKeeps ==
    ASSUME Inv, NEW p \in Procs, record(p)
    PROVE  Inv'
<1>1. PICK o \in Ops : o = op[p]
  BY DEF Inv, Tables, TableTypes
<1>2. /\ o.pc = "record" /\ o.pos <= Len(Plan[p]) /\ o.luid \in LUIDs /\ o.idx \in 1..MaxIndex /\ lock = p
      /\ o.installed # <<>> /\ Last(o.installed) = Target(p) /\ Claims(Own(p, Target(p))) = {claim(p, "pending")}
      /\ UNCHANGED <<routes, adapters>>
  BY <1>1 DEF record, Inv, Local, PlaceInv, LockInv, HeldInv, Aiming, Claiming, Locked
<1>3. InTx(o.pc)
  BY <1>2 DEF InTx, Early, Reconciling, Staging
<1>4. PICK n : n = [o EXCEPT !.addErr = o.cancelled]
  OBVIOUS
<1>5. n \in Ops /\ SameTx(n, o)
  BY <1>4 DEF Ops, SameTx
<1>6. CASE finish(p, [n EXCEPT !.pc = "rollback", !.failed = TRUE]) /\ UNCHANGED journal
  BY <1>1, <1>2, <1>3, <1>5, <1>6, UndoFailsKeeps
<1>7. CASE \E ok \in BOOLEAN :
             /\ LoadSave(ok, (journal \ {claim(p, "pending")}) \cup {claim(p, "active")})
             /\ IF ok THEN finish(p, [n EXCEPT !.pc = "readback"])
                      ELSE UNCHANGED lock /\ Step(p, [n EXCEPT !.pc = "undoRead"])
  <2>1. PICK b, c : b = claim(p, "pending") /\ c = claim(p, "active")
    OBVIOUS
  <2>2. PICK d \in Dests : d = Target(p)
    BY <1>1, <1>2, AimFacts DEF Aiming, Claiming
  <2>3. b \in journal /\ c \in Entry /\ Key(c) = Key(b) /\ c.idx = b.idx
    BY <1>1, <1>2, <2>1, <2>2 DEF Claims, claim, Entry, States, Key
  <2>4. PICK N : N = (journal \ {b}) \cup {c}
    OBVIOUS
  <2>5. /\ N \subseteq Entry
        /\ \A y \in N : \E x \in journal : Key(x) = Key(y) /\ x.idx = y.idx
        /\ \A x \in journal : \E y \in N : Key(y) = Key(x)
    BY <2>3, <2>4 DEF Inv, Tables, TableTypes
  <2>6. Backed(N)
    BY <2>5, Rework DEF Inv, Tables
  <2>7. \A x \in N : Claims(Key(x)) # {}
    BY <2>5 DEF Claims, Key
  <2>8. PICK ok \in BOOLEAN :
          /\ LoadSave(ok, (journal \ {claim(p, "pending")}) \cup {claim(p, "active")})
          /\ IF ok THEN finish(p, [n EXCEPT !.pc = "readback"])
                   ELSE UNCHANGED lock /\ Step(p, [n EXCEPT !.pc = "undoRead"])
    BY <1>7
  <2>9. journal' \in {journal, N}
    BY <2>1, <2>4, <2>8 DEF LoadSave
  <2>a. UNCHANGED routes
    BY <1>2
  <2>b. N \subseteq Entry
    BY <2>5
  <2>10. Backed(journal)' /\ ForeignUnclaimed' /\ journal' \subseteq Entry
    BY <2>a, <2>b, <2>6, <2>7, <2>9, SaveWork
  <2>11. CASE ok
    <3>1. PICK u : u = [n EXCEPT !.pc = "readback"]
      OBVIOUS
    <3>2. u \in Ops /\ SameTx(u, n) /\ u.pc = "readback"
      BY <1>5, <3>1, Jumps, PlaceFacts
    <3>3. PICK r : r = [u EXCEPT !.transition = None]
      OBVIOUS
    <3>4. r \in Ops /\ SameTx(r, u) /\ r.pc = "readback" /\ r.transition = None
      BY <3>2, <3>3, Unties
    <3>5. SameTx(r, o)
      BY <1>5, <3>2, <3>4 DEF SameTx
    <3>6. op' = [op EXCEPT ![p] = r] /\ lock' = "free" /\ op'[p] = r
      BY <2>8, <2>11, <3>1, <3>3 DEF finish, Unlock, Step, Inv, Tables, TableTypes
    <3>7. Moves(p, r)
      BY <1>1, <1>2, <3>4, <3>5, <3>6 DEF Moves, SameTx
    <3>8. PlaceInv(p)'
      BY <1>2, <3>4, <3>5, <3>6 DEF PlaceInv, SameTx, Undoing, Removing, Early, Staging, Reconciling
    <3>9. LockInv(p)'
      BY <3>4, <3>6 DEF LockInv, Locked, Claiming, Undoing, Removing, Staging, Reconciling
    <3>10. RouteInv(p)'
      BY <1>1, <1>2, <1>3, <3>5, <3>7, RoutesFollow, SameTxRemembers
    <3>11. HeldInv(p)'
      BY <3>4, <3>6 DEF HeldInv, Staging, Reconciling
    <3>12. QED
      BY <1>2, <2>10, <3>7, <3>8, <3>9, <3>10, <3>11, SameRoutes, MoveKeeps
  <2>12. CASE ~ok
    <3>1. PICK r : r = [n EXCEPT !.pc = "undoRead"]
      OBVIOUS
    <3>2. "undoRead" \in Places
      BY PlaceFacts DEF Undoing
    <3>3. r \in Ops /\ SameTx(r, n) /\ r.pc = "undoRead"
      BY <1>5, <3>1, <3>2, Jumps
    <3>4. SameTx(r, o)
      BY <1>5, <3>3 DEF SameTx
    <3>5. op' = [op EXCEPT ![p] = r] /\ lock' = p /\ op'[p] = r
      BY <1>2, <2>8, <2>12, <3>1 DEF Step, Inv, Tables, TableTypes
    <3>6. Moves(p, r)
      BY <1>1, <1>2, <3>3, <3>4, <3>5 DEF Moves, SameTx
    <3>7. Target(p)' = Target(p)
      BY <1>1, <3>4, <3>5 DEF Target, SameTx
    <3>8. PlaceInv(p)'
      BY <1>2, <3>3, <3>4, <3>5, <3>7 DEF PlaceInv, SameTx, Removing, Early, Staging, Reconciling, Untied
    <3>9. LockInv(p)'
      BY <3>5 DEF LockInv
    <3>10. RouteInv(p)'
      BY <1>1, <1>2, <1>3, <3>4, <3>6, RoutesFollow, SameTxRemembers
    <3>11. HeldInv(p)'
      BY <3>3, <3>5 DEF HeldInv, Staging, Reconciling
    <3>12. QED
      BY <1>2, <2>10, <3>6, <3>8, <3>9, <3>10, <3>11, SameRoutes, MoveKeeps
  <2>13. QED
    BY <2>11, <2>12
<1>8. QED
  BY <1>1, <1>4, <1>6, <1>7 DEF record

\* A route that is gone may be forgotten.
LEMMA RoutesForget ==
    ASSUME Inv, NEW p \in Procs, NEW r, Moves(p, r), UNCHANGED routes, InTx(op[p].pc),
           NEW d, ~Owned(Own(p, d)),
           \A x : Contains(op[p].installed, x) \/ Contains(op[p].remaining, x) =>
               x = d \/ Contains(r.installed, x) \/ Contains(r.remaining, x)
    PROVE  RouteInv(p)'
<1>1. op'[p] = r
  BY DEF Moves, Inv, Tables, TableTypes
<1>2. ASSUME NEW k \in Keys, routes[k].by = p
      PROVE  /\ k[1] = r.luid /\ routes[k].idx = r.idx
             /\ Contains(r.installed, k[2]) \/ Contains(r.remaining, k[2])
  <2>1. k[1] = op[p].luid /\ routes[k].idx = op[p].idx /\ (Contains(op[p].installed, k[2]) \/ Contains(op[p].remaining, k[2]))
    BY <1>2 DEF Inv, Local, RouteInv
  <2>2. k[2] # d
    BY <1>2, <2>1, KeyFacts DEF Owned, Own
  <2>3. QED
    BY <2>1, <2>2 DEF Moves
<1>3. QED
  BY <1>1, <1>2 DEF Moves, Inv, Local, RouteInv, InTx

\* releaseIntent: the route was never created, its claim may go.
LEMMA releaseIntentKeeps ==
    ASSUME Inv, NEW p \in Procs, releaseIntent(p)
    PROVE  Inv'
<1>1. PICK o \in Ops : o = op[p]
  BY DEF Inv, Tables, TableTypes
<1>2. o.pc = "releaseIntent" /\ lock = p /\ ~Owned(Own(p, Target(p))) /\ UNCHANGED <<routes, adapters>>
  BY <1>1 DEF releaseIntent, Inv, Local, LockInv, HeldInv, Claiming, Locked
<1>3. InTx(o.pc) /\ Own(p, Target(p)) \in Keys
  BY <1>1, <1>2, AimFacts DEF InTx, Early, Reconciling, Staging, Aiming, Claiming
<1>4. Backed(journal)' /\ ForeignUnclaimed' /\ journal' \subseteq Entry
  BY <1>2, <1>3, ReleaseWrite DEF releaseIntent
<1>5. PICK u : u = [o EXCEPT !.pc = "rollback", !.failed = TRUE]
  OBVIOUS
<1>6. u \in Ops /\ SameTx(u, o) /\ u.pc = "rollback"
  BY <1>5, Unwinds
<1>7. PICK r : r = [u EXCEPT !.transition = None]
  OBVIOUS
<1>8. r \in Ops /\ SameTx(r, u) /\ r.pc = "rollback" /\ r.transition = None
  BY <1>6, <1>7, Unties
<1>9. SameTx(r, o)
  BY <1>6, <1>8 DEF SameTx
<1>10. op' = [op EXCEPT ![p] = r] /\ lock' = "free"
  BY <1>1, <1>5, <1>7 DEF releaseIntent, finish, Unlock, Step
<1>11. Moves(p, r)
  BY <1>1, <1>2, <1>8, <1>9, <1>10 DEF Moves, SameTx
<1>12. RouteInv(p)'
  BY <1>1, <1>2, <1>3, <1>9, <1>11, RoutesFollow, SameTxRemembers
<1>13. QED
  BY <1>2, <1>4, <1>8, <1>11, <1>12, CalmWriteKeeps

\* undoSave: the undone route leaves the journal and the transaction together.
LEMMA undoSaveKeeps ==
    ASSUME Inv, NEW p \in Procs, undoSave(p)
    PROVE  Inv'
<1>1. PICK o \in Ops : o = op[p]
  BY DEF Inv, Tables, TableTypes
<1>2. /\ o.pc = "undoSave" /\ ~Owned(Own(p, Target(p))) /\ o.installed # <<>> /\ Last(o.installed) = Target(p)
      /\ UNCHANGED <<routes, adapters>>
  BY <1>1 DEF undoSave, Inv, Local, PlaceInv, HeldInv, Undoing
<1>3. InTx(o.pc) /\ lock = p /\ Own(p, Target(p)) \in Keys
  BY <1>1, <1>2, UndoFacts DEF Undoing
<1>4. Backed(journal)' /\ ForeignUnclaimed' /\ journal' \subseteq Entry
  BY <1>2, <1>3, ReleaseWrite DEF undoSave
<1>5. o.installed \in Seq(Dests) /\ o.remaining \in Seq(Dests) /\ "rollback" \in Places
  BY FieldTypes, PlaceFacts
<1>6. PICK f \in Seq(Dests) : f = Front(o.installed)
  BY <1>2, <1>5, FrontFacts
<1>7. PICK u : u = [o EXCEPT !.pc = "rollback", !.failed = TRUE, !.installed = f]
  OBVIOUS
<1>8. u \in Ops /\ u.pc = "rollback" /\ u.luid = o.luid /\ u.idx = o.idx /\ u.installed = f /\ u.remaining = o.remaining
  BY <1>5, <1>7 DEF Ops
<1>9. PICK r : r = [u EXCEPT !.transition = None]
  OBVIOUS
<1>10. r \in Ops /\ SameTx(r, u) /\ r.pc = "rollback" /\ r.transition = None
  BY <1>8, <1>9, Unties
<1>11. op' = [op EXCEPT ![p] = r] /\ lock' = "free"
  BY <1>1, <1>6, <1>7, <1>9 DEF undoSave, finish, Unlock, Step
<1>12. Moves(p, r)
  BY <1>1, <1>2, <1>3, <1>8, <1>10, <1>11 DEF Moves, SameTx
<1>13. \A x : Contains(o.installed, x) \/ Contains(o.remaining, x) =>
             x = Target(p) \/ Contains(r.installed, x) \/ Contains(r.remaining, x)
  <2>1. \A x : Contains(o.installed, x) => x = Target(p) \/ Contains(f, x)
    BY <1>2, <1>5, <1>6, FrontFacts
  <2>2. r.installed = f /\ r.remaining = o.remaining
    BY <1>8, <1>10 DEF SameTx
  <2>3. QED
    BY <2>1, <2>2
<1>14. RouteInv(p)'
  BY <1>1, <1>2, <1>3, <1>12, <1>13, RoutesForget
<1>15. QED
  BY <1>2, <1>3, <1>4, <1>10, <1>12, <1>14, CalmWriteKeeps

\* rollbackRelease: the removed route leaves the journal and the transaction
\* together.
LEMMA rollbackReleaseKeeps ==
    ASSUME Inv, NEW p \in Procs, rollbackRelease(p)
    PROVE  Inv'
<1>1. PICK o \in Ops : o = op[p]
  BY DEF Inv, Tables, TableTypes
<1>2. o.pc = "rbRelease" /\ ~Owned(Own(p, Victim(p))) /\ UNCHANGED <<routes, adapters>>
  BY <1>1 DEF rollbackRelease, Inv, Local, HeldInv
<1>3. InTx(o.pc) /\ lock = p /\ Own(p, Victim(p)) \in Keys /\ o.installed # <<>> /\ Victim(p) = Last(o.installed)
  BY <1>1, <1>2, RemovalFacts DEF Removing, Victim
<1>4. Backed(journal)' /\ ForeignUnclaimed' /\ journal' \subseteq Entry
  BY <1>2, <1>3, ReleaseWrite DEF rollbackRelease
<1>5. PICK u : u = visited(o)
  OBVIOUS
<1>6. /\ u \in Ops /\ u.pc = "rollback" /\ u.luid = o.luid /\ u.idx = o.idx
      /\ \A x : Contains(o.installed, x) \/ Contains(o.remaining, x) =>
             x = Victim(p) \/ Contains(u.installed, x) \/ Contains(u.remaining, x)
  BY <1>3, <1>5, Visits
<1>7. PICK r : r = [u EXCEPT !.transition = None]
  OBVIOUS
<1>8. r \in Ops /\ SameTx(r, u) /\ r.pc = "rollback" /\ r.transition = None
  BY <1>6, <1>7, Unties
<1>9. op' = [op EXCEPT ![p] = r] /\ lock' = "free"
  BY <1>1, <1>5, <1>7 DEF rollbackRelease, finish, Unlock, Step
<1>10. Moves(p, r)
  BY <1>1, <1>2, <1>3, <1>6, <1>8, <1>9 DEF Moves, SameTx
<1>11. RouteInv(p)'
  BY <1>1, <1>2, <1>3, <1>6, <1>8, <1>10, RoutesForget DEF SameTx
<1>12. QED
  BY <1>2, <1>3, <1>4, <1>8, <1>10, <1>11, CalmWriteKeeps

\* A delete of the process's own route, with the entry of the route kept.
LEMMA DeleteMoves ==
    ASSUME Inv, NEW p \in Procs, NEW k \in Keys, NEW out \in {"done", "error"}, Delete(out, k, op[p].idx, FALSE),
           UNCHANGED <<adapters, journal, lock>>, NEW c, Step(p, [op[p] EXCEPT !.pc = c]),
           \/ op[p].pc \in Undoing /\ c \in {"undoSave", "undoVerify"} /\ k = Own(p, Target(p))
           \/ op[p].pc \in Removing /\ c \in {"rbRelease", "rbVerify"} /\ k = Own(p, Victim(p)),
           c \in {"undoSave", "rbRelease"} => out = "done"
    PROVE  Inv'
<1>1. PICK o \in Ops : o = op[p]
  BY DEF Inv, Tables, TableTypes
<1>2. PICK r : r = [o EXCEPT !.pc = c]
  OBVIOUS
<1>3. c \in Places /\ c \notin Untied \cup Early \cup Reconciling \cup {"closed", "record", "add", "releaseIntent", "down"}
  BY PlaceFacts DEF Undoing, Removing, Untied, Early, Reconciling, Staging
<1>4. r \in Ops /\ SameTx(r, o) /\ r.pc = c /\ r.transition = o.transition
  BY <1>2, <1>3, Jumps
<1>5. lock = p /\ InTx(o.pc) /\ o.pc # "down"
  BY <1>1, UndoFacts, RemovalFacts DEF InTx, Early
<1>6. op' = [op EXCEPT ![p] = r] /\ op'[p] = r
  BY <1>1, <1>2 DEF Step, Inv, Tables, TableTypes
<1>7. Moves(p, r)
  BY <1>1, <1>3, <1>4, <1>5, <1>6 DEF Moves, SameTx
<1>8. /\ routes' \in [Keys -> Route \cup {NoRoute}]
      /\ \A j \in Keys : routes'[j] \in {routes[j], NoRoute}
      /\ out = "done" => routes'[k] = NoRoute
      /\ Backed(journal)' /\ ForeignUnclaimed' /\ journal' \subseteq Entry
  BY DeleteTells DEF Inv, Tables, TableTypes
<1>9. \A j \in Keys : RouteChange(p, j)
  BY <1>8 DEF RouteChange
<1>10. Target(p)' = Target(p) /\ Victim(p)' = Victim(p) /\ \A x : Own(p, x)' = Own(p, x)
  BY <1>1, <1>4, <1>6 DEF Target, Victim, Own, SameTx
<1>11. PlaceInv(p)'
  <2>1. o.luid \in LUIDs /\ o.idx \in 1..MaxIndex /\ o.installed # <<>>
    BY <1>1, <1>5, RemovalFacts DEF Inv, Local, PlaceInv
  <2>2. c \in Aiming \cup Undoing => o.pos <= Len(Plan[p]) /\ Last(o.installed) = Target(p)
    BY <1>1, UndoFacts DEF Inv, Local, PlaceInv, Removing, Aiming, Claiming, Undoing
  <2>3. QED
    BY <1>1, <1>3, <1>4, <1>6, <1>10, <2>1, <2>2 DEF PlaceInv, SameTx, Reconciling
<1>12. LockInv(p)'
  BY <1>5 DEF LockInv
<1>13. RouteInv(p)'
  BY <1>1, <1>4, <1>5, <1>7, <1>8, RoutesShrink, SameTxRemembers
<1>14. HeldInv(p)'
  <2>1. out = "done" => ~Owned(k)'
    BY <1>8, NamesAssumption DEF Owned, NoRoute
  <2>2. c = "undoSave" => ~Owned(Own(p, Target(p)))'
    BY <1>10, <2>1 DEF Undoing, Removing
  <2>3. c = "rbRelease" => ~Owned(Own(p, Victim(p)))'
    BY <1>10, <2>1 DEF Undoing, Removing
  <2>4. QED
    BY <1>3, <1>4, <1>6, <2>2, <2>3 DEF HeldInv, Untied, Reconciling
<1>15. QED
  BY <1>7, <1>8, <1>9, <1>11, <1>12, <1>13, <1>14, MoveKeeps

\* undoDelete: the row of a failed record is deleted, its entry is kept.
LEMMA undoDeleteKeeps ==
    ASSUME Inv, NEW p \in Procs, undoDelete(p)
    PROVE  Inv'
<1>1. op[p].pc \in Undoing /\ UNCHANGED <<adapters, journal, lock>>
  BY DEF undoDelete, Undoing
<1>2. PICK out \in {"done", "error"} :
        /\ Delete(out, Own(p, Target(p)), op[p].idx, FALSE)
        /\ Step(p, [op[p] EXCEPT !.pc = IF out = "done" THEN "undoSave" ELSE "undoVerify"])
  BY DEF undoDelete
<1>3. PICK c : c = IF out = "done" THEN "undoSave" ELSE "undoVerify"
  OBVIOUS
<1>4. PICK k \in Keys : k = Own(p, Target(p))
  BY <1>1, UndoFacts
<1>5. QED
  BY <1>1, <1>2, <1>3, <1>4, DeleteMoves

\* rollbackDelete: the row of a removal is deleted, its entry is kept.
LEMMA rollbackDeleteKeeps ==
    ASSUME Inv, NEW p \in Procs, rollbackDelete(p)
    PROVE  Inv'
<1>1. op[p].pc \in Removing /\ UNCHANGED <<adapters, journal, lock>>
  BY DEF rollbackDelete, Removing
<1>2. PICK out \in {"done", "error"} :
        /\ Delete(out, Own(p, Victim(p)), op[p].idx, FALSE)
        /\ Step(p, [op[p] EXCEPT !.pc = IF out = "done" THEN "rbRelease" ELSE "rbVerify"])
  BY DEF rollbackDelete
<1>3. PICK c : c = IF out = "done" THEN "rbRelease" ELSE "rbVerify"
  OBVIOUS
<1>4. PICK k \in Keys : k = Own(p, Victim(p))
  BY <1>1, RemovalFacts
<1>5. QED
  BY <1>1, <1>2, <1>3, <1>4, DeleteMoves

\* prepareDeletion: the entry stays, as deleting; without an entry, or without
\* the lock, the destination is retained.
LEMMA prepareDeletionKeeps ==
    ASSUME Inv, NEW p \in Procs, prepareDeletion(p)
    PROVE  Inv'
<1>1. PICK o \in Ops : o = op[p]
  BY DEF Inv, Tables, TableTypes
<1>2. o.pc = "rollback" /\ o.installed # <<>> /\ UNCHANGED <<routes, adapters>>
  BY <1>1 DEF prepareDeletion
<1>3. InTx(o.pc)
  BY <1>2 DEF InTx, Early, Reconciling, Staging
<1>4. CASE Step(p, retain(op[p])) /\ UNCHANGED <<journal, lock>>
  BY <1>1, <1>2, <1>3, <1>4, RetainKeeps
<1>5. CASE /\ lock = "free"
           /\ \E ok \in BOOLEAN :
                /\ LoadSave(ok, (journal \ deletable(p)) \cup {[e EXCEPT !.state = "deleting"] : e \in deletable(p)})
                /\ IF ok THEN lock' = p /\ Step(p, [op[p] EXCEPT !.pc = "rbRead", !.transition = Victim(p)])
                         ELSE UNCHANGED lock /\ Step(p, retain(op[p]))
  <2>1. PICK D : D = deletable(p)
    OBVIOUS
  <2>2. PICK N : N = (journal \ D) \cup {[e EXCEPT !.state = "deleting"] : e \in D}
    OBVIOUS
  <2>3. D \subseteq journal /\ journal \subseteq Entry
    BY <2>1 DEF deletable, Claims, Inv, Tables, TableTypes
  <2>4. \A e \in Entry : /\ [e EXCEPT !.state = "deleting"] \in Entry
                         /\ Key([e EXCEPT !.state = "deleting"]) = Key(e) /\ [e EXCEPT !.state = "deleting"].idx = e.idx
    BY DEF Entry, Key, States
  <2>5. N \subseteq Entry
    BY <2>2, <2>3, <2>4
  <2>6. \A y \in N : \E x \in journal : Key(x) = Key(y) /\ x.idx = y.idx
    BY <2>2, <2>3, <2>4
  <2>7. \A x \in journal : \E y \in N : Key(y) = Key(x)
    BY <2>2, <2>3, <2>4
  <2>8. Backed(N)
    BY <2>6, <2>7, Rework DEF Inv, Tables
  <2>9. \A x \in N : Claims(Key(x)) # {}
    BY <2>6 DEF Claims, Key
  <2>10. PICK ok \in BOOLEAN :
           /\ LoadSave(ok, (journal \ deletable(p)) \cup {[e EXCEPT !.state = "deleting"] : e \in deletable(p)})
           /\ IF ok THEN lock' = p /\ Step(p, [op[p] EXCEPT !.pc = "rbRead", !.transition = Victim(p)])
                    ELSE UNCHANGED lock /\ Step(p, retain(op[p]))
    BY <1>5
  <2>11. journal' \in {journal, N}
    BY <2>1, <2>2, <2>10 DEF LoadSave
  <2>12. UNCHANGED routes
    BY <1>2
  <2>13. Backed(journal)' /\ ForeignUnclaimed' /\ journal' \subseteq Entry
    BY <2>5, <2>8, <2>9, <2>11, <2>12, SaveWork
  <2>14. CASE ok
    <3>1. PICK d \in Dests, x \in Places : d = Victim(p) /\ x = "rbRead"
      BY <1>1, <1>2, AimFacts, PlaceFacts DEF Removing
    <3>2. PICK r : r = [o EXCEPT !.pc = x, !.transition = d]
      OBVIOUS
    <3>3. r \in Ops /\ SameTx(r, o) /\ r.pc = "rbRead" /\ r.transition = d
      BY <3>1, <3>2 DEF Ops, SameTx
    <3>4. op' = [op EXCEPT ![p] = r] /\ op'[p] = r /\ lock' = p
      BY <1>1, <2>10, <2>14, <3>1, <3>2 DEF Step, Inv, Tables, TableTypes
    <3>5. Moves(p, r)
      BY <1>1, <1>2, <1>5, <3>3, <3>4 DEF Moves, SameTx
    <3>6. o.luid \in LUIDs /\ o.idx \in 1..MaxIndex
      BY <1>1, <1>2 DEF Inv, Local, PlaceInv
    <3>7. PlaceInv(p)'
      BY <1>2, <3>3, <3>4, <3>6 DEF PlaceInv, SameTx, Aiming, Claiming, Undoing, Early, Staging, Untied, Reconciling
    <3>8. LockInv(p)'
      BY <3>4 DEF LockInv
    <3>9. RouteInv(p)'
      BY <1>1, <1>3, <2>12, <3>3, <3>5, RoutesFollow, SameTxRemembers
    <3>10. HeldInv(p)'
      BY <3>3, <3>4 DEF HeldInv, Staging, Reconciling
    <3>11. QED
      BY <1>5, <2>12, <2>13, <3>5, <3>7, <3>8, <3>9, <3>10, SameRoutes, MoveKeeps
  <2>15. CASE ~ok
    <3>1. PICK r : r = retain(o)
      OBVIOUS
    <3>2. /\ r \in Ops /\ r.pc = "rollback" /\ r.luid = o.luid /\ r.idx = o.idx /\ r.transition = o.transition
          /\ Remembers(r, o)
      BY <1>2, <3>1, Visits DEF Remembers
    <3>3. op' = [op EXCEPT ![p] = r] /\ lock' = lock
      BY <1>1, <2>10, <2>15, <3>1 DEF Step
    <3>4. Moves(p, r)
      BY <1>1, <1>2, <3>2, <3>3 DEF Moves
    <3>5. RouteInv(p)'
      BY <1>1, <1>3, <2>12, <3>2, <3>4, RoutesFollow
    <3>6. QED
      BY <1>1, <1>5, <2>12, <2>13, <3>2, <3>3, <3>4, <3>5, CalmWriteKeeps
  <2>16. QED
    BY <2>14, <2>15
<1>6. QED
  BY <1>4, <1>5 DEF prepareDeletion

-----------------------------------------------------------------------------
(* The steps that create routes, and those of the machine.                 *)

\* addCommits: the new route is described by the pending claim, which is the
\* only one on its row.
LEMMA addCommitsKeeps ==
    ASSUME Inv, NEW p \in Procs, addCommits(p)
    PROVE  Inv'
<1>1. PICK o \in Ops : o = op[p]
  BY DEF Inv, Tables, TableTypes
<1>2. /\ o.pc = "add" /\ o.pos <= Len(Plan[p]) /\ o.luid \in LUIDs /\ o.idx \in 1..MaxIndex /\ lock = p
      /\ Claims(Own(p, Target(p))) = {claim(p, "pending")}
      /\ UNCHANGED <<adapters, journal, lock>>
  BY <1>1 DEF addCommits, Inv, Local, PlaceInv, LockInv, HeldInv, Aiming, Claiming, Locked
<1>3. InTx(o.pc)
  BY <1>2 DEF InTx, Early, Reconciling, Staging
<1>4. PICK d \in Dests, k \in Keys : d = Target(p) /\ k = Own(p, d) /\ k[1] = o.luid /\ k[2] = d
  BY <1>1, <1>2, AimFacts DEF Aiming, Claiming, Own
<1>5. PICK R \in Route : R = [by |-> p, idx |-> o.idx, fits |-> TRUE]
  BY <1>2 DEF Route, Creators
<1>6. PICK b : b = claim(p, "pending")
  OBVIOUS
<1>7. routes' = [routes EXCEPT ![k] = R] /\ routes \in [Keys -> Route \cup {NoRoute}]
  BY <1>1, <1>4, <1>5 DEF addCommits, Inv, Tables, TableTypes
<1>8. routes' \in [Keys -> Route \cup {NoRoute}] /\ routes'[k] = R /\ \A j \in Keys : j # k => routes'[j] = routes[j]
  BY <1>7
<1>9. R.by = p /\ R.idx = o.idx /\ R.fits
  BY <1>5
<1>10. PICK s \in Seq(Dests) : s = Append(o.installed, d)
  <2>1. o.installed \in Seq(Dests)
    BY FieldTypes
  <2>2. QED
    BY <2>1, AppendFacts
<1>11. s # <<>> /\ Last(s) = d /\ Contains(s, d) /\ \A x : Contains(o.installed, x) => Contains(s, x)
  BY <1>10, FieldTypes, AppendFacts
<1>12. PICK r : r = [o EXCEPT !.pc = "record", !.installed = s]
  OBVIOUS
<1>13. /\ r \in Ops /\ r.pc = "record" /\ r.luid = o.luid /\ r.idx = o.idx /\ r.pos = o.pos
       /\ r.installed = s /\ r.remaining = o.remaining
  <2>1. PICK c \in Places : c = "record"
    BY PlaceFacts DEF Claiming
  <2>2. r = [o EXCEPT !.pc = c, !.installed = s]
    BY <1>12, <2>1
  <2>3. QED
    BY <2>1, <2>2 DEF Ops
<1>14. op' = [op EXCEPT ![p] = r] /\ op'[p] = r
  BY <1>1, <1>4, <1>10, <1>12 DEF addCommits, Step, Inv, Tables, TableTypes
<1>15. Moves(p, r)
  BY <1>1, <1>2, <1>13, <1>14 DEF Moves
<1>16. Target(p)' = d /\ Own(p, d)' = k /\ claim(p, "pending")' = b /\ \A j : Claims(j)' = Claims(j)
  BY <1>1, <1>2, <1>4, <1>6, <1>13, <1>14 DEF Target, Own, claim, Claims
<1>17. Claims(k) = {b} /\ b.idx = o.idx
  BY <1>1, <1>2, <1>4, <1>6 DEF claim
<1>18. Backed(journal)'
  <2>1. \A j \in Keys : j # k => (Owned(j)' <=> Owned(j))
    BY <1>8 DEF Owned
  <2>2. b \in journal /\ Key(b) = k /\ \A e \in journal : Key(e) = k => e.idx = o.idx
    BY <1>17 DEF Claims, Key
  <2>3. QED
    BY <1>2, <1>8, <1>9, <2>1, <2>2 DEF Inv, Tables, Backed, Key
<1>19. ForeignUnclaimed'
  BY <1>8, <1>9, <1>16, NamesAssumption DEF Inv, Tables, ForeignUnclaimed
<1>20. PlaceInv(p)'
  BY <1>2, <1>11, <1>13, <1>14, <1>16 DEF PlaceInv, Removing, Early, Staging, Reconciling, Untied
<1>21. LockInv(p)'
  BY <1>2 DEF LockInv
<1>22. RouteInv(p)'
  <2>1. \A j \in Keys : routes[j].by = p =>
          /\ j[1] = o.luid /\ routes[j].idx = o.idx
          /\ Contains(s, j[2]) \/ Contains(o.remaining, j[2])
    BY <1>1, <1>11 DEF Inv, Local, RouteInv
  <2>2. \A j \in Keys : j[1] = o.luid => routes[j].by # "orphan"
    BY <1>1, <1>3 DEF Inv, Local, RouteInv, InTx
  <2>3. p # "orphan"
    BY NamesAssumption
  <2>4. QED
    BY <1>4, <1>8, <1>9, <1>11, <1>13, <1>14, <2>1, <2>2, <2>3 DEF RouteInv
<1>23. HeldInv(p)'
  BY <1>13, <1>14, <1>16, <1>17 DEF HeldInv, Staging, Reconciling
<1>24. \A j \in Keys : RouteChange(p, j)
  BY <1>2, <1>8, <1>9 DEF RouteChange
<1>25. QED
  BY <1>2, <1>8, <1>15, <1>18, <1>19, <1>20, <1>21, <1>22, <1>23, <1>24, MoveKeeps DEF Inv, Tables, TableTypes

\* A process that does not run.
LEMMA DownFacts ==
    /\ Down \in Ops /\ Down.pc = "down" /\ Down.installed = <<>> /\ Down.remaining = <<>>
    /\ Down.cur = NoEntry /\ Down.transition = None
<1>0. <<>> \in Seq(Dests)
  BY EmptySeq
<1>1. PICK e \in Seq(Dests) : e = <<>>
  BY <1>0, Zenon
<1>2. PICK c \in Places : c = "down"
  BY PlaceFacts DEF Early
<1>a. PICK n \in LUIDs \cup {None} : n = None
  OBVIOUS
<1>b. PICK m \in Dests \cup {None} : m = None
  OBVIOUS
<1>c. PICK x \in Entry \cup {NoEntry} : x = NoEntry
  OBVIOUS
<1>d. PICK s \in SUBSET Entry : s = {}
  OBVIOUS
<1>3. n = None /\ m = None /\ x = NoEntry /\ s = {}
  BY <1>a, <1>b, <1>c, <1>d
<1>4. Down = [pc |-> c, luid |-> n, idx |-> 0, cancelled |-> FALSE, failed |-> FALSE,
              pos |-> 1, installed |-> e, remaining |-> e, transition |-> m,
              addErr |-> FALSE, todo |-> s, kept |-> s, cur |-> x]
  BY <1>1, <1>2, <1>3 DEF Down
<1>5. 0 \in 0..MaxIndex /\ 1 \in Nat \ {0}
  BY BoundsAssumption
<1>6. Down \in Ops
  BY <1>4, <1>5 DEF Ops
<1>7. QED
  BY <1>1, <1>2, <1>3, <1>4, <1>6

\* start: the adapter is nobody's, and a process that was down owns no route.
LEMMA startKeeps ==
    ASSUME Inv, NEW p \in Procs, start(p)
    PROVE  Inv'
<1>1. op[p].pc = "down" /\ UNCHANGED <<routes, journal, lock>>
  BY DEF start, Live
<1>2. PICK l \in LUIDs, i \in 1..MaxIndex :
        /\ \A q \in Procs : op[q].pc # "down" => op[q].luid # l
        /\ adapters[l] \in {0, i}
        /\ adapters' = [adapters EXCEPT ![l] = i]
        /\ Step(p, [Down EXCEPT !.pc = "reconcile", !.luid = l, !.idx = i])
  BY DEF start, Live
<1>3. PICK r : r = [Down EXCEPT !.pc = "reconcile", !.luid = l, !.idx = i]
  OBVIOUS
<1>4. /\ r \in Ops /\ r.pc = "reconcile" /\ r.luid = l /\ r.idx = i /\ r.installed = <<>> /\ r.remaining = <<>>
      /\ r.cur = NoEntry /\ r.transition = None
  <2>1. PICK c \in Places : c = "reconcile"
    BY PlaceFacts DEF Early
  <2>2. PICK n \in 0..MaxIndex : n = i
    BY BoundsAssumption
  <2>3. PICK o \in Ops : o = Down
    BY DownFacts
  <2>4. r = [o EXCEPT !.pc = c, !.luid = l, !.idx = n]
    BY <1>3, <2>1, <2>2, <2>3
  <2>5. /\ r \in Ops /\ r.pc = c /\ r.luid = l /\ r.idx = n /\ r.installed = o.installed /\ r.remaining = o.remaining
        /\ r.cur = o.cur /\ r.transition = o.transition
    BY <2>4 DEF Ops
  <2>6. QED
    BY <2>1, <2>2, <2>3, <2>5, DownFacts
<1>5. op'[p] = r /\ \A q \in Procs \ {p} : op'[q] = op[q]
  BY <1>2, <1>3 DEF Step, Inv, Tables, TableTypes
<1>6. adapters'[l] = i /\ \A m \in LUIDs : m # l => adapters'[m] = adapters[m]
  BY <1>2 DEF Inv, Tables, TableTypes
<1>7. TableTypes'
  <2>1. op' \in [Procs -> Ops]
    BY <1>2, <1>3, <1>4 DEF Step, Inv, Tables, TableTypes
  <2>2. adapters' \in [LUIDs -> 0..MaxIndex]
    BY <1>2, BoundsAssumption DEF Inv, Tables, TableTypes
  <2>3. QED
    BY <1>1, <2>1, <2>2 DEF Inv, Tables, TableTypes
<1>8. Backed(journal)' /\ ForeignUnclaimed'
  BY <1>1 DEF Inv, Tables, Backed, Owned, ForeignUnclaimed, Claims
<1>9. Footprint(p)
  <2>1. \A q \in Procs \ {p} : op[q].pc # "down" => op[q].luid \in LUIDs /\ op[q].luid # l
    BY <1>2 DEF Inv, Local, PlaceInv
  <2>2. \A k \in Keys : RouteChange(p, k)
    BY <1>1 DEF RouteChange
  <2>3. QED
    BY <1>1, <1>4, <1>5, <1>6, <2>1, <2>2 DEF Footprint, Inv, Local, AdapterInv
<1>10. Local(p)'
  <2>1. PlaceInv(p)'
    BY <1>4, <1>5 DEF PlaceInv, Aiming, Claiming, Undoing, Removing, Staging, Reconciling
  <2>2. LockInv(p)'
    BY <1>4, <1>5 DEF LockInv, Locked, Claiming, Undoing, Removing, Staging, Reconciling
  <2>3. AdapterInv(p)'
    BY <1>2, <1>4, <1>5, <1>6 DEF AdapterInv
  <2>4. RouteInv(p)'
    <3>1. \A k \in Keys : routes[k].by # p
      BY <1>1 DEF Inv, Local, RouteInv
    <3>2. QED
      BY <1>1, <1>4, <1>5, <3>1 DEF RouteInv, Early
  <2>5. HeldInv(p)'
    BY <1>4, <1>5 DEF HeldInv, Staging, Reconciling
  <2>6. QED
    BY <2>1, <2>2, <2>3, <2>4, <2>5 DEF Local
<1>11. QED
  BY <1>7, <1>8, <1>9, <1>10, OthersKept DEF Inv, Tables

\* The end of a process leaves orphans, which the journal describes as before.
LEMMA endOfKeeps ==
    ASSUME Inv, NEW p \in Procs, op[p].pc # "down", endOf(p)
    PROVE  Inv'
<1>1. op[p].luid \in LUIDs /\ op[p].idx \in 1..MaxIndex
  BY DEF Inv, Local, PlaceInv
<1>2. PICK gone \in BOOLEAN, wiped \in BOOLEAN :
        /\ adapters' = [adapters EXCEPT ![op[p].luid] = IF gone THEN 0 ELSE @]
        /\ routes' = [k \in Keys |->
             IF wiped /\ k[1] = op[p].luid THEN NoRoute
             ELSE IF routes[k].by = p THEN [routes[k] EXCEPT !.by = "orphan"] ELSE routes[k]]
  BY DEF endOf
<1>3. UNCHANGED journal /\ lock' = (IF lock = p THEN "free" ELSE lock) /\ op' = [op EXCEPT ![p] = Down]
  BY DEF endOf, Holds, Step
<1>4. op'[p] = Down /\ \A q \in Procs \ {p} : op'[q] = op[q]
  BY <1>3 DEF Inv, Tables, TableTypes
<1>5. adapters' \in [LUIDs -> 0..MaxIndex] /\ \A m \in LUIDs : m # op[p].luid => adapters'[m] = adapters[m]
  BY <1>1, <1>2, BoundsAssumption DEF Inv, Tables, TableTypes
<1>6. ASSUME NEW k \in Keys
      PROVE  /\ routes'[k] \in Route \cup {NoRoute} /\ RouteChange(p, k) /\ routes'[k].by # p
             /\ Owned(k)' => Owned(k) /\ routes'[k].fits = routes[k].fits /\ routes'[k].idx = routes[k].idx
             /\ routes'[k].by = "foreign" => routes[k].by = "foreign"
  <2>1. PICK R \in Route \cup {NoRoute} : R = routes[k]
    BY DEF Inv, Tables, TableTypes
  <2>2. CASE routes'[k] = NoRoute
    <3>1. NoRoute.by \notin Procs \cup {"orphan", "foreign"}
      BY NamesAssumption DEF NoRoute
    <3>2. RouteChange(p, k) /\ routes'[k].by \notin Procs \cup {"orphan", "foreign"}
      BY <2>2, <3>1 DEF RouteChange
    <3>3. QED
      BY <2>2, <3>2 DEF Owned
  <2>3. CASE routes'[k] = R /\ R.by # p
    BY <2>1, <2>3 DEF RouteChange, Owned
  <2>4. CASE routes'[k] = [R EXCEPT !.by = "orphan"] /\ R.by = p
    <3>1. R \in Route
      BY <2>4, NamesAssumption DEF NoRoute
    <3>2. PICK S : S = [R EXCEPT !.by = "orphan"]
      OBVIOUS
    <3>3. S \in Route /\ S.by = "orphan" /\ S.idx = R.idx /\ S.fits = R.fits
      BY <3>1, <3>2 DEF Route, Creators
    <3>4. routes'[k] = S
      BY <2>4, <3>2
    <3>5. QED
      BY <2>1, <2>4, <3>3, <3>4, NamesAssumption DEF RouteChange, Owned
  <2>5. routes'[k] = IF wiped /\ k[1] = op[p].luid THEN NoRoute
                     ELSE IF R.by = p THEN [R EXCEPT !.by = "orphan"] ELSE R
    BY <1>2, <2>1
  <2>6. QED
    BY <2>2, <2>3, <2>4, <2>5
<1>7. routes' \in [Keys -> Route \cup {NoRoute}]
  <2>1. routes' = [k \in Keys |-> routes'[k]]
    BY <1>2
  <2>2. QED
    BY <1>6, <2>1
<1>8. TableTypes'
  <2>1. op' \in [Procs -> Ops]
    BY <1>3, DownFacts DEF Inv, Tables, TableTypes
  <2>2. QED
    BY <1>3, <1>5, <1>7, <2>1 DEF Inv, Tables, TableTypes
<1>9. Backed(journal)'
  BY <1>3, <1>6 DEF Inv, Tables, Backed
<1>10. ForeignUnclaimed'
  BY <1>3, <1>6 DEF Inv, Tables, ForeignUnclaimed, Claims
<1>11. Footprint(p)
  <2>1. \A q \in Procs \ {p} : op[q].pc # "down" => op[q].luid \in LUIDs /\ op[q].luid # op[p].luid
    BY DEF Inv, Local, PlaceInv, AdapterInv
  <2>2. \A q \in Procs \ {p} : op[q].pc # "down" => \A s \in Procs \ {q} : op'[s].pc # "down" => op'[s].luid # op[q].luid
    BY <1>4, DownFacts DEF Inv, Local, AdapterInv
  <2>3. QED
    BY <1>3, <1>4, <1>5, <1>6, <2>1, <2>2 DEF Footprint
<1>12. Local(p)'
  <2>1. PlaceInv(p)'
    BY <1>4, DownFacts DEF PlaceInv, Aiming, Claiming, Undoing, Removing, Staging, Reconciling
  <2>2. LockInv(p)'
    BY <1>4, DownFacts DEF LockInv, Locked, Claiming, Undoing, Removing, Staging, Reconciling
  <2>3. AdapterInv(p)'
    BY <1>4, DownFacts DEF AdapterInv
  <2>4. RouteInv(p)'
    BY <1>4, <1>6, DownFacts DEF RouteInv, Early
  <2>5. HeldInv(p)'
    BY <1>4, DownFacts DEF HeldInv, Staging, Reconciling
  <2>6. QED
    BY <2>1, <2>2, <2>3, <2>4, <2>5 DEF Local
<1>13. QED
  BY <1>8, <1>9, <1>10, <1>11, <1>12, OthersKept DEF Inv, Tables

\* crash: a process may end at any of its places.
LEMMA crashKeeps ==
    ASSUME Inv, NEW p \in Procs, crash(p)
    PROVE  Inv'
BY endOfKeeps DEF crash, Live

\* exit: RunClient returns.
LEMMA exitKeeps ==
    ASSUME Inv, NEW p \in Procs, exit(p)
    PROVE  Inv'
BY endOfKeeps DEF exit

\* Other software: every process keeps what it relies on, because a new row
\* that is claimed or about to be is no foreign one.
LEMMA ForeignKeeps ==
    ASSUME Inv, UNCHANGED <<adapters, journal, lock, op>>, routes' \in [Keys -> Route \cup {NoRoute}],
           \A k \in Keys : RouteChange("free", k) /\ (Owned(k)' => routes'[k] = routes[k])
    PROVE  Inv'
<1>1. TableTypes'
  BY DEF Inv, Tables, TableTypes
<1>2. Backed(journal)'
  BY DEF Inv, Tables, Backed, Owned
<1>3. \A k \in Keys : routes'[k].by = "foreign" => routes[k].by = "foreign" \/ ~Contested(k)
  BY NamesAssumption DEF RouteChange, NoRoute
<1>4. ForeignUnclaimed'
  BY <1>3 DEF Inv, Tables, ForeignUnclaimed, Claims, Contested
<1>5. Footprint("free")
  BY DEF Footprint, Inv, Local, AdapterInv
<1>6. \A q \in Procs : Local(q)'
  BY <1>1, <1>5, NamesAssumption, OthersKept
<1>7. QED
  BY <1>1, <1>2, <1>4, <1>6 DEF Inv, Tables

\* foreignAdd: a new row of other software.
LEMMA foreignAddKeeps ==
    ASSUME Inv, foreignAdd
    PROVE  Inv'
<1>1. UNCHANGED <<adapters, journal, lock, op>>
  BY DEF foreignAdd
<1>2. PICK k \in Keys, fits \in BOOLEAN :
        /\ adapters[k[1]] # 0
        /\ routes' = [routes EXCEPT ![k] = [by |-> IF Contested(k) THEN "contested" ELSE "foreign",
                                            idx |-> adapters[k[1]], fits |-> fits]]
  BY DEF foreignAdd
<1>a. PICK b : b = IF Contested(k) THEN "contested" ELSE "foreign"
  OBVIOUS
<1>b. PICK i \in 1..MaxIndex : i = adapters[k[1]]
  BY <1>2, KeyFacts, BoundsAssumption DEF Inv, Tables, TableTypes
<1>c. b \in Creators /\ b \in {"contested", "foreign"} /\ (b = "foreign" => ~Contested(k))
  BY <1>a DEF Creators
<1>3. PICK R \in Route : R = [by |-> b, idx |-> i, fits |-> fits]
  BY <1>c DEF Route
<1>d. R.by = b
  BY <1>3
<1>4. routes' = [routes EXCEPT ![k] = R] /\ routes \in [Keys -> Route \cup {NoRoute}]
  BY <1>2, <1>a, <1>b, <1>3 DEF Inv, Tables, TableTypes
<1>5. routes' \in [Keys -> Route \cup {NoRoute}] /\ routes'[k] = R /\ \A j \in Keys : j # k => routes'[j] = routes[j]
  BY <1>4
<1>6. \A j \in Keys : RouteChange("free", j) /\ (Owned(j)' => routes'[j] = routes[j])
  BY <1>c, <1>d, <1>5, NamesAssumption DEF RouteChange, Owned
<1>7. QED
  BY <1>1, <1>5, <1>6, ForeignKeeps

\* foreignDelete: other software removes a row, whoever created it.
LEMMA foreignDeleteKeeps ==
    ASSUME Inv, foreignDelete
    PROVE  Inv'
<1>1. UNCHANGED <<adapters, journal, lock, op>>
  BY DEF foreignDelete
<1>2. PICK k \in Keys : routes' = [routes EXCEPT ![k] = NoRoute]
  BY DEF foreignDelete
<1>3. routes \in [Keys -> Route \cup {NoRoute}]
  BY DEF Inv, Tables, TableTypes
<1>4. routes' \in [Keys -> Route \cup {NoRoute}] /\ \A j \in Keys : routes'[j] \in {routes[j], NoRoute}
  BY <1>2, <1>3
<1>5. \A j \in Keys : RouteChange("free", j) /\ (Owned(j)' => routes'[j] = routes[j])
  BY <1>4, NamesAssumption DEF RouteChange, Owned, NoRoute
<1>6. QED
  BY <1>1, <1>4, <1>5, ForeignKeeps

-----------------------------------------------------------------------------
(* The theorems.                                                           *)

\* A step of a process.
Acts(p) == Work(p) \/ Close(p) \/ crash(p) \/ exit(p) \/ cancel(p)

\* Nothing is installed, claimed or running at first.
LEMMA InvInit ==
    ASSUME Init
    PROVE  Inv
<1>1. routes = [k \in Keys |-> NoRoute] /\ journal = {} /\ lock = "free" /\ op = [p \in Procs |-> Down]
  BY DEF Init
<1>2. TableTypes
  <2>1. adapters \in [LUIDs -> 0..MaxIndex]
    BY BoundsAssumption DEF Init
  <2>2. op \in [Procs -> Ops]
    BY <1>1, DownFacts
  <2>3. QED
    BY <1>1, <2>1, <2>2 DEF TableTypes
<1>3. \A k \in Keys : routes[k].by \notin Procs \cup {"orphan", "foreign"}
  BY <1>1, NamesAssumption DEF NoRoute
<1>4. Backed(journal) /\ ForeignUnclaimed
  BY <1>3 DEF Backed, Owned, ForeignUnclaimed
<1>5. ASSUME NEW p \in Procs
      PROVE  Local(p)
  <2>1. op[p] = Down
    BY <1>1
  <2>2. PlaceInv(p)
    BY <2>1, DownFacts DEF PlaceInv, Aiming, Claiming, Undoing, Removing, Staging, Reconciling
  <2>3. LockInv(p)
    BY <2>1, DownFacts DEF LockInv, Locked, Claiming, Undoing, Removing, Staging, Reconciling
  <2>4. AdapterInv(p)
    BY <2>1, DownFacts DEF AdapterInv
  <2>5. RouteInv(p)
    BY <1>3, <2>1, DownFacts DEF RouteInv, Early
  <2>6. HeldInv(p)
    BY <2>1, DownFacts DEF HeldInv, Staging, Reconciling
  <2>7. QED
    BY <2>2, <2>3, <2>4, <2>5, <2>6 DEF Local
<1>6. QED
  BY <1>2, <1>4, <1>5 DEF Inv, Tables

\* Every step of a process preserves the invariant.
LEMMA ActsKeeps ==
    ASSUME Inv, NEW p \in Procs, Acts(p)
    PROVE  Inv'
<1>1. CASE start(p)
  BY <1>1, startKeeps
<1>2. CASE reconcile(p)
  BY <1>2, reconcileLockKeeps, keepEntryKeeps, readEntryKeeps, StagingKeeps, deleteEntryKeeps, verifyEntryKeeps,
     reconcileEndKeeps DEF reconcile
<1>3. CASE install(p)
  BY <1>3, baselineKeeps, installedKeeps, prepareLockKeeps, prepareSaveKeeps, addCommitsKeeps, addFailsKeeps, recordKeeps,
     undoReadKeeps, undoDeleteKeeps, undoVerifyKeeps, undoSaveKeeps, readbackKeeps, releaseIntentKeeps DEF install
<1>4. CASE rollback(p)
  BY <1>4, prepareDeletionKeeps, rollbackReadKeeps, rollbackDeleteKeeps, rollbackVerifyKeeps, rollbackReleaseKeeps,
     rollbackEndKeeps DEF rollback
<1>5. CASE Close(p) \/ crash(p) \/ exit(p) \/ cancel(p)
  BY <1>5, CloseKeeps, crashKeeps, exitKeeps, cancelKeeps
<1>6. QED
  BY <1>1, <1>2, <1>3, <1>4, <1>5 DEF Acts, Work

\* Every step of the system preserves the invariant.
LEMMA InvStep ==
    ASSUME Inv, [Next]_vars
    PROVE  Inv'
<1>1. CASE UNCHANGED vars
  <2>1. Tables'
    BY <1>1 DEF vars, Inv, Tables, TableTypes, Backed, Owned, ForeignUnclaimed, Claims
  <2>2. ASSUME NEW p \in Procs
        PROVE  Local(p)'
    <3>1. Footprint("free")
      BY <1>1 DEF vars, Inv, Local, AdapterInv, Footprint, RouteChange
    <3>2. QED
      BY <2>1, <3>1, NamesAssumption, OthersKept DEF Tables
  <2>3. QED
    BY <2>1, <2>2 DEF Inv
<1>2. CASE \E p \in Procs : Acts(p)
  BY <1>2, ActsKeeps
<1>3. CASE foreignAdd \/ foreignDelete
  BY <1>3, foreignAddKeeps, foreignDeleteKeeps
<1>4. QED
  BY <1>1, <1>2, <1>3 DEF Next, Acts

\* The inductive invariant holds in every reachable state of
\* installRouteTransaction, rollbackLocked and ReconcileOwnership, whatever
\* fails and whichever process dies.
THEOREM InvHolds == Spec => []Inv
BY InvInit, InvStep, PTL DEF Spec

\* Ownership is never lost: a route Tachyon created is claimed by a journal
\* entry while it exists, a transition is open only under the lock, and a
\* closed transaction left no route behind.
THEOREM OwnershipIsKept == Spec => []OwnershipKept
<1>1. ASSUME Inv
      PROVE  OwnershipKept
  <2>1. TypeOK
    BY <1>1 DEF Inv, Tables, TableTypes, Local, LockInv, TypeOK, Holds
  <2>2. OwnedIsJournaled
    BY <1>1 DEF Inv, Tables, Backed, Owned, OwnedIsJournaled, Claims, Key
  <2>3. ClosedIsClean
    <3>1. SUFFICES ASSUME NEW p \in Procs, op[p].pc = "closed", NEW k \in Keys, routes[k].by = p PROVE FALSE
      BY DEF ClosedIsClean
    <3>2. op[p].installed = <<>> /\ op[p].remaining = <<>>
      BY <1>1, <3>1 DEF Inv, Local, PlaceInv
    <3>3. Contains(<<>>, k[2])
      BY <1>1, <3>1, <3>2 DEF Inv, Local, RouteInv
    <3>4. QED
      BY <3>3 DEF Contains
  <2>4. QED
    BY <2>1, <2>2, <2>3 DEF OwnershipKept
<1>2. QED
  BY <1>1, InvHolds, PTL

\* The journal never claims a route of other software that was there first, so
\* neither rollbackLocked nor ReconcileOwnership can delete it.
THEOREM ForeignIsUnclaimed == Spec => []ForeignUnclaimed
<1>1. ASSUME Inv
      PROVE  ForeignUnclaimed
  BY <1>1 DEF Inv, Tables
<1>2. QED
  BY <1>1, InvHolds, PTL

\* A process past ReconcileOwnership has no route of a dead one on its adapter.
THEOREM RecoveryIsComplete == Spec => []RecoveryComplete
<1>1. ASSUME Inv
      PROVE  RecoveryComplete
  BY <1>1 DEF Inv, Local, RouteInv, RecoveryComplete, Early, Reconciling, Staging
<1>2. QED
  BY <1>1, InvHolds, PTL

-----------------------------------------------------------------------------
(* Who removes whose routes.                                               *)

\* A step of a process changes that process only.
LEMMA ActsAlone ==
    ASSUME Inv, NEW p \in Procs, Acts(p), NEW q \in Procs, q # p
    PROVE  op'[q] = op[q]
<1>1. SUFFICES \E r : op' = [op EXCEPT ![p] = r]
  BY DEF Inv, Tables, TableTypes
<1>2. CASE start(p)
  BY <1>2 DEF start, Step
<1>3. CASE reconcile(p)
  BY <1>3 DEF reconcile, reconcileLock, keepEntry, readEntry, claimEntry, stageDelete, stageEntry, deleteEntry, verifyEntry,
              reconcileEnd, giveUp, keep, drop, Step
<1>4. CASE install(p)
  BY <1>4 DEF install, baseline, installed, prepareLock, prepareSave, addCommits, addFails, record, undoRead, undoDelete,
              undoVerify, undoSave, readback, releaseIntent, unwind, undoFails, finish, Step
<1>5. CASE rollback(p)
  BY <1>5 DEF rollback, prepareDeletion, rollbackRead, rollbackDelete, rollbackVerify, rollbackRelease, rollbackEnd,
              reinstate, finish, Step
<1>6. CASE Close(p) \/ crash(p) \/ exit(p) \/ cancel(p)
  BY <1>6 DEF Close, crash, exit, cancel, endOf, Step
<1>7. QED
  BY <1>2, <1>3, <1>4, <1>5, <1>6 DEF Acts, Work

\* The steps of a process that touch the route table.
LEMMA Touches ==
    ASSUME NEW p \in Procs, Acts(p), routes' # routes
    PROVE  deleteEntry(p) \/ addCommits(p) \/ undoDelete(p) \/ rollbackDelete(p) \/ crash(p) \/ exit(p)
<1>1. CASE reconcile(p)
  BY <1>1 DEF reconcile, reconcileLock, keepEntry, readEntry, claimEntry, stageDelete, stageEntry, verifyEntry, reconcileEnd
<1>2. CASE install(p)
  BY <1>2 DEF install, baseline, installed, prepareLock, prepareSave, addFails, record, undoRead,
              undoVerify, undoSave, readback, releaseIntent
<1>3. CASE rollback(p)
  BY <1>3 DEF rollback, prepareDeletion, rollbackRead, rollbackVerify, rollbackRelease, rollbackEnd
<1>4. QED
  BY <1>1, <1>2, <1>3 DEF Acts, Work, start, Close, cancel

\* No step of a process changes a route of another one.
LEMMA OthersRoutes ==
    ASSUME Inv, NEW p \in Procs, Acts(p), NEW k \in Keys, NEW q \in Procs, q # p, routes[k].by = q
    PROVE  routes'[k] = routes[k]
<1>1. SUFFICES ASSUME routes' # routes PROVE routes'[k] = routes[k]
  OBVIOUS
<1>2. op[q].pc # "down" /\ k[1] = op[q].luid
  BY DEF Inv, Local, RouteInv
<1>3. op[p].pc # "down" => k[1] # op[p].luid
  BY <1>2 DEF Inv, Local, AdapterInv
<1>4. \A d : op[p].pc # "down" => Own(p, d) # k
  BY <1>3 DEF Own
<1>6. CASE deleteEntry(p)
  <2>1. op[p].pc \in Staging /\ UNCHANGED journal
    BY <1>6 DEF deleteEntry, Staging
  <2>2. PICK e \in Entry : e = op[p].cur /\ Key(e) \in Keys /\ routes[Key(e)].by \notin Procs \ {p}
    BY <2>1, AimFacts DEF Inv, Local, HeldInv
  <2>3. PICK out \in {"done", "error"} : Delete(out, Key(e), e.idx, op[p].cancelled)
    BY <1>6, <2>2 DEF deleteEntry, Key
  <2>4. QED
    BY <2>1, <2>2, <2>3, DeleteTells
<1>7. CASE undoDelete(p)
  <2>1. op[p].pc \in Undoing /\ op[p].pc # "down" /\ UNCHANGED journal
    BY <1>7 DEF undoDelete, Undoing
  <2>2. PICK j \in Keys : j = Own(p, Target(p))
    BY <2>1, UndoFacts
  <2>3. PICK out \in {"done", "error"} : Delete(out, j, op[p].idx, FALSE)
    BY <1>7, <2>2 DEF undoDelete
  <2>4. QED
    BY <1>4, <2>1, <2>2, <2>3, DeleteTells
<1>8. CASE rollbackDelete(p)
  <2>1. op[p].pc \in Removing /\ op[p].pc # "down" /\ UNCHANGED journal
    BY <1>8 DEF rollbackDelete, Removing
  <2>2. PICK j \in Keys : j = Own(p, Victim(p))
    BY <2>1, RemovalFacts
  <2>3. PICK out \in {"done", "error"} : Delete(out, j, op[p].idx, FALSE)
    BY <1>8, <2>2 DEF rollbackDelete
  <2>4. QED
    BY <1>4, <2>1, <2>2, <2>3, DeleteTells
<1>9. CASE addCommits(p)
  <2>1. op[p].pc # "down"
    BY <1>9 DEF addCommits
  <2>2. Own(p, Target(p)) # k
    BY <1>4, <2>1
  <2>3. PICK j, R : j = Own(p, Target(p)) /\ routes' = [routes EXCEPT ![j] = R]
    BY <1>9 DEF addCommits
  <2>4. QED
    BY <2>2, <2>3 DEF Inv, Tables, TableTypes
<1>10. CASE crash(p) \/ exit(p)
  <2>0. endOf(p) /\ op[p].pc # "down"
    BY <1>10 DEF crash, exit, Live
  <2>1. PICK wiped \in BOOLEAN :
          routes' = [j \in Keys |->
             IF wiped /\ j[1] = op[p].luid THEN NoRoute
             ELSE IF routes[j].by = p THEN [routes[j] EXCEPT !.by = "orphan"] ELSE routes[j]]
    BY <2>0 DEF endOf
  <2>2. QED
    BY <1>3, <2>0, <2>1
<1>11. QED
  BY <1>1, <1>6, <1>7, <1>8, <1>9, <1>10, Touches

\* No process removes a route of another live process: ReconcileOwnership keeps
\* the entries of an adapter that exists, rollbackLocked deletes on the
\* process's own adapter only.
THEOREM LiveRoutesAreKept == Spec => LiveRoutesKept
<1>1. ASSUME Inv, [Next]_vars
      PROVE  [\A p \in Procs, k \in Keys :
                op[p] # op'[p] /\ routes[k].by \in Procs \ {p} => routes'[k] = routes[k]]_vars
  <2>1. SUFFICES ASSUME Next, NEW p \in Procs, NEW k \in Keys, op[p] # op'[p], routes[k].by \in Procs \ {p}
                 PROVE  routes'[k] = routes[k]
    BY <1>1
  <2>2. \E s \in Procs : Acts(s)
    BY <2>1 DEF Next, Acts, foreignAdd, foreignDelete
  <2>3. Acts(p)
    BY <1>1, <2>1, <2>2, ActsAlone
  <2>4. QED
    BY <1>1, <2>1, <2>3, OthersRoutes
<1>2. QED
  BY <1>1, InvHolds, PTL DEF Spec, LiveRoutesKept
=============================================================================
