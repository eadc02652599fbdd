---------------------------- MODULE RouteJournal ----------------------------
(***************************************************************************)
(* The selective-route transaction of internal/tun/routes.go over the      *)
(* Windows route operator and its ownership journal                        *)
(* (routes_windows.go, routes_windows_journal.go).                         *)
(*                                                                         *)
(* Core processes install destination routes on their own Wintun adapter.  *)
(* A route is claimed in the machine-wide journal ("pending") before it is *)
(* created, becomes "active" after, and "deleting" before it is removed;   *)
(* the machine lock is held from the claim to the record, and from the     *)
(* staging of a deletion to its release (the "transition" of an operator). *)
(* A process may die between any two steps; the journal, the lock (as      *)
(* abandoned) and usually the routes survive it, and the next process to   *)
(* start reconciles them.  Other software edits the route table at will.   *)
(*                                                                         *)
(* A step is one call that leaves the process: a route-table call, a       *)
(* journal read-modify-write, an acquisition of the lock.  The entry       *)
(* signature, access control and the encoding of the journal are left out: *)
(* an entry is valid.  The transaction ID is left out: a prefix has at     *)
(* most one entry.                                                         *)
(***************************************************************************)
EXTENDS Integers, Sequences, FiniteSets, SequencesExt

CONSTANTS
    Procs,          \* Core processes that may run on the machine
    LUIDs,          \* adapter identities Windows hands out
    Dests,       \* destinations
    Plan,           \* planned destinations of each process, in order
    MaxIndex,       \* bound: interface indices an adapter may get
    MaxStarts,      \* bound: process starts
    MaxCrashes,     \* bound: process deaths
    MaxFaults       \* bound: failing calls, cancellations and route changes by other software

ASSUME PlanAssumption == Plan \in [Procs -> Seq(Dests)]
ASSUME BoundsAssumption ==
    /\ MaxIndex \in Nat \ {0}
    /\ {MaxStarts, MaxCrashes, MaxFaults} \subseteq Nat
ASSUME NamesAssumption ==
    /\ Procs \cap {"free", "none", "orphan", "foreign", "contested"} = {}
    /\ "none" \notin Dests

VARIABLES
    routes,         \* the route table, by adapter and destination
    adapters,       \* interface index of every adapter, 0 when it is gone
    journal,        \* entries of the durable journal
    lock,           \* holder of the machine lock
    op,             \* every process: its transaction and its operator
    budget          \* what is left of the bounds

vars == <<routes, adapters, journal, lock, op, budget>>

Keys    == LUIDs \X Dests
States  == {"pending", "active", "deleting"}
Entry   == [luid : LUIDs, idx : 1..MaxIndex, prefix : Dests, state : States]

\* A route: who created it, its interface index, and whether next hop, metric
\* and protocol are those Tachyon uses.  "orphan" is a route of a process that
\* died, "foreign" one of other software, "contested" one that other software
\* created while the journal claimed the same row, when nothing in the system
\* can tell it from a Tachyon route.
Creators == Procs \cup {"orphan", "foreign", "contested"}
Route    == [by : Creators, idx : 1..MaxIndex, fits : BOOLEAN]
NoRoute  == [by |-> "none", idx |-> 0, fits |-> FALSE]

None    == "none"
NoEntry == [luid |-> None, idx |-> 0, prefix |-> None, state |-> None]

Down == [pc |-> "down", luid |-> None, idx |-> 0, cancelled |-> FALSE, failed |-> FALSE,
         pos |-> 1, installed |-> <<>>, remaining |-> <<>>, transition |-> None,
         addErr |-> FALSE, todo |-> {}, kept |-> {}, cur |-> NoEntry]

Init ==
    /\ routes = [k \in Keys |-> NoRoute]
    /\ adapters = [l \in LUIDs |-> 0]
    /\ journal = {}
    /\ lock = "free"
    /\ op = [p \in Procs |-> Down]
    /\ budget = [start |-> MaxStarts, crash |-> MaxCrashes, fault |-> MaxFaults]

Spend(what) ==
    /\ budget[what] > 0
    /\ budget' = [budget EXCEPT ![what] = @ - 1]

\* A call fails: a budgeted fault.
Fails == Spend("fault")

Live(p)   == op[p].pc # "down"
Holds(p)  == lock = p
Unlock    == lock' = "free"
Step(p, r) == op' = [op EXCEPT ![p] = r]
Own(p, x)  == <<op[p].luid, x>>
Claims(k)  == {e \in journal : <<e.luid, e.prefix>> = k}
Target(p)  == Plan[p][op[p].pos]

-----------------------------------------------------------------------------
(* The route table and the journal as the program reaches them.            *)

\* routes_windows.go Read: what GetIpForwardEntry2 says of a row.
Seen(k, i) ==
    IF routes[k] = NoRoute THEN "absent"
    ELSE IF routes[k].idx = i /\ routes[k].fits THEN "match" ELSE "differ"

Read(out, k, i, cancelled) ==
    \/ /\ ~cancelled
       /\ out = Seen(k, i)
       /\ UNCHANGED budget
    \/ /\ out = "error"
       /\ cancelled => UNCHANGED budget
       /\ ~cancelled => Fails

Outcomes == {"absent", "match", "differ", "error"}

\* routes_windows.go Delete.  A failing DeleteIpForwardEntry2 may have removed
\* the row; a row that no longer matches is refused.
Delete(out, k, i, cancelled) ==
    \/ /\ out = "done"
       /\ ~cancelled
       /\ Seen(k, i) \in {"absent", "match"}
       /\ routes' = [routes EXCEPT ![k] = NoRoute]
       /\ UNCHANGED budget
    \/ /\ out = "error"
       /\ cancelled \/ Seen(k, i) = "differ"
       /\ UNCHANGED <<routes, budget>>
    \/ /\ out = "error"
       /\ ~cancelled
       /\ Seen(k, i) = "match"
       /\ Fails
       /\ routes' \in {routes, [routes EXCEPT ![k] = NoRoute]}

\* journal.load followed by journal.save.  A failed write may have reached the
\* registry value before its flush or its readback failed.
LoadSave(ok, new) ==
    \/ ok /\ journal' = new /\ UNCHANGED budget
    \/ ~ok /\ Fails /\ journal' \in {journal, new}

\* What a verifying read after a failed delete must say before ownership is given up.
verifiedGone_OnError(out) == out # "match"
verifiedGone(out) == out \in {"absent", "differ"}

-----------------------------------------------------------------------------
(* Processes.                                                              *)

\* newDevice creates or opens an adapter no live process has a session on,
\* registerCurrentWindowsAdapter, newPlatformRouteOperator.
start(p) ==
    /\ ~Live(p)
    /\ Spend("start")
    /\ \E l \in LUIDs, i \in 1..MaxIndex :
        /\ \A q \in Procs : Live(q) => op[q].luid # l
        /\ adapters[l] \in {0, i}
        /\ adapters' = [adapters EXCEPT ![l] = i]
        /\ Step(p, [Down EXCEPT !.pc = "reconcile", !.luid = l, !.idx = i])
    /\ UNCHANGED <<routes, journal, lock>>

\* The process ends: its routes have no owner any more; its adapter may go
\* with it, and the adapter's routes with the adapter.
endOf(p) ==
    LET left == [k \in Keys |-> IF routes[k].by = p THEN [routes[k] EXCEPT !.by = "orphan"] ELSE routes[k]]
    IN  /\ \E gone \in BOOLEAN, wiped \in BOOLEAN :
            /\ wiped => gone
            /\ adapters' = [adapters EXCEPT ![op[p].luid] = IF gone THEN 0 ELSE @]
            /\ routes' = [k \in Keys |-> IF wiped /\ k[1] = op[p].luid THEN NoRoute ELSE left[k]]
        /\ lock' = IF Holds(p) THEN "free" ELSE lock
        /\ Step(p, Down)
        /\ UNCHANGED journal

crash(p) ==
    /\ Live(p)
    /\ Spend("crash")
    /\ endOf(p)

\* RunClient returns after a failed start or after the last Close.
exit(p) ==
    /\ op[p].pc \in {"closed", "failed", "retained"}
    /\ endOf(p)
    /\ UNCHANGED budget

cancel(p) ==
    /\ op[p].pc \notin {"down", "up", "closed", "failed", "retained"}
    /\ ~op[p].cancelled
    /\ Spend("fault")
    /\ Step(p, [op[p] EXCEPT !.cancelled = TRUE])
    /\ UNCHANGED <<routes, adapters, journal, lock>>

-----------------------------------------------------------------------------
(* Reconciliation of the journal at start.                                 *)

\* closeRouteOperator and return the error.
giveUp(p) == Step(p, [op[p] EXCEPT !.pc = "failed"])

reconcileLock(p) ==
    /\ op[p].pc = "reconcile"
    /\ \/ /\ lock = "free"
          /\ lock' = p
          /\ Step(p, [op[p] EXCEPT !.pc = "recEntry", !.todo = journal, !.kept = {}])
          /\ UNCHANGED budget
       \/ /\ lock = "free"
          /\ Fails
          /\ giveUp(p)
          /\ UNCHANGED lock
       \/ /\ lock \notin {"free", p}        \* timed out
          /\ giveUp(p)
          /\ UNCHANGED <<lock, budget>>
    /\ UNCHANGED <<routes, adapters, journal>>

keep(p, e, err) ==
    Step(p, [op[p] EXCEPT !.pc = "recEntry", !.todo = @ \ {op[p].cur, e}, !.kept = @ \cup {e},
                          !.cur = NoEntry, !.failed = @ \/ err])
drop(p, e, err) ==
    Step(p, [op[p] EXCEPT !.pc = "recEntry", !.todo = @ \ {e}, !.cur = NoEntry, !.failed = @ \/ err])

\* foreignInterfaceExists: the adapter of another owner, by LUID and index.
ownerGone_Assumed(p, e) == TRUE
ownerGone(p, e) == e.luid = op[p].luid \/ adapters[e.luid] = 0
misidentified(e) == adapters[e.luid] \notin {0, e.idx}

keepEntry(p) ==
    /\ op[p].pc = "recEntry"
    /\ \E e \in op[p].todo :
        \/ /\ misidentified(e)              \* own LUID with another index, or a foreign mismatch
           /\ keep(p, e, TRUE)
           /\ UNCHANGED budget
        \/ /\ ~misidentified(e)
           /\ ~ownerGone(p, e)              \* owner is alive
           /\ keep(p, e, FALSE)
           /\ UNCHANGED budget
        \/ /\ ~misidentified(e)
           /\ e.luid # op[p].luid
           /\ Fails                         \* the query fails
           /\ keep(p, e, TRUE)
    /\ UNCHANGED <<routes, adapters, journal, lock>>

readEntry(p) ==
    /\ op[p].pc = "recEntry"
    /\ \E e \in op[p].todo, out \in Outcomes :
        /\ ~misidentified(e)
        /\ ownerGone(p, e)
        /\ Read(out, <<e.luid, e.prefix>>, e.idx, op[p].cancelled)
        /\ \/ out = "error" /\ keep(p, e, TRUE)
           \/ out \in {"absent", "differ"} /\ drop(p, e, FALSE)
           \/ /\ out = "match"
              /\ Step(p, [op[p] EXCEPT !.pc = IF e.state = "pending" THEN "recClaim" ELSE "recStage", !.cur = e])
    /\ UNCHANGED <<routes, adapters, journal, lock>>

staged(p, state) == op[p].kept \cup (op[p].todo \ {op[p].cur}) \cup {[op[p].cur EXCEPT !.state = state]}

\* Stage the entry as active (a pending one only), then as deleting.
stageEntry(p, from, to, state) ==
    /\ op[p].pc = from
    /\ \E ok \in BOOLEAN :
        /\ LoadSave(ok, staged(p, state))
        /\ LET e == [op[p].cur EXCEPT !.state = state]
           IN  IF ok THEN Step(p, [op[p] EXCEPT !.pc = to, !.cur = e, !.todo = (@ \ {op[p].cur}) \cup {e}])
                     ELSE keep(p, e, TRUE)
    /\ UNCHANGED <<routes, adapters, lock>>

claimEntry(p) == stageEntry(p, "recClaim", "recStage", "active")
stageDelete(p) == stageEntry(p, "recStage", "recDelete", "deleting")

deleteEntry(p) ==
    /\ op[p].pc = "recDelete"
    /\ \E out \in {"done", "error"} :
        LET e == op[p].cur
        IN  /\ Delete(out, <<e.luid, e.prefix>>, e.idx, op[p].cancelled)
            /\ IF out = "done" THEN drop(p, e, FALSE) ELSE Step(p, [op[p] EXCEPT !.pc = "recVerify"])
    /\ UNCHANGED <<adapters, journal, lock>>

verifyEntry(p) ==
    /\ op[p].pc = "recVerify"
    /\ \E out \in Outcomes :
        LET e == op[p].cur
        IN  /\ Read(out, <<e.luid, e.prefix>>, e.idx, op[p].cancelled)
            /\ IF verifiedGone(out) THEN drop(p, e, TRUE) ELSE keep(p, e, TRUE)
    /\ UNCHANGED <<routes, adapters, journal, lock>>

\* Any error, of an entry or of the last save, fails the start.
reconcileFails_SaveOnly(p, ok) == ~ok
reconcileFails(p, ok) == op[p].failed \/ ~ok

reconcileEnd(p) ==
    /\ op[p].pc = "recEntry"
    /\ op[p].todo = {}
    /\ \E ok \in BOOLEAN :
        /\ LoadSave(ok, op[p].kept)
        /\ IF reconcileFails(p, ok) THEN giveUp(p)
           ELSE Step(p, [op[p] EXCEPT !.pc = "install", !.kept = {}])
    /\ Unlock
    /\ UNCHANGED <<routes, adapters>>

reconcile(p) ==
    \/ reconcileLock(p) \/ keepEntry(p) \/ readEntry(p) \/ claimEntry(p)
    \/ stageDelete(p) \/ deleteEntry(p) \/ verifyEntry(p) \/ reconcileEnd(p)

-----------------------------------------------------------------------------
(* installRouteTransaction.                                                *)

\* Every error of the installation rolls back what is installed so far.
unwind(p) == Step(p, [op[p] EXCEPT !.pc = "rollback", !.failed = TRUE])

\* The head of the loop: the context, then the baseline without the lock.
baseline(p) ==
    /\ op[p].pc = "install"
    /\ op[p].pos <= Len(Plan[p])
    /\ \E out \in Outcomes :
        /\ Read(out, Own(p, Target(p)), op[p].idx, op[p].cancelled)
        /\ \/ out \in {"error", "differ"} /\ unwind(p)
           \/ out = "match" /\ Step(p, [op[p] EXCEPT !.pos = @ + 1])
           \/ out = "absent" /\ Step(p, [op[p] EXCEPT !.pc = "prepare"])
    /\ UNCHANGED <<routes, adapters, journal, lock>>

installed(p) ==
    /\ op[p].pc = "install"
    /\ op[p].pos > Len(Plan[p])
    /\ Step(p, [op[p] EXCEPT !.pc = "up"])
    /\ UNCHANGED <<routes, adapters, journal, lock, budget>>

\* The baseline read again under the lock must find nothing.
baselineAbsent_Trusted(out) == out # "error"
baselineAbsent(out) == out = "absent"

prepareLock(p) ==
    /\ op[p].pc = "prepare"
    /\ \/ /\ lock = "free"
          /\ \E out \in Outcomes :
              /\ Read(out, Own(p, Target(p)), op[p].idx, op[p].cancelled)
              /\ IF baselineAbsent(out)
                 THEN lock' = p /\ Step(p, [op[p] EXCEPT !.pc = "prepareSave"])
                 ELSE UNCHANGED lock /\ unwind(p)
       \/ /\ lock \notin {"free", p}        \* timed out
          /\ unwind(p)
          /\ UNCHANGED <<lock, budget>>
    /\ UNCHANGED <<routes, adapters, journal>>

claim(p, state) == [luid |-> op[p].luid, idx |-> op[p].idx, prefix |-> Target(p), state |-> state]

\* No entry of any adapter may claim the destination.
prepareSave(p) ==
    /\ op[p].pc = "prepareSave"
    /\ \/ /\ \E e \in journal : e.prefix = Target(p)
          /\ unwind(p)
          /\ Unlock
          /\ UNCHANGED <<journal, budget>>
       \/ /\ \A e \in journal : e.prefix # Target(p)
          /\ \E ok \in BOOLEAN :
              /\ LoadSave(ok, journal \cup {claim(p, "pending")})
              /\ IF ok THEN UNCHANGED lock /\ Step(p, [op[p] EXCEPT !.pc = "add", !.transition = Target(p)])
                       ELSE Unlock /\ unwind(p)
    /\ UNCHANGED <<routes, adapters>>

\* CreateIpForwardEntry2: a row that exists, in whatever shape, is not ours.
addCommits(p) ==
    /\ op[p].pc = "add"
    /\ ~op[p].cancelled
    /\ routes[Own(p, Target(p))] = NoRoute
    /\ routes' = [routes EXCEPT ![Own(p, Target(p))] = [by |-> p, idx |-> op[p].idx, fits |-> TRUE]]
    /\ Step(p, [op[p] EXCEPT !.pc = "record", !.installed = Append(@, Target(p))])
    /\ UNCHANGED <<adapters, journal, lock, budget>>

addFails(p) ==
    /\ op[p].pc = "add"
    /\ \/ (op[p].cancelled \/ routes[Own(p, Target(p))] # NoRoute) /\ UNCHANGED budget
       \/ ~op[p].cancelled /\ routes[Own(p, Target(p))] = NoRoute /\ Fails
    /\ Step(p, [op[p] EXCEPT !.pc = "releaseIntent"])
    /\ UNCHANGED <<routes, adapters, journal, lock>>

\* takeTransition and the deferred unlock.
finish(p, r) == Unlock /\ Step(p, [r EXCEPT !.transition = None])

\* Add observed its context after the row was created; record then marks the
\* claim active.  A journal that cannot be read leaves it pending.
record(p) ==
    /\ op[p].pc = "record"
    /\ LET noted == [op[p] EXCEPT !.addErr = op[p].cancelled]
       IN  \/ /\ Fails                                     \* load
              /\ finish(p, [noted EXCEPT !.pc = "rollback", !.failed = TRUE])
              /\ UNCHANGED journal
           \/ \E ok \in BOOLEAN :
              /\ LoadSave(ok, (journal \ {claim(p, "pending")}) \cup {claim(p, "active")})
              /\ IF ok THEN finish(p, [noted EXCEPT !.pc = "readback"])
                       ELSE UNCHANGED lock /\ Step(p, [noted EXCEPT !.pc = "undoRead"])
    /\ UNCHANGED <<routes, adapters>>

\* rollbackFailedRecordLocked could not undo the route: it stays installed.
notRolledBack(p) == op[p]
undoFails(p) == finish(p, [notRolledBack(p) EXCEPT !.pc = "rollback", !.failed = TRUE])

undoRead(p) ==
    /\ op[p].pc = "undoRead"
    /\ \E out \in Outcomes :
        /\ Read(out, Own(p, Target(p)), op[p].idx, FALSE)
        /\ IF out = "error" THEN undoFails(p)
           ELSE UNCHANGED lock /\ Step(p, [op[p] EXCEPT !.pc = IF out = "match" THEN "undoDelete" ELSE "undoSave"])
    /\ UNCHANGED <<routes, adapters, journal>>

undoDelete(p) ==
    /\ op[p].pc = "undoDelete"
    /\ \E out \in {"done", "error"} :
        /\ Delete(out, Own(p, Target(p)), op[p].idx, FALSE)
        /\ Step(p, [op[p] EXCEPT !.pc = IF out = "done" THEN "undoSave" ELSE "undoVerify"])
    /\ UNCHANGED <<adapters, journal, lock>>

undoVerify(p) ==
    /\ op[p].pc = "undoVerify"
    /\ \E out \in Outcomes :
        /\ Read(out, Own(p, Target(p)), op[p].idx, FALSE)
        /\ IF verifiedGone(out) THEN UNCHANGED lock /\ Step(p, [op[p] EXCEPT !.pc = "undoSave"])
           ELSE undoFails(p)
    /\ UNCHANGED <<routes, adapters, journal>>

undoSave(p) ==
    /\ op[p].pc = "undoSave"
    /\ \E ok \in BOOLEAN : LoadSave(ok, journal \ Claims(Own(p, Target(p))))
    /\ finish(p, [op[p] EXCEPT !.pc = "rollback", !.failed = TRUE, !.installed = Front(@)])
    /\ UNCHANGED <<routes, adapters>>

\* The readback of a created route.
readback(p) ==
    /\ op[p].pc = "readback"
    /\ \E out \in Outcomes :
        /\ Read(out, Own(p, Target(p)), op[p].idx, FALSE)
        /\ IF out = "match" /\ ~op[p].addErr
           THEN Step(p, [op[p] EXCEPT !.pc = "install", !.pos = @ + 1])
           ELSE unwind(p)
    /\ UNCHANGED <<routes, adapters, journal, lock>>

\* A route that was not created: the claim is released, whatever the readback.
releaseIntent(p) ==
    /\ op[p].pc = "releaseIntent"
    /\ \E ok \in BOOLEAN : LoadSave(ok, journal \ Claims(Own(p, Target(p))))
    /\ finish(p, [op[p] EXCEPT !.pc = "rollback", !.failed = TRUE])
    /\ UNCHANGED <<routes, adapters>>

install(p) ==
    \/ baseline(p) \/ installed(p) \/ prepareLock(p) \/ prepareSave(p) \/ addCommits(p) \/ addFails(p)
    \/ record(p) \/ undoRead(p) \/ undoDelete(p) \/ undoVerify(p) \/ undoSave(p) \/ readback(p) \/ releaseIntent(p)

-----------------------------------------------------------------------------
(* rollbackLocked, from a failed installation or from Close.               *)

Close(p) ==
    /\ op[p].pc \in {"up", "retained"}
    /\ Step(p, [op[p] EXCEPT !.pc = "rollback"])
    /\ UNCHANGED <<routes, adapters, journal, lock, budget>>

Victim(p) == Last(op[p].installed)
visited(r) == [r EXCEPT !.installed = Front(@), !.pc = "rollback"]
retain(r) == [visited(r) EXCEPT !.remaining = <<Last(r.installed)>> \o @]
deletable(p) == {e \in Claims(Own(p, Victim(p))) : e.state \in {"active", "deleting"}}

\* prepareDeletion.  The lock waits for other processes up to a timeout, and
\* for ever for a transition of its own that was never finished.
prepareDeletion(p) ==
    /\ op[p].pc = "rollback"
    /\ op[p].installed # <<>>
    /\ \/ /\ lock = "free"
          /\ deletable(p) # {}
          /\ \E ok \in BOOLEAN :
              /\ LoadSave(ok, (journal \ deletable(p)) \cup {[e EXCEPT !.state = "deleting"] : e \in deletable(p)})
              /\ IF ok THEN lock' = p /\ Step(p, [op[p] EXCEPT !.pc = "rbRead", !.transition = Victim(p)])
                       ELSE UNCHANGED lock /\ Step(p, retain(op[p]))
       \/ /\ lock = "free" => deletable(p) = {}
          /\ lock # p
          /\ Step(p, retain(op[p]))
          /\ UNCHANGED <<journal, lock, budget>>
    /\ UNCHANGED <<routes, adapters>>

\* RecordOwnership wants a pending entry and finds a deleting one: it only
\* ends the transition.
reinstate(p) == finish(p, retain(op[p]))

rollbackRead(p) ==
    /\ op[p].pc = "rbRead"
    /\ \E out \in Outcomes :
        /\ Read(out, Own(p, Victim(p)), op[p].idx, FALSE)
        /\ IF out = "error" THEN reinstate(p)
           ELSE UNCHANGED lock /\ Step(p, [op[p] EXCEPT !.pc = IF out = "match" THEN "rbDelete" ELSE "rbRelease"])
    /\ UNCHANGED <<routes, adapters, journal>>

rollbackDelete(p) ==
    /\ op[p].pc = "rbDelete"
    /\ \E out \in {"done", "error"} :
        /\ Delete(out, Own(p, Victim(p)), op[p].idx, FALSE)
        /\ Step(p, [op[p] EXCEPT !.pc = IF out = "done" THEN "rbRelease" ELSE "rbVerify"])
    /\ UNCHANGED <<adapters, journal, lock>>

\* A verification that fails leaves the transition and its lock as they are.
rollbackVerify(p) ==
    /\ op[p].pc = "rbVerify"
    /\ \E out \in Outcomes :
        /\ Read(out, Own(p, Victim(p)), op[p].idx, FALSE)
        /\ IF verifiedGone(out) THEN UNCHANGED lock /\ Step(p, [op[p] EXCEPT !.pc = "rbRelease"])
           ELSE IF out = "error" THEN UNCHANGED lock /\ Step(p, retain(op[p]))
           ELSE reinstate(p)
    /\ UNCHANGED <<routes, adapters, journal>>

rollbackRelease(p) ==
    /\ op[p].pc = "rbRelease"
    /\ \E ok \in BOOLEAN : LoadSave(ok, journal \ Claims(Own(p, Victim(p))))
    /\ finish(p, visited(op[p]))
    /\ UNCHANGED <<routes, adapters>>

\* The operator is closed once nothing remains; a failed installation hands
\* no transaction to anybody who could close it again.
rollbackEnd(p) ==
    /\ op[p].pc = "rollback"
    /\ op[p].installed = <<>>
    /\ Step(p, [op[p] EXCEPT !.installed = op[p].remaining, !.remaining = <<>>,
                             !.pc = IF op[p].remaining = <<>> THEN "closed"
                                    ELSE IF op[p].failed THEN "failed" ELSE "retained"])
    /\ UNCHANGED <<routes, adapters, journal, lock, budget>>

rollback(p) ==
    \/ prepareDeletion(p) \/ rollbackRead(p) \/ rollbackDelete(p)
    \/ rollbackVerify(p) \/ rollbackRelease(p) \/ rollbackEnd(p)

-----------------------------------------------------------------------------
(* Other software on the machine.                                          *)

\* A row the program is claiming: in the journal, or about to be.
Contested(k) ==
    \/ Claims(k) # {}
    \/ \E p \in Procs : op[p].pc = "prepareSave" /\ Own(p, Target(p)) = k

foreignAdd ==
    /\ Spend("fault")
    /\ \E k \in Keys, fits \in BOOLEAN :
        /\ adapters[k[1]] # 0
        /\ routes[k] = NoRoute
        /\ routes' = [routes EXCEPT ![k] = [by |-> IF Contested(k) THEN "contested" ELSE "foreign",
                                            idx |-> adapters[k[1]], fits |-> fits]]
    /\ UNCHANGED <<adapters, journal, lock, op>>

foreignDelete ==
    /\ Spend("fault")
    /\ \E k \in Keys :
        /\ routes[k] # NoRoute
        /\ routes' = [routes EXCEPT ![k] = NoRoute]
    /\ UNCHANGED <<adapters, journal, lock, op>>

Work(p) == start(p) \/ reconcile(p) \/ install(p) \/ rollback(p)

Next ==
    \/ \E p \in Procs : Work(p) \/ Close(p) \/ crash(p) \/ exit(p) \/ cancel(p)
    \/ foreignAdd \/ foreignDelete

Spec == Init /\ [][Next]_vars

\* Goroutines are scheduled and calls return; nothing forces a start, a crash
\* or another program.
FairSpec == Spec /\ \A p \in Procs : WF_vars(reconcile(p) \/ install(p) \/ rollback(p))

-----------------------------------------------------------------------------
(* Properties.                                                             *)

\* Every variable has its type, and a transition is open only under the lock
\* (windowsRouteJournalTransition holds the lock it was opened with).
TypeOK ==
    /\ routes \in [Keys -> Route \cup {NoRoute}]
    /\ adapters \in [LUIDs -> 0..MaxIndex]
    /\ journal \subseteq Entry
    /\ lock \in Procs \cup {"free"}
    /\ \A p \in Procs : op[p].transition # None => Holds(p)

\* Whatever fails and wherever a process dies, a route Tachyon created is
\* claimed by a durable journal entry until it is gone, so that a later start
\* can find it (prepare before Add, release after Delete).
OwnedIsJournaled ==
    \A k \in Keys : routes[k].by \in Procs \cup {"orphan"} => Claims(k) # {}

\* The journal never claims a route of other software that was there first:
\* the baseline is read again under the lock, so neither rollback nor
\* reconciliation can ever delete it.
ForeignUnclaimed ==
    \A k \in Keys : routes[k].by = "foreign" => Claims(k) = {}

\* No process removes a route of another live process: reconciliation keeps
\* the entries of an adapter that exists, and works under the machine lock.
LiveRoutesKept ==
    [][\A p \in Procs, k \in Keys :
        op[p] # op'[p] /\ routes[k].by \in Procs \ {p} => routes'[k] = routes[k]]_vars

\* A process that got past reconciliation finds no route of a dead one on its
\* adapter: reconcile either removed it or failed the start.
RecoveryComplete ==
    \A p \in Procs :
        op[p].pc \notin {"down", "reconcile", "recEntry", "recClaim", "recStage", "recDelete", "recVerify", "failed"}
            => \A k \in Keys : k[1] = op[p].luid => routes[k].by # "orphan"

\* When the transaction has let its operator go (nothing remains), no route it
\* created is left behind, whichever of record, rollback and release failed.
ClosedIsClean ==
    \A p \in Procs : op[p].pc = "closed" => \A k \in Keys : routes[k].by # p

\* A rollback returns: Close can be called again to retry what it retained, as
\* docs/architecture.md promises for a delete whose readback also failed.
CloseReturns ==
    \A p \in Procs : op[p].pc = "rollback" ~> op[p].pc \in {"closed", "retained", "failed", "down"}

\* Ownership is never lost: a route Tachyon created is claimed while it exists,
\* and gone when its transaction has let go, whichever step failed.
OwnershipKept == TypeOK /\ OwnedIsJournaled /\ ClosedIsClean
=============================================================================
