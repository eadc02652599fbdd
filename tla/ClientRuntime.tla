--------------------------- MODULE ClientRuntime ---------------------------
(***************************************************************************)
(* The TUN client of internal/app/app.go (runClient) composed with the TGP *)
(* client manager: the goroutine that acquires the device, the routes, the *)
(* manager and the HTTP bridge and releases them in the reverse order, and *)
(* the goroutine of internal/pipeline/pipeline.go that reads captured      *)
(* packets and sends them through the manager.  The read loops of the      *)
(* manager write what they receive to the same device.                     *)
(*                                                                         *)
(* runClient cancels the pipeline but does not wait for it.  The device,   *)
(* the route transaction (RouteJournal) and the HTTP server are external:  *)
(* a call on them returns, and may fail.  Routing decides any action for   *)
(* any packet; a packet that is dropped or unsupported changes nothing.    *)
(***************************************************************************)
EXTENDS ClientManager, Sequences

CONSTANT
    Pipeline            \* the caller that is the packet pipeline; further callers
                        \* are further users of the manager, which runClient has none of

ASSUME PipelineAssumption == Pipeline \in Callers

VARIABLES
    run,                \* where runClient is
    deferred,           \* number of its deferred releases still to run
    cancelledCtx,       \* the client's context is done
    tun,                \* tunDevice
    routes,             \* routeTxn: "kept" and "left" count failed rollbacks
    bridge,             \* httpServer
    pipe                \* the goroutine of packetPipeline.Run

main        == <<run, deferred, cancelledCtx>>
resources   == <<tun, routes, bridge>>
runtimeVars == <<main, resources, pipe, vars>>

\* The releases, in the order of their defer statements.
Releases == <<"tunDevice", "routeTxn", "tgpManager">>

RuntimeInit ==
    /\ Init
    /\ run = "tun"
    /\ deferred = 0
    /\ cancelledCtx = FALSE
    /\ tun = "none"
    /\ routes = "none"
    /\ bridge = "none"
    /\ pipe = "none"

-----------------------------------------------------------------------------
(* Start-up: one acquisition per step; a failing one unwinds the earlier.  *)

\* A defer statement: the next of Releases will run.
defer == deferred' = deferred + 1

newTUN ==
    /\ run = "tun"
    /\ tun' = "open"
    /\ defer
    /\ run' = "routes"
    /\ UNCHANGED <<cancelledCtx, routes, bridge, pipe, vars>>

installSelectiveRoutes ==
    /\ run = "routes"
    /\ routes' = "installed"
    /\ defer
    /\ run' = "manager"
    /\ UNCHANGED <<cancelledCtx, tun, bridge, pipe, vars>>

newManager ==
    /\ run = "manager"
    /\ defer
    /\ run' = "bridge"
    /\ UNCHANGED <<cancelledCtx, resources, pipe, vars>>

\* The bridge serves, or is disabled when no token handoff is configured.
startBridge ==
    /\ run = "bridge"
    /\ bridge' \in {"serving", "none"}
    /\ run' = "pipeline"
    /\ UNCHANGED <<deferred, cancelledCtx, tun, routes, pipe, vars>>

startPipeline ==
    /\ run = "pipeline"
    /\ pipe' = "running"
    /\ run' = "serving"
    /\ UNCHANGED <<deferred, cancelledCtx, resources, vars>>

\* An error return.  A failed installation rolls itself back, which may fail too,
\* and there is no transaction to close then.
startupFails ==
    /\ run \in {"tun", "routes", "manager", "bridge"}
    /\ routes' \in (IF run = "routes" THEN {"none", "left"} ELSE {routes})
    /\ run' = "unwind"
    /\ UNCHANGED <<deferred, cancelledCtx, tun, bridge, pipe, vars>>

-----------------------------------------------------------------------------
(* Serving and shutdown.                                                   *)

\* errCh has room for both senders.
subsystemFailed == "failed" \in {bridge, pipe}

stopServing ==
    /\ run = "serving"
    /\ cancelledCtx \/ subsystemFailed
    /\ cancelledCtx' = TRUE
    /\ run' = "shutdown"
    /\ UNCHANGED <<deferred, resources, pipe, vars>>

\* httpServer.Shutdown returns within its timeout.
shutdownBridge ==
    /\ run = "shutdown"
    /\ bridge' = "none"
    /\ run' = "rollback"
    /\ UNCHANGED <<deferred, cancelledCtx, tun, routes, pipe, vars>>

\* routeTxn.Close removes the routes, or fails and can be tried again.
closeRoutes(failed) ==
    routes' \in (IF routes \in {"installed", "kept"} THEN {"none", failed} ELSE {routes})

rollbackRoutes ==
    /\ run = "rollback"
    /\ closeRoutes("kept")
    /\ run' = "unwind"
    /\ UNCHANGED <<deferred, cancelledCtx, tun, bridge, pipe, vars>>

\* Fault: the releases run in the order in which they were registered.
nextDeferred_First == Releases[Len(Releases) + 1 - deferred]

\* Deferred calls run last in, first out.
nextDeferred == Releases[deferred]

released == deferred' = deferred - 1

unwinding(release) == run = "unwind" /\ deferred > 0 /\ nextDeferred = release

\* tgpManager.Close, from its call to its return.
callManagerClose ==
    /\ unwinding("tgpManager")
    /\ closeCancel
    /\ UNCHANGED <<main, resources, pipe>>

managerClosed ==
    /\ unwinding("tgpManager")
    /\ closer = "returned"
    /\ released
    /\ UNCHANGED <<run, cancelledCtx, resources, pipe, vars>>

deferredRollback ==
    /\ unwinding("routeTxn")
    /\ closeRoutes("left")
    /\ released
    /\ UNCHANGED <<run, cancelledCtx, tun, bridge, pipe, vars>>

closeTUN ==
    /\ unwinding("tunDevice")
    /\ tun' = "closed"
    /\ released
    /\ UNCHANGED <<run, cancelledCtx, routes, bridge, pipe, vars>>

\* The deferred cancelClient is the last.
returns ==
    /\ run = "unwind" /\ deferred = 0
    /\ cancelledCtx' = TRUE
    /\ run' = "returned"
    /\ UNCHANGED <<deferred, resources, pipe, vars>>

-----------------------------------------------------------------------------
(* The packet pipeline.                                                    *)

\* The pipeline has one packet at a time: it reads the next when SendPacket has
\* returned, whatever that returned.
reading == pipe = "running" /\ pc[Pipeline] = "idle"

\* A packet that goes to the tunnel: clientPacketHandler calls SendPacket.
sendCaptured ==
    /\ reading /\ tun = "open"
    /\ call(Pipeline)
    /\ UNCHANGED <<main, resources, pipe>>

\* A captured packet decided "direct" ends the pipeline, and the client with it,
\* unless the client is stopping.
rejectDirect ==
    /\ reading /\ tun = "open" /\ ~cancelledCtx
    /\ pipe' = "failed"
    /\ UNCHANGED <<main, resources, vars>>

\* ReadPacket fails.  The end of the file, and any error of a client that stops,
\* end the pipeline without an error.
readFails ==
    /\ reading
    /\ pipe' \in (IF cancelledCtx THEN {"done"} ELSE {"done", "failed"})
    /\ UNCHANGED <<main, resources, vars>>

-----------------------------------------------------------------------------
(* The environment.                                                        *)

interrupt ==
    /\ ~cancelledCtx /\ run # "returned"
    /\ cancelledCtx' = TRUE
    /\ UNCHANGED <<run, deferred, resources, pipe, vars>>

bridgeFails ==
    /\ bridge = "serving"
    /\ bridge' = "failed"
    /\ UNCHANGED <<main, tun, routes, pipe, vars>>

-----------------------------------------------------------------------------
(* The manager at work: its callers, its sessions with their read loops, and *)
(* Close once it was called.                                               *)

runtimeUnchanged == UNCHANGED <<main, resources, pipe>>

callerStep(c) == Caller(c) /\ runtimeUnchanged
readerStep(n) == Reader(n) /\ runtimeUnchanged
closeStep     == Close /\ runtimeUnchanged

\* The context of the callers is the client's.
otherStep ==
    /\ \/ \E c \in Callers : giveUp(c) /\ cancelledCtx
       \/ \E c \in Callers \ {Pipeline} : call(c) /\ pipe # "none"
       \/ \E n \in Dials : sessionDies(n)
    /\ runtimeUnchanged

managerStep ==
    \/ \E c \in Callers : callerStep(c)
    \/ \E n \in Dials : readerStep(n)
    \/ closeStep
    \/ otherStep

StartUp == \/ newTUN \/ installSelectiveRoutes \/ newManager \/ startBridge
           \/ startPipeline \/ startupFails
Unwind == callManagerClose \/ managerClosed \/ deferredRollback \/ closeTUN \/ returns
RunClient == StartUp \/ stopServing \/ shutdownBridge \/ rollbackRoutes \/ Unwind
RunPipeline == sendCaptured \/ rejectDirect \/ readFails

RuntimeNext == RunClient \/ RunPipeline \/ interrupt \/ bridgeFails \/ managerStep

RuntimeSpec == RuntimeInit /\ [][RuntimeNext]_runtimeVars

\* runClient and the manager's goroutines are scheduled; a dial returns within the
\* handshake timeout, and a blocked SendPacket, RecvPacket or session.Close once its
\* session is closed; a read of a closed device returns; start-up calls and
\* routeTxn.Close return.  Nobody is obliged to call, to fail or to interrupt.
RuntimeFairness ==
    /\ WF_runtimeVars(RunClient)
    /\ WF_runtimeVars(tun = "closed" /\ readFails)
    /\ \A c \in Callers : WF_runtimeVars(callerStep(c))
    /\ \A n \in Dials : WF_runtimeVars(readerStep(n))
    /\ WF_runtimeVars(closeStep)

FairRuntimeSpec == RuntimeSpec /\ RuntimeFairness

-----------------------------------------------------------------------------
(* Properties.                                                             *)

RunPlaces == {"tun", "routes", "manager", "bridge", "pipeline", "serving",
              "shutdown", "rollback", "unwind", "returned"}

\* Every variable of the runtime keeps its type.
RuntimeTypeOK ==
    /\ run \in RunPlaces
    /\ deferred \in 0..Len(Releases)
    /\ cancelledCtx \in BOOLEAN
    /\ tun \in {"none", "open", "closed"}
    /\ routes \in {"none", "installed", "kept", "left"}
    /\ bridge \in {"none", "serving", "failed"}
    /\ pipe \in {"none", "running", "failed", "done"}

\* OnDatagram writes to the TUN device from the read loops: while one is counted
\* or running the device is open, so no packet is written to a released session
\* of the driver, however the shutdown of the client meets a dial or a failure.
WritersHaveDevice ==
    (\E n \in Dials : reader[n] \notin {"none", "done"}) => tun = "open"

\* No route of a running transaction points at a device that is gone: game
\* traffic is never captured by nobody, unless removing the routes failed for good.
RoutesHaveDevice == routes \in {"installed", "kept"} => tun = "open"

\* What runClient leaves behind when it returns, from start-up failures too: no
\* device, no bridge, no session and no read loop.
ReturnedIsClean ==
    run = "returned" =>
        /\ tun # "open" /\ routes \in {"none", "left"} /\ bridge # "serving"
        /\ \A n \in Dials : life[n] # "established" /\ reader[n] \in {"none", "done"}

ClientSound == RuntimeTypeOK /\ WritersHaveDevice /\ RoutesHaveDevice /\ ReturnedIsClean

\* A client that is interrupted, or one of whose subsystems failed, returns,
\* although the pipeline it does not wait for may sit in a dial or a send.
ClientReturns == (cancelledCtx \/ subsystemFailed) ~> (run = "returned")

\* The pipeline does not survive the client for long.
PipelineEnds == (run = "returned") ~> (pipe \in {"none", "failed", "done"})

\* Shutdown releases everybody: runClient, the pipeline, Close of the manager and
\* the callers that wait for a dial.
EverybodyReleased == NobodyWaitsForever /\ ClientReturns /\ PipelineEnds
=============================================================================
