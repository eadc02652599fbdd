--------------------------- MODULE HelperRuntime ---------------------------
(***************************************************************************)
(* The capture helper's runtime under the Windows service program: Run     *)
(* (validate and start the capture provider, serve the pipe client, clean  *)
(* up), Shutdown with its deadline, the goroutine that stops the provider  *)
(* once, the goroutine that closes the injector once, and the monitor that *)
(* keeps writing the health record to the diagnostic file.                 *)
(*                                                                         *)
(* A deadline may pass at any moment; a call into the provider or the      *)
(* injector may never return.                                              *)
(***************************************************************************)
EXTENDS Naturals

VARIABLES
    capture,      \* the provider itself: "stopped" or "started"
    stopCalls,    \* how often provider.Stop has been called
    cleanup,      \* ProviderCleanup of runtime.health
    stopTimedOut, \* StopTimedOut of runtime.health: its lifecycle is "stop_timeout"
    providerStop, \* the two providerShutdown records
    injectorStop,
    stopper,      \* where the goroutine of startProviderStop is
    closer,       \* where the goroutine of startInjectorClose is
    run,          \* where Run is
    result,       \* what Run returns: "none", "nil" or "error"
    runDone,      \* running is TRUE exactly while this is "open"
    service,      \* where Execute, and the Shutdown it calls, is
    shutdownCtx,  \* the context of that Shutdown: "none", "background", "bounded"
    shutdownErr,  \* its providerErr
    exit,         \* what Execute returns: "none", "clean" or "error"
    monitor,      \* the monitor goroutine: "none", "ticking", "gone"
    cancelled,    \* the context of Run
    clientClosed, \* NamedPipeClient.Close was called
    expired,      \* the deadlines that have passed
    diagnostic,   \* the diagnostic file: "open" or "nil"
    diagnosticMu, \* the goroutine that holds it, or "free"
    wd,           \* writeDiagnostic of each goroutine: where it is
    seen,         \* the record each goroutine read in refreshHealth
    process       \* "alive", "panicked", "terminated" or "exited"

health == <<cleanup, stopTimedOut>>
stopVars == <<stopCalls, providerStop, stopper>>
closeVars == <<injectorStop, closer>>
runVars == <<run, result, runDone>>
serviceVars == <<service, shutdownCtx, shutdownErr, exit>>
diagVars == <<diagnostic, diagnosticMu>>
wdVars == <<wd, seen>>
signals == <<cancelled, clientClosed, expired>>
vars == <<capture, stopVars, closeVars, health, runVars, serviceVars,
          monitor, signals, diagVars, wdVars, process>>

Writers == {"run", "service", "stopper", "monitor"}
NotStarted == [started |-> FALSE, completed |-> FALSE, err |-> "none"]
NotRead == [cleanup |-> "none", stopTimedOut |-> FALSE]

\* NewRuntime, and Execute up to its select.
Init ==
    /\ capture = "stopped" /\ stopCalls = 0 /\ cleanup = "none" /\ stopTimedOut = FALSE
    /\ providerStop = NotStarted /\ injectorStop = NotStarted
    /\ stopper = "none" /\ closer = "none"
    /\ run = "called" /\ result = "none" /\ runDone = "none"
    /\ service = "selecting" /\ shutdownCtx = "none" /\ shutdownErr = FALSE /\ exit = "none"
    /\ monitor = "none"
    /\ cancelled = FALSE /\ clientClosed = FALSE /\ expired = {}
    /\ diagnostic = "open" /\ diagnosticMu = "free"
    /\ wd = [w \in Writers |-> "idle"]
    /\ seen = [w \in Writers |-> NotRead]
    /\ process = "alive"

-----------------------------------------------------------------------------
(* setLifecycle, refreshHealth, writeDiagnostic and closeDiagnostic         *)

\* Of the lifecycle only this is told apart.
setLifecycle(lifecycle) == stopTimedOut' = (lifecycle = "stop_timeout")

\* What a refresh writes back: the lifecycle that it read under the read lock, so
\* that a change since then is lost, and the cleanup state that is current under
\* the write lock.
Refreshed_Read(read) == read
Refreshed(read) == [read EXCEPT !.cleanup = cleanup]

\* The nil check is made before diagnosticMu is taken.
writeCheck(w) ==
    /\ wd[w] = "check"
    /\ wd' = [wd EXCEPT ![w] = IF diagnostic = "nil" THEN "ok" ELSE "lock"]
    /\ UNCHANGED <<seen, health, diagVars, process>>

writeLock(w) ==
    /\ wd[w] = "lock" /\ diagnosticMu = "free"
    /\ diagnosticMu' = w
    /\ seen' = [seen EXCEPT ![w] = [cleanup |-> cleanup, stopTimedOut |-> stopTimedOut]]
    /\ wd' = [wd EXCEPT ![w] = "writing"]
    /\ UNCHANGED <<health, diagnostic, process>>

\* Only Run looks at the result, once.
writeResults(w) == IF w = "run" /\ run = "opening" THEN {"ok", "error"} ELSE {"ok"}

\* Health() stores its refresh, then the record is written; calling Write on
\* the nil interface panics.
writeFile(w) ==
    /\ wd[w] = "writing"
    /\ cleanup' = Refreshed(seen[w]).cleanup
    /\ stopTimedOut' = Refreshed(seen[w]).stopTimedOut
    /\ seen' = [seen EXCEPT ![w] = NotRead]
    /\ diagnosticMu' = "free"
    /\ \/ /\ diagnostic = "open" /\ UNCHANGED process
          /\ \E r \in writeResults(w) : wd' = [wd EXCEPT ![w] = r]
       \/ /\ diagnostic = "nil" /\ process' = "panicked"
          /\ wd' = [wd EXCEPT ![w] = "error"]
    /\ UNCHANGED diagnostic

writeDiagnostic(w) ==
    /\ writeCheck(w) \/ writeLock(w) \/ writeFile(w)
    /\ UNCHANGED <<capture, stopVars, closeVars, runVars, serviceVars, monitor, signals>>

\* How a goroutine calls writeDiagnostic and returns from it.  A refreshHealth
\* just before the call does nothing that the one inside does not do again.
enter(w) == wd' = [wd EXCEPT ![w] = "check"] /\ UNCHANGED seen
written(w) == wd[w] \in {"ok", "error"}
leave(w) == wd' = [wd EXCEPT ![w] = "idle"] /\ UNCHANGED seen

closeDiagnostic ==
    /\ diagnosticMu = "free"
    /\ diagnostic' = "nil"
    /\ UNCHANGED diagnosticMu

-----------------------------------------------------------------------------
(* Stopping the provider and closing the injector, each once                *)

mayStart(s) == ~s.started

startProviderStop ==
    \/ /\ mayStart(providerStop)
       /\ providerStop' = [providerStop EXCEPT !.started = TRUE]
       /\ stopper' = "begin"
       /\ UNCHANGED stopCalls
    \/ /\ ~mayStart(providerStop)
       /\ UNCHANGED stopVars

startInjectorClose ==
    \/ /\ ~injectorStop.started
       /\ injectorStop' = [injectorStop EXCEPT !.started = TRUE]
       /\ closer' = "waiting"
    \/ /\ injectorStop.started
       /\ UNCHANGED closeVars

\* The goroutine marks the cleanup as stopping and calls provider.Stop.
stopBegins ==
    /\ stopper = "begin"
    /\ cleanup' = "stopping"
    /\ stopCalls' = stopCalls + 1
    /\ stopper' = "waiting"
    /\ UNCHANGED <<providerStop, capture, stopTimedOut, wdVars, process>>

completed(s, err) == [s EXCEPT !.completed = TRUE, !.err = err]

\* finishProviderStop publishes the result and releases the waiters, then, in a
\* second critical section, records it in the health.
finish(err) ==
    /\ providerStop' = completed(providerStop, err)
    /\ stopper' = "record"

\* provider.Stop answers in time, with or without an error; an answer after the
\* deadline is dropped.
stopAnswered ==
    /\ stopper = "waiting"
    /\ \/ finish("nil") /\ capture' = "stopped"
       \/ finish("error") /\ UNCHANGED capture
    /\ UNCHANGED <<stopCalls, health, wdVars, process>>

stopDeadline_Unbounded == FALSE
stopDeadline ==
    /\ stopper = "waiting"
    /\ stopper' = "timeout"
    /\ setLifecycle("stop_timeout")
    /\ enter("stopper")
    /\ UNCHANGED <<stopCalls, providerStop, capture, cleanup, process>>

\* FailStop ends the process, or fails.
failStop ==
    /\ stopper = "timeout" /\ written("stopper")
    /\ \/ /\ process' = "terminated"
          /\ UNCHANGED <<stopVars, wdVars>>
       \/ /\ finish("timeout") /\ leave("stopper")
          /\ UNCHANGED <<stopCalls, process>>
    /\ UNCHANGED <<capture, health>>

recordCleanup ==
    /\ stopper = "record" /\ stopper' = "gone"
    /\ \/ providerStop.err = "nil" /\ cleanup' = "confirmed" /\ UNCHANGED stopTimedOut
       \/ providerStop.err = "error" /\ cleanup' = "failed" /\ setLifecycle("failed")
       \/ providerStop.err = "timeout" /\ cleanup' = "failed" /\ setLifecycle("stop_timeout")
    /\ UNCHANGED <<stopCalls, providerStop, capture, wdVars, process>>

\* injector.Close answers, or its deadline passes, which is an error too; an error
\* is recorded in a second critical section.
finishInjectorClose(err) ==
    /\ closer = "waiting"
    /\ closer' = IF err = "nil" THEN "gone" ELSE "record"
    /\ injectorStop' = completed(injectorStop, err)
    /\ UNCHANGED stopTimedOut

recordClose ==
    /\ closer = "record" /\ closer' = "gone"
    /\ setLifecycle("failed")
    /\ UNCHANGED injectorStop

StopperSteps == stopBegins \/ stopDeadline \/ failStop \/ recordCleanup
stopRest == UNCHANGED <<closeVars, runVars, serviceVars, monitor, signals, diagVars>>
closeRest == UNCHANGED <<capture, stopVars, cleanup, runVars, serviceVars, monitor, signals,
                         diagVars, wdVars, process>>

Stopping == StopperSteps /\ stopRest
Closing == (finishInjectorClose("error") \/ recordClose) /\ closeRest
answers ==
    \/ stopAnswered /\ stopRest
    \/ finishInjectorClose("nil") /\ closeRest

-----------------------------------------------------------------------------
(* Run                                                                      *)

goto(p) == run' = p
quiet == UNCHANGED <<cleanup, serviceVars, signals, process>>

runBegins ==
    /\ run = "called" /\ goto("validating")
    /\ runDone' = "open"
    /\ setLifecycle("starting")
    /\ UNCHANGED <<capture, stopVars, closeVars, result, monitor, diagVars, wdVars>>

\* The contract of the provider is not, or is, the one that is required.
runRefuses ==
    /\ run = "validating" /\ goto("refused")
    /\ result' = "error" /\ setLifecycle("failed")
    /\ enter("run")
    /\ UNCHANGED <<capture, stopVars, closeVars, runDone, monitor, diagVars>>

\* The monitor may be scheduled from here on; the code spawns it after the
\* first refreshHealth.
runAccepts ==
    /\ run = "validating" /\ goto("opening")
    /\ monitor' = "ticking"
    /\ setLifecycle("running")
    /\ enter("run")
    /\ UNCHANGED <<capture, stopVars, closeVars, result, runDone, diagVars>>

runOpened ==
    /\ run = "opening" /\ written("run") /\ leave("run")
    /\ \/ wd["run"] = "ok" /\ goto("provider") /\ UNCHANGED result
       \/ wd["run"] = "error" /\ goto("ending") /\ result' = "error"
    /\ UNCHANGED <<capture, stopVars, closeVars, runDone, monitor, diagVars>>

\* A provider that is not ready and verified is not started.  One that fails to
\* start may have started in part.
runStartsProvider ==
    /\ run = "provider"
    /\ \/ /\ goto("client") /\ capture' \in {capture, "started"}
          /\ UNCHANGED <<result, stopTimedOut>>
       \/ /\ goto("ending") /\ capture' \in {"stopped", "started"}
          /\ result' = "error" /\ setLifecycle("failed")
    /\ UNCHANGED <<stopVars, closeVars, runDone, monitor, diagVars, wdVars>>

\* NamedPipeClient.Run refuses when the client is closed, and otherwise serves
\* until its context is cancelled, by the service or by Close.
runClientRefuses ==
    /\ run = "client" /\ clientClosed /\ goto("served")
    /\ result' = "error" /\ setLifecycle("failed")
    /\ enter("run")
    /\ UNCHANGED <<capture, stopVars, closeVars, runDone, monitor, diagVars>>

runServes ==
    /\ run = "client" /\ ~clientClosed /\ goto("serving")
    /\ UNCHANGED <<capture, stopVars, closeVars, result, runDone, monitor, diagVars, wdVars>>

runServed ==
    /\ run = "serving" /\ (cancelled \/ clientClosed) /\ goto("served")
    /\ result' = "nil"
    /\ enter("run")
    /\ UNCHANGED <<capture, stopVars, closeVars, runDone, monitor, diagVars>>

runEnds ==
    /\ run \in {"refused", "served"} /\ written("run") /\ leave("run") /\ goto("ending")
    /\ UNCHANGED <<capture, stopVars, closeVars, result, runDone, monitor, diagVars>>

\* The deferred cleanup, on every way out: the monitor is told, the provider
\* stopped and the injector closed, both under the cleanup deadline.
runStopsProvider ==
    /\ run = "ending" /\ goto("stopping")
    /\ startProviderStop
    /\ UNCHANGED <<capture, closeVars, result, runDone, monitor, diagVars, wdVars>>

\* The outcome an await of a stop gives its caller; "pending" is the deadline.
outcome(s) == IF s.completed THEN s.err ELSE "pending"
joined(r, s) == IF r = "nil" /\ outcome(s) # "nil" THEN "error" ELSE r

closesInjector_OnSuccess ==
    \/ outcome(providerStop) = "nil" /\ startInjectorClose
    \/ outcome(providerStop) # "nil" /\ UNCHANGED closeVars
closesInjector == startInjectorClose

runClosesInjector ==
    /\ run = "stopping" /\ goto("closing")
    /\ providerStop.completed \/ "cleanup" \in expired
    /\ result' = joined(result, providerStop)
    /\ closesInjector
    /\ UNCHANGED <<capture, stopVars, runDone, monitor, diagVars, wdVars>>

runCleaned ==
    /\ run = "closing" /\ goto("cleaned")
    /\ injectorStop.completed \/ "cleanup" \in expired
    /\ result' = joined(result, injectorStop)
    /\ enter("run")
    /\ UNCHANGED <<capture, stopVars, closeVars, runDone, monitor, diagVars>>

runDoneClosed == "closed"

runReleases ==
    /\ run = "cleaned" /\ written("run") /\ leave("run") /\ goto("released")
    /\ runDone' = runDoneClosed
    /\ UNCHANGED <<capture, stopVars, closeVars, result, monitor, diagVars>>

runReturns ==
    /\ run = "released" /\ goto("returned")
    /\ closeDiagnostic
    /\ UNCHANGED <<capture, stopVars, closeVars, result, runDone, monitor, wdVars>>

Run ==
    /\ \/ runBegins \/ runRefuses \/ runAccepts \/ runStartsProvider \/ runClientRefuses
       \/ /\ \/ runOpened \/ runServes \/ runServed \/ runEnds \/ runStopsProvider
             \/ runClosesInjector \/ runCleaned \/ runReleases \/ runReturns
          /\ UNCHANGED stopTimedOut
    /\ quiet

-----------------------------------------------------------------------------
(* The monitor                                                              *)

\* The writeDiagnostic of the last tick has returned.
monitorIdle == wd["monitor"] \in {"idle", "ok", "error"}

monitorTicks ==
    /\ monitor = "ticking" /\ monitorIdle
    /\ enter("monitor")
    /\ UNCHANGED monitor

\* Run closes monitorDone before its cleanup.
monitorDone == run \in {"stopping", "closing", "cleaned", "released", "returned"}

monitorStops ==
    /\ monitor = "ticking" /\ monitorIdle /\ (cancelled \/ monitorDone)
    /\ monitor' = "gone"
    /\ leave("monitor")

monitorDiagnostic ==
    /\ monitorTicks \/ monitorStops
    /\ UNCHANGED <<capture, stopVars, closeVars, health, runVars, serviceVars,
                   signals, diagVars, process>>

-----------------------------------------------------------------------------
(* Execute and Shutdown                                                     *)

served == UNCHANGED <<cleanup, capture, runVars, monitor>>
serve(p) == service' = p
returns(e) == exit' = e /\ process' = "exited" /\ serve("returned")
stays == UNCHANGED <<exit, process>>

\* A stop request cancels the context of Run before Shutdown is called.
stopRequested ==
    /\ service = "selecting" /\ serve("requested")
    /\ cancelled' = TRUE /\ shutdownCtx' = "bounded"
    /\ stays /\ UNCHANGED <<shutdownErr, stopVars, closeVars, clientClosed, expired, diagVars, wdVars>>

runResult ==
    /\ service = "selecting" /\ run = "returned" /\ serve("requested")
    /\ shutdownCtx' = "background"
    /\ stays /\ UNCHANGED <<shutdownErr, stopVars, closeVars, signals, diagVars, wdVars>>

Shutdown ==
    /\ service = "requested" /\ serve("stopping")
    /\ clientClosed' = TRUE
    /\ startProviderStop
    /\ stays /\ UNCHANGED <<shutdownCtx, shutdownErr, closeVars, cancelled, expired, diagVars, wdVars>>

running == runDone = "open"
errorOf(s) == outcome(s) # "nil"

\* The provider has stopped or the deadline has passed; Shutdown waits for Run
\* when it is running and closes the injector itself when it is not.
shutdownStopped ==
    /\ service = "stopping"
    /\ providerStop.completed \/ "shutdown" \in expired
    /\ shutdownErr' = errorOf(providerStop)
    /\ \/ running /\ serve("awaiting") /\ UNCHANGED closeVars
       \/ ~running /\ serve("alone") /\ startInjectorClose
    /\ stays /\ UNCHANGED <<shutdownCtx, stopVars, signals, diagVars, wdVars>>

shutdownRunDone ==
    /\ service = "awaiting" /\ runDone = "closed" /\ serve("final")
    /\ stays /\ UNCHANGED <<shutdownCtx, shutdownErr, stopVars, closeVars, signals, diagVars, wdVars>>

shutdownTimeout ==
    /\ service = "awaiting" /\ "shutdown" \in expired /\ serve("timeout")
    /\ setLifecycle("stop_timeout")
    /\ enter("service")
    /\ stays /\ UNCHANGED <<shutdownCtx, shutdownErr, stopVars, closeVars, signals, diagVars>>

shutdownTimeoutWritten ==
    /\ service = "timeout" /\ written("service") /\ leave("service") /\ serve("giving_up")
    /\ startInjectorClose
    /\ stays /\ UNCHANGED <<shutdownCtx, shutdownErr, stopVars, signals, diagVars>>

shutdownGivesUp ==
    /\ service = "giving_up" /\ serve("given_up")
    /\ injectorStop.completed \/ "shutdown" \in expired
    /\ \/ (shutdownErr \/ errorOf(injectorStop)) /\ setLifecycle("failed")
       \/ ~(shutdownErr \/ errorOf(injectorStop)) /\ UNCHANGED stopTimedOut
    /\ enter("service")
    /\ stays /\ UNCHANGED <<shutdownCtx, shutdownErr, stopVars, closeVars, signals, diagVars>>

shutdownGivenUp ==
    /\ service = "given_up" /\ written("service") /\ leave("service")
    /\ returns("error")
    /\ UNCHANGED <<shutdownCtx, shutdownErr, stopVars, closeVars, signals, diagVars>>

\* What Execute makes of the answer of Shutdown: after a stop request its error
\* is the exit code, after a result of Run that result is.
exitCode(shutdownFailed) ==
    IF shutdownCtx = "bounded" THEN (IF shutdownFailed THEN "error" ELSE "clean")
    ELSE IF result = "nil" THEN "clean" ELSE "error"

shutdownAlone ==
    /\ service = "alone"
    /\ injectorStop.completed \/ "shutdown" \in expired
    /\ \/ (shutdownErr \/ errorOf(injectorStop)) /\ returns(exitCode(TRUE))
       \/ ~(shutdownErr \/ errorOf(injectorStop)) /\ serve("detach") /\ stays
    /\ UNCHANGED <<shutdownCtx, shutdownErr, stopVars, closeVars, signals, diagVars, wdVars>>

shutdownDetaches ==
    /\ service = "detach" /\ serve("final")
    /\ closeDiagnostic
    /\ stays /\ UNCHANGED <<shutdownCtx, shutdownErr, stopVars, closeVars, signals, wdVars>>

injectorFailed == injectorStop.completed /\ injectorStop.err # "nil"

shutdownFails ==
    /\ service = "final" /\ (shutdownErr \/ injectorFailed)
    /\ returns(exitCode(TRUE))
    /\ UNCHANGED <<shutdownCtx, shutdownErr, stopVars, closeVars, signals, diagVars, wdVars>>

shutdownStops ==
    /\ service = "final" /\ ~(shutdownErr \/ injectorFailed) /\ serve("stopped")
    /\ setLifecycle("stopped")
    /\ enter("service")
    /\ stays /\ UNCHANGED <<shutdownCtx, shutdownErr, stopVars, closeVars, signals, diagVars>>

shutdownReturns ==
    /\ service = "stopped" /\ written("service") /\ leave("service")
    /\ returns(exitCode(FALSE))
    /\ UNCHANGED <<shutdownCtx, shutdownErr, stopVars, closeVars, signals, diagVars>>

ShutdownSteps ==
    \/ shutdownTimeout \/ shutdownGivesUp \/ shutdownStops
    \/ /\ \/ Shutdown \/ shutdownStopped \/ shutdownRunDone
          \/ shutdownTimeoutWritten \/ shutdownGivenUp
          \/ shutdownAlone \/ shutdownDetaches \/ shutdownFails \/ shutdownReturns
       /\ UNCHANGED stopTimedOut

-----------------------------------------------------------------------------
\* The deadlines of the two contexts that are waited on more than once.  They pass
\* while somebody waits; had they passed before, the wait would end alike.
deadlinePasses ==
    /\ \/ /\ \/ run = "stopping" /\ ~providerStop.completed
             \/ run = "closing" /\ ~injectorStop.completed
          /\ "cleanup" \notin expired /\ expired' = expired \cup {"cleanup"}
       \/ /\ \/ service = "stopping" /\ ~providerStop.completed
             \/ service = "awaiting"
             \/ service = "alone" /\ ~injectorStop.completed
          /\ shutdownCtx = "bounded"
          /\ "shutdown" \notin expired /\ expired' = expired \cup {"shutdown"}
    /\ UNCHANGED <<capture, stopVars, closeVars, health, runVars, serviceVars, monitor,
                   cancelled, clientClosed, diagVars, wdVars, process>>

\* What the runtime does by itself: no stop request and no answer of the
\* provider or the injector.
Progress ==
    \/ Run \/ Stopping \/ Closing \/ deadlinePasses
    \/ ShutdownSteps /\ served
    \/ runResult /\ served /\ UNCHANGED stopTimedOut
    \/ \E w \in Writers : writeDiagnostic(w)

Alive(A) == process = "alive" /\ A
Next == Alive(Progress \/ monitorDiagnostic \/ answers
              \/ (stopRequested /\ served /\ UNCHANGED stopTimedOut))

Spec == Init /\ [][Next]_vars

(***************************************************************************)
(* Run goes on while it can, some other goroutine does, deadlines pass and *)
(* the monitor, whose select chooses at random, does not take a tick every *)
(* time while its end is signalled too.  No stop request and no answer of  *)
(* the provider or the injector is assumed.                                *)
(***************************************************************************)
FairSpec ==
    /\ Spec
    /\ WF_vars(Alive(Run))
    /\ WF_vars(Alive(Progress))
    /\ SF_vars(Alive(monitorDiagnostic /\ monitor' = "gone"))

-----------------------------------------------------------------------------
\* Type invariant of the runtime, its two stops and the diagnostic file.
TypeOK ==
    /\ capture \in {"stopped", "started"}
    /\ stopCalls \in Nat
    /\ cleanup \in {"none", "stopping", "confirmed", "failed"} /\ stopTimedOut \in BOOLEAN
    /\ \A s \in {providerStop, injectorStop} :
          /\ s.completed => s.started
          /\ s.err \in (IF s.completed THEN {"nil", "error", "timeout"} ELSE {"none"})
    /\ stopper \in {"none", "begin", "waiting", "timeout", "record", "gone"}
    /\ closer \in {"none", "waiting", "record", "gone"}
    /\ runDone \in {"none", "open", "closed"}
    /\ monitor \in {"none", "ticking", "gone"}
    /\ expired \subseteq {"cleanup", "shutdown"}
    /\ diagnosticMu \in Writers \cup {"free"}
    /\ \A w \in Writers : (diagnosticMu = w) <=> (wd[w] = "writing")
    /\ process \in {"alive", "panicked", "terminated", "exited"}

\* provider.Stop is called once, whoever of Run and Shutdown asks first and
\* however often they ask (startProviderStop).
StopOnce == stopCalls <= 1

(***************************************************************************)
(* The helper answers a stop request with success only when the provider   *)
(* has confirmed its stop without an error, before any deadline, and the   *)
(* close of the injector was at least begun (Shutdown and Execute).        *)
(***************************************************************************)
CleanStopConfirmed ==
    exit = "clean" /\ shutdownCtx = "bounded" =>
        providerStop.err = "nil" /\ injectorStop.started

(***************************************************************************)
(* On every way out of Run (contract refused, file not writable, provider  *)
(* not started, client closed, context cancelled) the stop of the provider *)
(* and the close of the injector have begun before runDone is closed.  Run *)
(* returns no error only when both succeeded in time and the provider      *)
(* really captures no more: whoever lets it serve has not stopped the      *)
(* provider before it was started.                                         *)
(***************************************************************************)
RunCleansUp ==
    /\ runDone = "closed" => providerStop.started /\ injectorStop.started
    /\ run = "returned" /\ result = "nil" =>
          capture = "stopped" /\ providerStop.err = "nil" /\ injectorStop.err = "nil"

(***************************************************************************)
(* The cleanup state of the health record goes from none to stopping to    *)
(* the outcome of the stop and never back, although every refresh of four  *)
(* goroutines rewrites the whole record from an older reading              *)
(* (refreshHealth, finishProviderStop).                                    *)
(***************************************************************************)
CleanupForward ==
    [][cleanup' # cleanup =>
          \/ cleanup = "none" /\ cleanup' = "stopping"
          \/ cleanup = "stopping"
             /\ cleanup' = IF providerStop.err = "nil" THEN "confirmed" ELSE "failed"]_vars

(***************************************************************************)
(* After a stop request, and once Run has begun its cleanup for whatever   *)
(* reason, the process comes to an end, even when the provider and the     *)
(* injector never answer (Run, Shutdown, startProviderStop): Run releases  *)
(* runDone and returns, and Execute makes its Shutdown of that.            *)
(***************************************************************************)
HelperEnds == service = "requested" \/ run = "ending" ~> process # "alive"

\* Stopping is sound: one stop of the provider, no success without its
\* confirmation, and no way out of Run around the cleanup.
StopSound == TypeOK /\ StopOnce /\ CleanStopConfirmed /\ RunCleansUp
=============================================================================
