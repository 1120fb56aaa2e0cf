----------------------------- MODULE Lifecycle -----------------------------
(***************************************************************************)
(* The life of the process (src/main.go): what has to go well before it    *)
(* serves, three servers, the collectors and the metrics recorder that     *)
(* Run() starts, the streams and calls of the clients, and the shutdown on *)
(* a signal or on the failure of a server.                                 *)
(*                                                                         *)
(* The recorder is a client of the process's own gRPC server: it holds a   *)
(* GetCronjobs stream like any other client, and GracefulStop() waits for  *)
(* the handler of that stream too.  The handlers (src/sk8l.go) send, sleep *)
(* and send again until a Send fails: GracefulStop() does not cancel them, *)
(* nor a call that waits for the Kubernetes API.                           *)
(***************************************************************************)
EXTENDS Naturals, FiniteSets

CONSTANTS Clients,   \* the clients outside of the process
          Recorder   \* the metrics recorder as a client of the gRPC server

ASSUME RecorderAssumption == Recorder \notin Clients

Peers == Clients \cup {Recorder}

Servers == {"http", "probe", "grpc"}

Collectors == {"cronjobs", "jobs", "pods"}

\* Mutant: room for the one error that main() receives.
ErrChCapacityMutOne == 1

\* make(chan error, 3)
ErrChCapacity == 3

VARIABLES
    main,       \* where main() is
    quit,       \* whether a signal waits in the channel of signal.Notify
    serving,    \* the servers that have not failed and were not shut down
    errCh,      \* number of errors in the channel of startServers
    canceled,   \* whether metricsCancel() was called
    collector,  \* whether each collector's goroutine runs
    recorder,   \* where the recorder's goroutine is
    open,       \* the peers whose side of a stream or call is open
    handler     \* where the handler of each peer's stream or call is

vars == <<main, quit, serving, errCh, canceled, collector, recorder, open, handler>>

\* main() has started no server.
Boot == {"loading", "listening", "opening", "registered"}

\* A signal is not asked for yet.
BeforeNotify == Boot \cup {"serving", "starting"}

MainStates == BeforeNotify \cup {"failed", "running", "httpShutdown", "metricsCancel",
               "grpcStop", "probeStop", "exited", "killed"}

\* The process runs.
Up == main \notin {"failed", "exited", "killed"}

TypeOK ==
    /\ main \in MainStates
    /\ quit \in BOOLEAN
    /\ serving \subseteq Servers
    /\ errCh \in Nat
    /\ canceled \in BOOLEAN
    /\ collector \in [Collectors -> {"idle", "running", "stopped"}]
    /\ recorder \in {"idle", "dialing", "streaming", "waiting", "stopped"}
    /\ open \subseteq Peers
    /\ handler \in [Peers -> {"none", "sending", "sleeping", "calling"}]

Init ==
    /\ main = "loading"
    /\ quit = FALSE
    /\ serving = {}
    /\ errCh = 0
    /\ canceled = FALSE
    /\ collector = [k \in Collectors |-> "idle"]
    /\ recorder = "idle"
    /\ open = {}
    /\ handler = [p \in Peers |-> "none"]

-----------------------------------------------------------------------------
(* main()                                                                  *)

MainGoto(label) == main' = label

\* A step of the boot; log.Fatal ends the process when it does not go well.
BootStep(from, goesWell, to) ==
    /\ main = from
    /\ MainGoto(IF goesWell THEN to ELSE "failed")
    /\ UNCHANGED <<quit, serving, errCh, canceled, collector, recorder, open, handler>>

\* setupTLS: a key pair, a CA file, and a certificate in it.
SetupTLS ==
    \E keyPair, caFile, appended \in BOOLEAN :
        BootStep("loading", keyPair /\ caFile /\ appended, "listening")

\* lc.Listen, for the API's port and for that of the probes.
Listen == \E api, health \in BOOLEAN : BootStep("listening", api /\ health, "opening")

\* NewCronJobDBStore(WithDefaultK8sClient): a client of the cluster the process is
\* in, and Badger's directory, which another process may hold.
NewCronJobDBStore ==
    \E client, db \in BOOLEAN : BootStep("opening", client /\ db, "registered")

\* startServers: each server in a goroutine of its own.
StartServers ==
    /\ main = "registered"
    /\ MainGoto("serving")
    /\ serving' = Servers
    /\ UNCHANGED <<quit, errCh, canceled, collector, recorder, open, handler>>

\* The collectors and the recorder begin, after clients may have called; there is no
\* recorder when grpc.NewClient returns an error.
Run ==
    /\ main = "serving"
    /\ MainGoto("starting")
    /\ collector' = [k \in Collectors |-> "running"]
    /\ recorder' \in {"dialing", "stopped"}
    /\ UNCHANGED <<quit, serving, errCh, canceled, open, handler>>

\* signal.Notify(quit, os.Interrupt, syscall.SIGTERM)
Notify ==
    /\ main = "starting"
    /\ MainGoto("running")
    /\ UNCHANGED <<quit, serving, errCh, canceled, collector, recorder, open, handler>>

\* The kubelet's SIGTERM; the default action ends a process that has not asked
\* to be notified, and the channel has room for one signal.
Signal ==
    /\ Up
    /\ ~quit
    /\ IF main \in BeforeNotify
       THEN MainGoto("killed") /\ UNCHANGED quit
       ELSE quit' = TRUE /\ UNCHANGED main
    /\ UNCHANGED <<serving, errCh, canceled, collector, recorder, open, handler>>

\* The end of the grace period, an OOM kill, the panic of a goroutine.
Kill ==
    /\ Up
    /\ MainGoto("killed")
    /\ UNCHANGED <<quit, serving, errCh, canceled, collector, recorder, open, handler>>

\* case err := <-errCh, case sig := <-quit
StartShutdown ==
    /\ main = "running"
    /\ \/ errCh > 0 /\ errCh' = errCh - 1 /\ UNCHANGED quit
       \/ quit /\ quit' = FALSE /\ UNCHANGED errCh
    /\ MainGoto("httpShutdown")
    /\ UNCHANGED <<serving, canceled, collector, recorder, open, handler>>

\* httpS.Shutdown(shutdownCtx) returns, within 5s; ListenAndServeTLS returns
\* ErrServerClosed, which its goroutine sends to errCh like any error.
ShutdownHTTP ==
    /\ main = "httpShutdown"
    /\ MainGoto("metricsCancel")
    /\ errCh' = IF "http" \in serving THEN errCh + 1 ELSE errCh
    /\ serving' = serving \ {"http"}
    /\ UNCHANGED <<quit, canceled, collector, recorder, open, handler>>

\* Mutants: the gRPC server goes on accepting streams; shutdownServers leaves
\* metricsCancel() to the end.
CancelMetricsMutStillAccepts ==
    /\ main = "metricsCancel"
    /\ canceled' = TRUE
    /\ MainGoto("grpcStop")
    /\ UNCHANGED <<quit, serving, errCh, collector, recorder, open, handler>>

CancelMetricsMutForgotten ==
    /\ main = "metricsCancel"
    /\ MainGoto("grpcStop")
    /\ serving' = serving \ {"grpc"}
    /\ UNCHANGED <<quit, errCh, canceled, collector, recorder, open, handler>>

\* metricsCancel(), and the call of grpcS.GracefulStop(): no more streams are
\* accepted, Serve returns nil.
CancelMetrics ==
    /\ main = "metricsCancel"
    /\ canceled' = TRUE
    /\ MainGoto("grpcStop")
    /\ serving' = serving \ {"grpc"}
    /\ UNCHANGED <<quit, errCh, collector, recorder, open, handler>>

\* Mutant: grpcS.Stop() in the place of grpcS.GracefulStop().
GracefulStopMutStop ==
    /\ main = "grpcStop"
    /\ MainGoto("probeStop")
    /\ serving' = serving \ {"probe"}
    /\ UNCHANGED <<quit, errCh, canceled, collector, recorder, open, handler>>

\* grpcS.GracefulStop() returns when every handler has; probeS.GracefulStop()
\* is called.
GracefulStop ==
    /\ main = "grpcStop"
    /\ \A p \in Peers : handler[p] = "none"
    /\ MainGoto("probeStop")
    /\ serving' = serving \ {"probe"}
    /\ UNCHANGED <<quit, errCh, canceled, collector, recorder, open, handler>>

\* The probes' Check and Watch answer once: nothing keeps probeS waiting.
Exit ==
    /\ main = "probeStop"
    /\ MainGoto("exited")
    /\ UNCHANGED <<quit, serving, errCh, canceled, collector, recorder, open, handler>>

\* A goroutine of startServers: Serve returns an error.
ServeFails(s) ==
    /\ Up
    /\ s \in serving
    /\ errCh' = errCh + 1
    /\ serving' = serving \ {s}
    /\ UNCHANGED <<main, quit, canceled, collector, recorder, open, handler>>

-----------------------------------------------------------------------------
(* The goroutines that Run() started.                                      *)

\* What WatchLoop!StopInBackoff and WatchLoop!StopReceiving come to.
CollectorStops(k) ==
    /\ Up
    /\ canceled
    /\ collector[k] = "running"
    /\ collector' = [collector EXCEPT ![k] = "stopped"]
    /\ UNCHANGED <<main, quit, serving, errCh, canceled, recorder, open, handler>>

\* c.GetCronjobs(ctx, ...): the handler begins.
RecorderDials ==
    /\ Up
    /\ recorder = "dialing"
    /\ ~canceled
    /\ IF "grpc" \in serving /\ handler[Recorder] = "none"
       THEN /\ recorder' = "streaming"
            /\ open' = open \cup {Recorder}
            /\ handler' = [handler EXCEPT ![Recorder] = "sending"]
       ELSE recorder' = "waiting" /\ UNCHANGED <<open, handler>>
    /\ UNCHANGED <<main, quit, serving, errCh, canceled, collector>>

\* Recv() fails: the handler returned an error, or the connection broke.  At the end of
\* the stream (io.EOF) the recorder does not wait.
RecorderLosesStream ==
    /\ Up
    /\ recorder = "streaming"
    /\ Recorder \notin open
    /\ recorder' \in {"waiting", "dialing"}
    /\ UNCHANGED <<main, quit, serving, errCh, canceled, collector, open, handler>>

\* case <-time.After(5 * time.Second)
RecorderRetries ==
    /\ Up
    /\ recorder = "waiting"
    /\ recorder' = "dialing"
    /\ UNCHANGED <<main, quit, serving, errCh, canceled, collector, open, handler>>

\* Mutant: nothing but the blocked Recv() minds the cancellation.
RecorderStopsMutOnlyStreaming ==
    /\ Up
    /\ canceled
    /\ recorder = "streaming"
    /\ recorder' = "stopped"
    /\ open' = open \ {Recorder}
    /\ UNCHANGED <<main, quit, serving, errCh, canceled, collector, handler>>

\* Every select of the recorder has a case <-ctx.Done(); a blocked Recv() fails
\* when its context is canceled.  conn.Close() ends the recorder's stream.
RecorderStops ==
    /\ Up
    /\ canceled
    /\ recorder \notin {"idle", "stopped"}
    /\ recorder' = "stopped"
    /\ open' = open \ {Recorder}
    /\ UNCHANGED <<main, quit, serving, errCh, canceled, collector, handler>>

-----------------------------------------------------------------------------
(* Streams and calls.                                                      *)

Accept(c, label) ==
    /\ Up
    /\ "grpc" \in serving
    /\ c \notin open
    /\ handler[c] = "none"
    /\ open' = open \cup {c}
    /\ handler' = [handler EXCEPT ![c] = label]
    /\ UNCHANGED <<main, quit, serving, errCh, canceled, collector, recorder>>

\* A client calls one of the streaming methods.
Connect(c) == Accept(c, "sending")

\* A client calls GetCronjobYAML, GetJobYAML or GetPodYAML, which ask the
\* Kubernetes API with the call's context, and no deadline of their own.
Call(c) == Accept(c, "calling")

\* A client goes away, or its connection breaks.
Disconnect(p) ==
    /\ p \in open
    /\ open' = open \ {p}
    /\ UNCHANGED <<main, quit, serving, errCh, canceled, collector, recorder, handler>>

\* stream.Send succeeds; time.Sleep(refreshInterval)
HandlerSends(p) ==
    /\ Up
    /\ handler[p] = "sending"
    /\ p \in open
    /\ handler' = [handler EXCEPT ![p] = "sleeping"]
    /\ UNCHANGED <<main, quit, serving, errCh, canceled, collector, recorder, open>>

HandlerWakes(p) ==
    /\ Up
    /\ handler[p] = "sleeping"
    /\ handler' = [handler EXCEPT ![p] = "sending"]
    /\ UNCHANGED <<main, quit, serving, errCh, canceled, collector, recorder, open>>

\* The handler returns: stream.Send fails because the peer is gone, or the
\* store or the Kubernetes API return an error.
HandlerReturns(p) ==
    /\ Up
    /\ handler[p] = "sending"
    /\ handler' = [handler EXCEPT ![p] = "none"]
    /\ open' = open \ {p}
    /\ UNCHANGED <<main, quit, serving, errCh, canceled, collector, recorder>>

HandlerNotices(p) == p \notin open /\ HandlerReturns(p)

\* The API answers, with the object or with an error, and so does the call.
GetYAML(p) ==
    /\ Up
    /\ handler[p] = "calling"
    /\ handler' = [handler EXCEPT ![p] = "none"]
    /\ open' = open \ {p}
    /\ UNCHANGED <<main, quit, serving, errCh, canceled, collector, recorder>>

\* The context of a call whose client is gone ends the request to the API.
GetCanceled(p) == p \notin open /\ GetYAML(p)

-----------------------------------------------------------------------------

BootNext == SetupTLS \/ Listen \/ NewCronJobDBStore \/ StartServers \/ Run

MainNext ==
    \/ BootNext
    \/ Notify
    \/ StartShutdown
    \/ ShutdownHTTP
    \/ CancelMetrics
    \/ GracefulStop
    \/ Exit

RecorderNext ==
    \/ RecorderDials
    \/ RecorderLosesStream
    \/ RecorderRetries
    \/ RecorderStops

Next ==
    \/ MainNext
    \/ Signal
    \/ Kill
    \/ \E s \in Servers : ServeFails(s)
    \/ \E k \in Collectors : CollectorStops(k)
    \/ RecorderNext
    \/ \E c \in Clients : Connect(c) \/ Call(c)
    \/ \E p \in Peers : Disconnect(p)
    \/ \E p \in Peers : HandlerSends(p) \/ HandlerWakes(p) \/ HandlerReturns(p) \/ GetYAML(p)

Spec == Init /\ [][Next]_vars

\* Goroutines run whenever they can: the code's own steps and no one else's.  That
\* the API answers is not assumed.
Fairness ==
    /\ WF_vars(MainNext)
    /\ \A k \in Collectors : WF_vars(CollectorStops(k))
    /\ WF_vars(RecorderNext)
    /\ WF_vars(RecorderStops)
    /\ \A p \in Peers : /\ WF_vars(HandlerSends(p) \/ HandlerNotices(p))
                        /\ WF_vars(HandlerWakes(p))
                        /\ WF_vars(GetCanceled(p))

LiveSpec == Spec /\ Fairness

-----------------------------------------------------------------------------
(* How the servers, the streams and main() keep step: the inductive        *)
(* invariant.                                                              *)

\* An open stream has a handler.
StreamInv == \A p \in open : handler[p] # "none"

\* From GracefulStop() on no stream is accepted, and after it there is none.
DrainInv ==
    /\ main \in {"grpcStop", "probeStop", "exited"} => "grpc" \notin serving
    /\ main \in {"probeStop", "exited"} => \A p \in Peers : handler[p] = "none"

\* A server that still serves has an error to send at most.
ErrChInv == errCh + Cardinality(serving) <= ErrChCapacity

\* Nothing serves before startServers.
BootInv == main \in Boot => errCh = 0 /\ serving = {}

IInv == TypeOK /\ StreamInv /\ DrainInv /\ ErrChInv /\ BootInv

-----------------------------------------------------------------------------
(* Properties.                                                             *)

\* The process is asked to stop: a signal it is notified of, a server's error.
AskedToStop == main = "running" /\ (quit \/ errCh > 0)

\* A graceful exit cuts no stream short: the handlers have returned, and the
\* recorder's stream, which is the process's own, is not open.
ExitAfterDrain ==
    main \in {"probeStop", "exited"} =>
        /\ \A p \in Peers : handler[p] = "none"
        /\ Recorder \notin open

\* No goroutine of startServers hangs in sending its error, although main()
\* receives one at most and the shutdown makes http send another.
SendersNeverBlock == errCh <= ErrChCapacity

\* metricsCancel() comes before GracefulStop(), so the process never waits for
\* its own recorder: the handler of the recorder's stream returns by itself.
RecorderLetsGo == main = "grpcStop" ~> handler[Recorder] = "none" \/ ~Up

\* After the cancellation no collector and no recorder goes on, whatever keeps
\* main() waiting, unless the process is gone before (main() waits for none).
CancellationStopsAll ==
    canceled ~> ~Up \/ (recorder = "stopped"
                        /\ \A k \in Collectors : collector[k] = "stopped")

\* With clients that all leave some day, a process that is asked to stop does.
StopsWhenClientsLeave ==
    (\A c \in Clients : []<>(c \notin open)) => (AskedToStop ~> ~Up)

\* main.go:115: "sk8l will shut down shortly" (on a signal, whatever the
\* clients do).
ShutsDownShortly == main = "running" /\ quit ~> ~Up
=============================================================================
