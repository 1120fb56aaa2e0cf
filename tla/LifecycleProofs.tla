-------------------------- MODULE LifecycleProofs --------------------------
(***************************************************************************)
(* Proofs about the shutdown, for every set of clients: IInv is inductive, *)
(* and a graceful exit cuts no stream short.                               *)
(***************************************************************************)
EXTENDS Lifecycle, FiniteSetTheorems, TLAPS

\* Servers are a finite set, of which each step takes one away at most.
LEMMA ServingFinite ==
  ASSUME TypeOK
  PROVE  /\ IsFiniteSet(serving)
         /\ Cardinality(serving) \in Nat
         /\ \A s : Cardinality(serving \ {s}) \in Nat
         /\ \A s \in serving : Cardinality(serving \ {s}) = Cardinality(serving) - 1
         /\ \A s : Cardinality(serving \ {s}) <= Cardinality(serving)
<1>1. IsFiniteSet(Servers)
  <2>1. Servers = (({} \cup {"http"}) \cup {"probe"}) \cup {"grpc"}
    BY DEF Servers
  <2> QED
    BY <2>1, FS_EmptySet, FS_AddElement
<1>2. IsFiniteSet(serving)
  BY <1>1, FS_Subset DEF TypeOK
<1>3. Cardinality(serving) \in Nat
  BY <1>2, FS_CardinalityType
<1>4. ASSUME NEW s \in serving
      PROVE  Cardinality(serving \ {s}) = Cardinality(serving) - 1
  BY <1>2, FS_RemoveElement
<1>5. ASSUME NEW s, s \notin serving PROVE serving \ {s} = serving
  BY <1>5
<1>6. ASSUME NEW s
      PROVE  /\ Cardinality(serving \ {s}) \in Nat
             /\ Cardinality(serving \ {s}) <= Cardinality(serving)
  <2>1. IsFiniteSet(serving \ {s})
    BY <1>2, FS_Subset
  <2>2. Cardinality(serving \ {s}) \in Nat
    BY <2>1, FS_CardinalityType
  <2>3. CASE s \in serving
    BY <1>3, <1>4, <2>2, <2>3
  <2>4. CASE s \notin serving
    BY <1>3, <1>5, <2>2, <2>4
  <2> QED
    BY <2>2, <2>3, <2>4
<1> QED
  BY <1>2, <1>3, <1>4, <1>6

LEMMA ThreeServers == Cardinality(Servers) = 3
<1>1. Servers = (({} \cup {"http"}) \cup {"probe"}) \cup {"grpc"}
  BY DEF Servers
<1>2. IsFiniteSet({} \cup {"http"}) /\ Cardinality({} \cup {"http"}) = 1
  <2>1. IsFiniteSet({}) /\ Cardinality({}) = 0
    BY FS_EmptySet
  <2> QED
    BY <2>1, FS_AddElement
<1>3. /\ IsFiniteSet(({} \cup {"http"}) \cup {"probe"})
      /\ Cardinality(({} \cup {"http"}) \cup {"probe"}) = 2
  BY <1>2, FS_AddElement
<1> QED
  BY <1>1, <1>3, FS_AddElement

LEMMA InitInv == Init => IInv
<1> SUFFICES ASSUME Init PROVE IInv
  OBVIOUS
<1>1. TypeOK /\ StreamInv /\ DrainInv /\ BootInv
  BY DEF Init, TypeOK, StreamInv, DrainInv, BootInv, MainStates, BeforeNotify, Boot,
         Servers, Peers, Collectors
<1>2. errCh = 0 /\ Cardinality(serving) = 0
  BY FS_EmptySet DEF Init
<1> QED
  BY <1>1, <1>2 DEF IInv, ErrChInv, ErrChCapacity, Init

\* The boot: each step but the last two only goes on or ends the process.
LEMMA BootNextInv == IInv /\ BootNext => IInv'
<1> SUFFICES ASSUME IInv, BootNext PROVE IInv'
  OBVIOUS
<1>1. ASSUME NEW from, NEW goesWell \in BOOLEAN, NEW to,
             BootStep(from, goesWell, to),
             <<from, to>> \in {<<"loading", "listening">>, <<"listening", "opening">>,
                               <<"opening", "registered">>}
      PROVE  IInv'
  BY <1>1
  DEF BootStep, MainGoto, IInv, TypeOK, StreamInv, DrainInv, ErrChInv, BootInv, MainStates,
      BeforeNotify, Boot
<1>2. CASE SetupTLS
  BY <1>1, <1>2 DEF SetupTLS
<1>3. CASE Listen
  BY <1>1, <1>3 DEF Listen
<1>4. CASE NewCronJobDBStore
  BY <1>1, <1>4 DEF NewCronJobDBStore
<1>5. CASE StartServers
  <2>1. main' = "serving" /\ errCh' = 0 /\ serving' = Servers
    BY <1>5 DEF StartServers, MainGoto, IInv, BootInv, Boot
  <2>2. ErrChInv'
    BY <2>1, ThreeServers DEF ErrChInv, ErrChCapacity
  <2> QED
    BY <1>5, <2>1, <2>2
    DEF StartServers, IInv, TypeOK, StreamInv, DrainInv, BootInv, MainStates, BeforeNotify, Boot
<1>6. CASE Run
  BY <1>6
  DEF Run, MainGoto, IInv, TypeOK, StreamInv, DrainInv, ErrChInv, BootInv, MainStates,
      BeforeNotify, Boot
<1> QED
  BY <1>2, <1>3, <1>4, <1>5, <1>6 DEF BootNext

LEMMA MainInv == IInv /\ MainNext => IInv'
<1> SUFFICES ASSUME IInv, MainNext, ~BootNext PROVE IInv'
  BY BootNextInv
<1>0. BootInv'
  BY DEF IInv, BootInv, Boot, MainNext, Notify, StartShutdown, ShutdownHTTP,
         CancelMetrics, GracefulStop, Exit, MainGoto
<1>1. TypeOK'
  <2>1. errCh' \in Nat
    BY DEF IInv, TypeOK, MainNext, Notify, StartShutdown, ShutdownHTTP,
           CancelMetrics, GracefulStop, Exit
  <2>2. /\ main' \in MainStates
        /\ quit' \in BOOLEAN
        /\ canceled' \in BOOLEAN
        /\ serving' \subseteq serving
        /\ UNCHANGED <<collector, recorder, open, handler>>
    BY DEF IInv, TypeOK, MainNext, Notify, StartShutdown, ShutdownHTTP,
           CancelMetrics, GracefulStop, Exit, MainGoto, MainStates, BeforeNotify, Boot
  <2> QED
    BY <2>1, <2>2 DEF IInv, TypeOK
<1>2. StreamInv'
  BY DEF IInv, StreamInv, MainNext, Notify, StartShutdown, ShutdownHTTP,
         CancelMetrics, GracefulStop, Exit
<1>3. DrainInv'
  BY DEF IInv, DrainInv, MainNext, Notify, StartShutdown, ShutdownHTTP,
         CancelMetrics, GracefulStop, Exit, MainGoto
<1>4. ErrChInv'
  <2>1. /\ errCh \in Nat /\ errCh + Cardinality(serving) <= 3
        /\ Cardinality(serving) \in Nat
    BY ServingFinite DEF IInv, TypeOK, ErrChInv, ErrChCapacity
  <2>2. CASE ShutdownHTTP
    BY <2>1, <2>2, ServingFinite DEF IInv, ErrChInv, ErrChCapacity, ShutdownHTTP
  <2>3. CASE Notify \/ StartShutdown \/ Exit
    BY <2>1, <2>3 DEF ErrChInv, ErrChCapacity, Notify, StartShutdown, Exit
  <2>4. CASE CancelMetrics \/ GracefulStop
    <3>1. ASSUME NEW s
          PROVE  /\ Cardinality(serving \ {s}) \in Nat
                 /\ Cardinality(serving \ {s}) <= Cardinality(serving)
      BY ServingFinite DEF IInv
    <3>2. PICK s : serving' = serving \ {s}
      BY <2>4 DEF CancelMetrics, GracefulStop
    <3>3. errCh' = errCh
      BY <2>4 DEF CancelMetrics, GracefulStop
    <3>4. Cardinality(serving') \in Nat /\ Cardinality(serving') <= Cardinality(serving)
      BY <3>1, <3>2
    <3> QED
      BY <2>1, <3>3, <3>4 DEF ErrChInv, ErrChCapacity
  <2> QED
    BY <2>2, <2>3, <2>4 DEF MainNext
<1> QED
  BY <1>0, <1>1, <1>2, <1>3, <1>4 DEF IInv

LEMMA OtherInv == IInv /\ [Next]_vars /\ ~MainNext => IInv'
<1> SUFFICES ASSUME IInv, [Next]_vars, ~MainNext PROVE IInv'
  OBVIOUS
<1>1. CASE Signal \/ Kill
  BY <1>1
  DEF Signal, Kill, Up, MainGoto, IInv, TypeOK, StreamInv, DrainInv, ErrChInv, BootInv, Boot, BeforeNotify, MainStates
<1>2. ASSUME NEW s \in Servers, ServeFails(s) PROVE IInv'
  <2>1. ErrChInv'
    BY <1>2, ServingFinite DEF IInv, TypeOK, ErrChInv, ErrChCapacity, ServeFails
  <2> QED
    BY <1>2, <2>1 DEF ServeFails, IInv, TypeOK, StreamInv, DrainInv, BootInv
<1>3. ASSUME NEW k \in Collectors, CollectorStops(k) PROVE IInv'
  BY <1>3 DEF CollectorStops, IInv, TypeOK, StreamInv, DrainInv, ErrChInv, BootInv
<1>4. CASE RecorderNext
  BY <1>4
  DEF RecorderNext, RecorderDials, RecorderLosesStream, RecorderRetries,
      RecorderStops, IInv, TypeOK, StreamInv, DrainInv, ErrChInv, BootInv, Peers
<1>5. ASSUME NEW c \in Clients, Connect(c) \/ Call(c) PROVE IInv'
  BY <1>5 DEF Connect, Call, Accept, IInv, TypeOK, StreamInv, DrainInv, ErrChInv, BootInv, Peers
<1>6. ASSUME NEW p \in Peers, Disconnect(p) PROVE IInv'
  BY <1>6 DEF Disconnect, IInv, TypeOK, StreamInv, DrainInv, ErrChInv, BootInv
<1>7. ASSUME NEW p \in Peers, HandlerSends(p) \/ HandlerWakes(p) PROVE IInv'
  BY <1>7 DEF HandlerSends, HandlerWakes, IInv, TypeOK, StreamInv, DrainInv, ErrChInv, BootInv
<1>8. ASSUME NEW p \in Peers, HandlerReturns(p) PROVE IInv'
  BY <1>8 DEF HandlerReturns, IInv, TypeOK, StreamInv, DrainInv, ErrChInv, BootInv
<1>9. ASSUME NEW p \in Peers, GetYAML(p) PROVE IInv'
  BY <1>9 DEF GetYAML, IInv, TypeOK, StreamInv, DrainInv, ErrChInv, BootInv
<1>10. CASE UNCHANGED vars
  BY <1>10 DEF vars, IInv, TypeOK, StreamInv, DrainInv, ErrChInv, BootInv
<1> QED
  BY <1>1, <1>2, <1>3, <1>4, <1>5, <1>6, <1>7, <1>8, <1>10, <1>9 DEF Next

\* Servers, streams and main() keep step in every state (main.go:120-155).
THEOREM Invariance == Spec => []IInv
<1>1. IInv /\ [Next]_vars => IInv'
  BY MainInv, OtherInv
<1> QED
  BY <1>1, InitInv, PTL DEF Spec

\* A graceful exit cuts no stream short (main.go:152).
THEOREM ExitDrained == Spec => []ExitAfterDrain
<1>1. IInv => ExitAfterDrain
  BY DEF IInv, TypeOK, StreamInv, DrainInv, ExitAfterDrain, Peers
<1> QED
  BY <1>1, Invariance, PTL

\* The channel of startServers has room for every error (main.go:121).
THEOREM NoSenderBlocks == Spec => []SendersNeverBlock
<1>1. IInv => SendersNeverBlock
  BY ServingFinite DEF IInv, TypeOK, ErrChInv, ErrChCapacity, SendersNeverBlock
<1> QED
  BY <1>1, Invariance, PTL
=============================================================================
