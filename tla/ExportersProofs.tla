--------------------------- MODULE ExportersProofs ---------------------------
(***************************************************************************)
(* For any number of VUs and configurations: an SDK client in use is alive *)
(* and its user's own, no worker outlives the race it lost, and the        *)
(* registry implements SharedOnce.                                         *)
(***************************************************************************)
EXTENDS Exporters, TLAPS

\* Who is given what, and who is at work on what.
StoreInv ==
  /\ \A k \in Configs : store[k] # Nobody =>
       store[k] \in alive /\ config[store[k]] = k /\ pc[store[k]] = "ready"
  /\ \A v \in VUs :
       /\ pc[v] = "load" => v \notin alive
       /\ pc[v] \in {"store", "spare"} => v \in alive
       /\ pc[v] \in {"load", "build", "store"} => a11y[v] = Nobody
       /\ pc[v] \in {"spare", "ready"} => a11y[v] # Nobody /\ a11y[v] = store[config[v]]

IInv == TypeOK /\ StoreInv /\ OneWorkerPerConfig

\* The invariant holds at the start.
LEMMA InitInv == Init => IInv
<1>. SUFFICES ASSUME Init  PROVE IInv
  OBVIOUS
<1>1. TypeOK
  BY DEF Init, TypeOK
<1>2. StoreInv
  BY ExportersAssumption DEF Init, StoreInv
<1>3. OneWorkerPerConfig
  BY DEF Init, OneWorkerPerConfig
<1>. QED BY <1>1, <1>2, <1>3 DEF IInv

\* ... and every step keeps it.
LEMMA NextInv == IInv /\ [Next]_vars => IInv'
<1>. SUFFICES ASSUME IInv, [Next]_vars  PROVE IInv'
  OBVIOUS
<1>. USE ExportersAssumption DEF IInv, Goto
<1>1. ASSUME NEW v \in VUs, Load(v)  PROVE IInv'
  <2>1. TypeOK'             BY <1>1 DEF Load, TypeOK
  <2>2. StoreInv'           BY <1>1 DEF Load, TypeOK, StoreInv
  <2>3. OneWorkerPerConfig' BY <1>1 DEF Load, TypeOK, OneWorkerPerConfig
  <2>. QED BY <2>1, <2>2, <2>3
<1>2. ASSUME NEW v \in VUs, Build(v)  PROVE IInv'
  <2>1. TypeOK'             BY <1>2 DEF Build, TypeOK
  <2>2. StoreInv'           BY <1>2 DEF Build, TypeOK, StoreInv
  <2>3. OneWorkerPerConfig' BY <1>2 DEF Build, TypeOK, OneWorkerPerConfig
  <2>. QED BY <2>1, <2>2, <2>3
<1>3. ASSUME NEW v \in VUs, LoadOrStore(v)  PROVE IInv'
  <2>1. TypeOK'             BY <1>3 DEF LoadOrStore, Stored, TypeOK
  <2>2. StoreInv'           BY <1>3 DEF LoadOrStore, Stored, TypeOK, StoreInv
  <2>3. OneWorkerPerConfig'
    BY <1>3 DEF LoadOrStore, Stored, TypeOK, StoreInv, OneWorkerPerConfig
  <2>. QED BY <2>1, <2>2, <2>3
<1>4. ASSUME NEW v \in VUs, ShutdownSpare(v)  PROVE IInv'
  <2>1. TypeOK'             BY <1>4 DEF ShutdownSpare, ShutsDown, TypeOK
  <2>2. StoreInv'
    BY <1>4 DEF ShutdownSpare, ShutsDown, TypeOK, StoreInv
  <2>3. OneWorkerPerConfig'
    BY <1>4 DEF ShutdownSpare, ShutsDown, TypeOK, OneWorkerPerConfig
  <2>. QED BY <2>1, <2>2, <2>3
<1>5. CASE UNCHANGED vars
  BY <1>5 DEF vars, TypeOK, StoreInv, OneWorkerPerConfig
<1>6. CASE Constructed
  BY <1>5, <1>6 DEF Constructed
<1>. QED BY <1>1, <1>2, <1>3, <1>4, <1>5, <1>6 DEF Next

\* Any SDK client given to a VU is the one stored for its configuration.
LEMMA InUse == IInv => InUseIsAlive
BY DEF IInv, TypeOK, StoreInv, InUseIsAlive

\* The inductive invariant of the registry.
THEOREM Invariance == Spec => []IInv
BY InitInv, NextInv, PTL DEF Spec

\* Every variable keeps its type: what is stored and handed out is a client.
THEOREM TypeCorrect == Spec => []TypeOK
<1>1. IInv => TypeOK
  BY DEF IInv
<1>. QED BY Invariance, <1>1, PTL

\* An SDK client in use is alive and was built for its user's configuration,
\* however many VUs construct theirs at once (newAgento11yClient).
THEOREM ClientsAreAlive == Spec => []InUseIsAlive
BY Invariance, InUse, PTL

\* A running worker is the stored client's or its constructor is not done yet:
\* the losers of the race leave none behind (agento11y.go:276).
THEOREM OneWorker == Spec => []OneWorkerPerConfig
<1>1. IInv => OneWorkerPerConfig
  BY DEF IInv
<1>. QED BY Invariance, <1>1, PTL

\* The initial states map to initial states.
LEMMA InitOnce == Init => Once!Init
BY DEF Init, Once!Init

\* Every step maps to a step of SharedOnce or to a stutter.
LEMMA NextOnce == IInv /\ [Next]_vars => [Once!Next]_(Once!vars)
<1>. SUFFICES ASSUME IInv, [Next]_vars  PROVE [Once!Next]_(Once!vars)
  OBVIOUS
<1>. USE DEF Once!vars, Once!Next, Goto
<1>1. ASSUME NEW v \in VUs, Load(v)  PROVE [Once!Next]_(Once!vars)
  BY <1>1 DEF Load, IInv, StoreInv, Once!Get
<1>2. ASSUME NEW v \in VUs, Build(v)  PROVE [Once!Next]_(Once!vars)
  BY <1>2 DEF Build
<1>3. ASSUME NEW v \in VUs, LoadOrStore(v)  PROVE [Once!Next]_(Once!vars)
  <2>. a11y[v] = Nobody
    BY <1>3 DEF LoadOrStore, IInv, StoreInv
  <2>1. CASE store[config[v]] = Nobody
    BY <1>3, <2>1 DEF LoadOrStore, Stored, Once!OfferAndGet
  <2>2. CASE store[config[v]] # Nobody
    <3>1. store' = store
      BY <1>3, <2>2 DEF LoadOrStore, Stored, IInv, TypeOK
    <3>. QED BY <1>3, <2>2, <3>1 DEF LoadOrStore, Stored, Once!Get
  <2>. QED BY <2>1, <2>2
<1>4. ASSUME NEW v \in VUs, ShutdownSpare(v)  PROVE [Once!Next]_(Once!vars)
  BY <1>4 DEF ShutdownSpare
<1>5. CASE UNCHANGED vars \/ Constructed
  BY <1>5 DEF vars, Constructed
<1>. QED BY <1>1, <1>2, <1>3, <1>4, <1>5 DEF Next

\* The registry implements SharedOnce: the first SDK client stored for a
\* configuration stays, and every VU is given that one.
THEOREM ImplementsOnce == Spec => SharesOneClient
<1>. USE DEF SharesOneClient, Once!Spec
<1>. QED BY Invariance, InitOnce, NextOnce, PTL DEF Spec

==============================================================================
