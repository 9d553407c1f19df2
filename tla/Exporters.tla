----------------------------- MODULE Exporters ------------------------------
(***************************************************************************)
(* newAgento11yClient (agento11y.go): the VUs of a process construct their *)
(* clients concurrently and share one SDK client, with its worker and its  *)
(* queue, per export configuration.  `exporters` is a sync.Map; the SDK    *)
(* client is external and named after the VU that built it.                *)
(***************************************************************************)
CONSTANTS
  VUs,
  Configs,  \* distinct export configurations, standing for their keys
  Nobody    \* no SDK client

ASSUME ExportersAssumption == Nobody \notin VUs

VARIABLES
  config,   \* config[v]: the `agento11y` option of v's client
  store,    \* exporters
  pc,       \* pc[v]: where v is in newAgento11yClient
  alive,    \* SDK clients built and not shut down
  a11y      \* a11y[v]: the SDK client v's llm.Client was given

vars == <<config, store, pc, alive, a11y>>

Goto(v, step) == pc' = [pc EXCEPT ![v] = step]

\* exporters.Load(key)
Load(v) ==
  /\ pc[v] = "load"
  /\ \/ /\ store[config[v]] # Nobody
        /\ a11y' = [a11y EXCEPT ![v] = store[config[v]]]
        /\ Goto(v, "ready")
     \/ /\ store[config[v]] = Nobody
        /\ Goto(v, "build")
        /\ UNCHANGED a11y
  /\ UNCHANGED <<config, store, alive>>

\* buildAgento11yClient starts the SDK's worker.
Build(v) ==
  /\ pc[v] = "build"
  /\ alive' = alive \cup {v}
  /\ Goto(v, "store")
  /\ UNCHANGED <<config, store, a11y>>

\* Mutants: exporters.Store, the last one in wins; the key stored for the value.
StoredLast(v) == v
StoredKey(v) == config[v]

\* exporters.LoadOrStore: what is stored under the key from then on.
Stored(v) == IF store[config[v]] = Nobody THEN v ELSE store[config[v]]

LoadOrStore(v) ==
  /\ pc[v] = "store"
  /\ store' = [store EXCEPT ![config[v]] = Stored(v)]
  /\ a11y' = [a11y EXCEPT ![v] = Stored(v)]
  /\ Goto(v, IF Stored(v) = v THEN "ready" ELSE "spare")
  /\ UNCHANGED <<config, alive>>

\* Mutants: the winner is shut down; nobody is.
ShutsDownWinner(v) == a11y[v]
ShutsDownNobody(v) == Nobody

\* `created.Shutdown`: the client that lost the race.
ShutsDown(v) == v

ShutdownSpare(v) ==
  /\ pc[v] = "spare"
  /\ alive' = alive \ {ShutsDown(v)}
  /\ Goto(v, "ready")
  /\ UNCHANGED <<config, store, a11y>>

Init ==
  /\ config \in [VUs -> Configs]
  /\ store = [k \in Configs |-> Nobody]
  /\ pc = [v \in VUs |-> "load"]
  /\ alive = {}
  /\ a11y = [v \in VUs |-> Nobody]

\* Every llm.Client is constructed.
Constructed == (\A v \in VUs : pc[v] = "ready") /\ UNCHANGED vars

Next ==
  \/ \E v \in VUs : Load(v) \/ Build(v) \/ LoadOrStore(v) \/ ShutdownSpare(v)
  \/ Constructed

Spec == Init /\ [][Next]_vars

-----------------------------------------------------------------------------

TypeOK ==
  /\ config \in [VUs -> Configs]
  /\ store \in [Configs -> VUs \cup {Nobody}]
  /\ pc \in [VUs -> {"load", "build", "store", "spare", "ready"}]
  /\ alive \subseteq VUs
  /\ a11y \in [VUs -> VUs \cup {Nobody}]

\* A client in use is alive and was built for its user's own configuration,
\* whoever else is constructing or shutting down meanwhile (agento11y.go:274).
InUseIsAlive ==
  \A v \in VUs : a11y[v] # Nobody => a11y[v] \in alive /\ config[a11y[v]] = config[v]

\* No worker outlives the race it lost: a running SDK client is the stored one
\* or belongs to a constructor still at work, so once every VU is constructed
\* there is one worker and one queue per configuration (agento11y.go:260-263).
OneWorkerPerConfig ==
  \A v \in alive : store[config[v]] = v \/ pc[v] \in {"store", "spare"}

\* Exporters implements SharedOnce.
Once == INSTANCE SharedOnce WITH Users <- VUs, key <- config, owner <- store, got <- a11y
SharesOneClient == Once!Spec

=============================================================================
