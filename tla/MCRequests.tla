----------------------------- MODULE MCRequests -----------------------------
(* The way of a request: the views of the mesh it is routed by, the gate    *)
(* that admits it, the store that reserves and settles for it, and the      *)
(* samples taken of it.  One behaviour runs one of them; the others rest in *)
(* their initial states.                                                    *)
EXTENDS MCBilling, Admission, Snapshots, Sinks, TLC

VARIABLE part

pathVars == <<part, vars, gateVars, snapVars, gpuVars, sinkVars>>

RequestInit ==
  /\ part \in {"store", "gate", "snapshots", "gpus", "sinks"}
  /\ Init /\ GateInit /\ SnapInit /\ GpuInit /\ SinkInit
  /\ part # "gate" => mode = "observe" /\ pricedOnly /\ outputCap = 0
  /\ part # "sinks" => sink = "tinybird"

RequestNext ==
  \/ part = "store" /\ Next /\ UNCHANGED <<part, gateVars, snapVars, gpuVars, sinkVars>>
  \/ part = "gate" /\ GateNext /\ UNCHANGED <<part, vars, snapVars, gpuVars, sinkVars>>
  \/ part = "snapshots" /\ SnapNext /\ UNCHANGED <<part, vars, gateVars, gpuVars, sinkVars>>
  \/ part = "gpus" /\ GpuNext /\ UNCHANGED <<part, vars, gateVars, snapVars, sinkVars>>
  \/ part = "sinks" /\ SinkNext /\ UNCHANGED <<part, vars, gateVars, snapVars, gpuVars>>

RequestSpec == RequestInit /\ [][RequestNext]_pathVars

\* The callers of the views are interchangeable.
Symmetry == Permutations(Callers)
=============================================================================
