------------------------------- MODULE MCSweep -------------------------------
(* Values for the constants of Sweep that a cfg cannot write down. *)
EXTENDS Sweep

Object(kind, ns, name) ==
  [kind |-> kind, ns |-> ns, name |-> name, labels |-> {}, claims |-> {},
   replicas |-> 0, ending |-> FALSE]

Shop == Object("Namespace", "shop", "shop")
Ending == [Shop EXCEPT !.ending = TRUE]
Service == [Object("Service", "shop", "web") EXCEPT !.labels = {"web"}]
Headless == [Object("Service", "shop", "web") EXCEPT !.labels = {}]
Claim == Object("PersistentVolumeClaim", "shop", "data")
Pod == [Object("Pod", "shop", "web-0") EXCEPT !.labels = {"web", "v1"}, !.claims = {"data"}]
Stranger == [Object("Pod", "kube-system", "web-0") EXCEPT !.labels = {"web"}, !.claims = {"data"}]
Daemons == Object("DaemonSet", "shop", "log")
Off == Object("Deployment", "shop", "web")
On == [Off EXCEPT !.replicas = 1]

FewObjects == {Shop, Ending, Service, Headless, Claim, Pod, Stranger, Daemons, Off, On}

FewStarts ==
  {{Shop}, {Shop, Service, Pod, On}, {Shop, Service, Claim, Off},
   {Shop, Stranger, Service, Claim, Pod, Daemons}, {Shop, Stranger, Headless, Claim}}
=============================================================================
