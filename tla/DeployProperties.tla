--------------------------- MODULE DeployProperties ---------------------------
(* What an administrator may rely on.  A request that overlaps another on the  *)
(* same app, or the replacement of the container by another, may leave the app *)
(* in any state (doubt); so may a lost container and a command whose failure   *)
(* nobody looks at.  The next request on the app, undisturbed, settles it.     *)
EXTENDS AppDeploy

Settled(a) == ~ Busy(a) /\ a \notin doubt

Stable == up /\ \A r \in Requests : ~ Renewing(r)

(* A deployment that completed undisturbed leaves its app running, on the port *)
(* that is assigned to it, registered with it, routed to it and with its       *)
(* volumes mounted, and so it stays, however often the container is recreated  *)
(* for the volumes of other apps (execute_deployment; the registry).           *)
CompletedIsUp ==
  Stable =>
    \A a \in Apps :
      Settled(a) /\ out[a] = "completed"
        => /\ ports[a] # 0 /\ registry[a] = ports[a] /\ live[a] = ports[a]
           /\ conf[a] = ports[a] /\ prog[a] = ports[a] /\ a \in on
           /\ a \in Dev => a \in mounted

(* A stopped or undeployed app stays down: no deployment of another app, no    *)
(* recreation of the container brings it back (stop_app: configuration,        *)
(* process, registry, in this order).                                          *)
StoppedStaysDown ==
  \A a \in Apps :
    Settled(a) /\ out[a] \in {"stopped", "undeployed"} => conf[a] = 0 /\ prog[a] = 0

(* No two apps have a port in common, from the minutes a deployment spends     *)
(* between allocating its port and using it to what it leaves behind when it   *)
(* fails: what is held, configured, running or registered is the app's own.    *)
Own(a, p) == p \in {0, ports[a]}
PortsAreOwn ==
  /\ \A a, b \in Apps : a # b /\ ports[a] # 0 => ports[a] # ports[b]
  /\ \A r \in Requests : InFlight(r) /\ req[r].app \notin doubt => Own(req[r].app, req[r].port)
  /\ \A a \in Apps : Settled(a) => Own(a, conf[a]) /\ Own(a, prog[a]) /\ Own(a, registry[a])
==============================================================================
