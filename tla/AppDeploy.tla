------------------------------ MODULE AppDeploy -------------------------------
(* The deploy service and the container that all user apps share (Docker):     *)
(* port assignments, the registry of running apps, supervisord's programs in   *)
(* the container, nginx routes, and the requests that deploy, stop and undeploy *)
(* apps.  Requests are coroutines of one process: they interleave at every     *)
(* command they run in or on the container.  A configuration of a program or   *)
(* of a route is its port.                                                     *)
EXTENDS Naturals

CONSTANTS
  Apps,         \* user apps
  NoApp,        \* what a free slot works on
  Dev,          \* those deployed in dev mode: their volumes must be mounted
  Requests,     \* requests in flight at a time
  Dynamic,      \* DYNAMIC_PORT_MIN .. DYNAMIC_PORT_MAX
  Reserved,     \* RESERVED_PORTS
  Prefs,        \* ports manifests ask for; 0: none
  Faults,       \* what may go wrong
  MaxRequests   \* bound of the model: requests ever made

ASSUME DeployAssumption ==
  /\ NoApp \notin Apps /\ Dev \subseteq Apps
  /\ Dynamic \subseteq Nat \ {0} /\ Reserved \subseteq Nat \ {0} /\ Prefs \subseteq Nat
  /\ Dynamic \cap Reserved = {}
  /\ Faults \subseteq {"error", "lost", "restart"}
  /\ MaxRequests \in Nat

VARIABLES
  ports,     \* PORT_ASSIGNMENTS_FILE: the port of each app, 0 if none
  registry,  \* APPS_REGISTRY_FILE: the port each running app was started with, 0 if not registered
  route,     \* nginx configuration files: the port each app's path leads to
  live,      \* the routes nginx loaded last
  up,        \* the container runs
  conf,      \* supervisord configuration files in it
  prog,      \* programs supervisord has loaded
  on,        \* programs it has started
  mounted,   \* apps whose volumes are mounted
  req,       \* requests in flight
  out,       \* how the last request on each app ended
  made,      \* requests so far
  doubt      \* history: apps disturbed since their last request began

hostVars == <<ports, registry, route, live>>
boxVars  == <<up, conf, prog, on, mounted>>
runVars  == <<req, out, made, doubt>>
vars == <<hostVars, boxVars, runVars>>

Ports  == Dynamic \cup (Prefs \ {0})
Ports0 == Ports \cup {0}
Nowhere == [a \in Apps |-> 0]

StopPlaces   == {"halt", "remove", "unregister"}
DeployPlaces == {"allocate", "fetch", "reallocate", "mounts", "down", "run", "snapshot",
                 "restore", "clear", "write", "update", "register", "check", "nginx"}
Places == {"free", "unroute", "release"} \cup StopPlaces \cup DeployPlaces
Ops == {"deploy", "stop", "undeploy"}
Outcomes == {"none", "completed", "failed", "stopped", "undeployed"}

(* then: where stop_app returns to;  snap: registry entries yet to restore.    *)
Idle == [app |-> NoApp, at |-> "free", then |-> "end", port |-> 0,
         pref |-> 0, mounts |-> {}, snap |-> Nowhere, reviving |-> FALSE]

At(r, p)    == req[r].at = p
InFlight(r) == ~ At(r, "free")
Busy(a)     == \E r \in Requests : InFlight(r) /\ req[r].app = a

DeployTypeOK ==
  /\ ports \in [Apps -> Ports0] /\ registry \in [Apps -> Ports0]
  /\ route \in [Apps -> Ports0] /\ live \in [Apps -> Ports0]
  /\ up \in BOOLEAN /\ conf \in [Apps -> Ports0] /\ prog \in [Apps -> Ports0]
  /\ on \subseteq Apps /\ mounted \subseteq Apps
  /\ req \in [Requests -> [app: Apps \cup {NoApp}, at: Places, then: {"end", "fetch", "reallocate", "unroute"},
                           port: Ports0, pref: Prefs \cup {0}, mounts: SUBSET Apps, snap: [Apps -> Ports0],
                           reviving: BOOLEAN]]
  /\ out \in [Apps -> Outcomes] /\ made \in 0..MaxRequests /\ doubt \subseteq Apps
  /\ ~ up => conf = Nowhere /\ prog = Nowhere /\ on = {} /\ mounted = {}
  /\ \A r \in Requests : InFlight(r) => req[r].app \in Apps
  /\ \A r \in Requests : req[r].at \in DeployPlaces \ {"allocate"} => req[r].port # 0

Init ==
  /\ ports = Nowhere /\ registry = Nowhere /\ route = Nowhere /\ live = Nowhere
  /\ up = TRUE /\ conf = Nowhere /\ prog = Nowhere /\ on = {} /\ mounted = {}
  /\ req = [r \in Requests |-> Idle]
  /\ out = [a \in Apps |-> "none"] /\ made = 0 /\ doubt = {}

To(r, p)  == req' = [req EXCEPT ![r].at = p]
End(r, o) ==
  /\ req' = [req EXCEPT ![r] = Idle]
  /\ out' = [out EXCEPT ![req[r].app] = o]
Fails(r)  == End(r, "failed")

(* A container is being replaced by the request.                               *)
Renewing(r) == req[r].reviving \/ req[r].at \in {"down", "run", "snapshot", "restore"}
Others(r)   == {req[s].app : s \in {q \in Requests \ {r} : InFlight(q)}}
(* The request begins to replace the container under the others' feet.         *)
Disturb(r)  ==
  doubt' = IF \E s \in Requests \ {r} : Renewing(s) THEN Apps ELSE doubt \cup Others(r)

------------------------------------------------------------------------------
(* Requests.  The rate limit of 10 s per app is shorter than any deployment.   *)
Request(r, op, a, pref) ==
  /\ At(r, "free") /\ made < MaxRequests /\ made' = made + 1
  /\ pref \in IF op = "deploy" THEN Prefs ELSE {0}
  /\ req' = [req EXCEPT ![r] = [Idle EXCEPT !.app = a,
                                            !.at = IF op = "deploy" THEN "allocate" ELSE "halt",
                                            !.then = IF op = "undeploy" THEN "unroute" ELSE "end",
                                            !.pref = pref]]
  /\ doubt' = IF Busy(a) \/ \E s \in Requests : Renewing(s) THEN doubt \cup {a} ELSE doubt \ {a}
  /\ UNCHANGED <<hostVars, boxVars, out>>

(* Mutant: only the reserved ports are avoided.                                *)
ClaimReserved(a) == Reserved

(* allocate_port.                                                              *)
Claimed(a) == Reserved \cup {ports[b] : b \in Apps \ {a}}
Unclaimed(a) == Dynamic \ Claimed(a)
Least(S) == CHOOSE p \in S : \A q \in S : p <= q
(* 0: no free port.                                                            *)
NewPort(a, pref) ==
  IF pref # 0 /\ pref \notin Claimed(a) THEN pref
  ELSE IF Unclaimed(a) = {} THEN 0 ELSE Least(Unclaimed(a))
Keeps(a, pref) == ports[a] # 0 /\ pref \in {0, ports[a]}
Port(a, pref)  == IF Keeps(a, pref) THEN ports[a] ELSE NewPort(a, pref)

(* The old assignment is gone even when there is no new one.                   *)
Allocate(r) ==
  LET a == req[r].app  p == Port(a, req[r].pref) IN
  /\ At(r, "allocate")
  /\ ports' = [ports EXCEPT ![a] = p]
  /\ IF p # 0
     THEN /\ req' = [req EXCEPT ![r].port = p, ![r].at = "halt", ![r].then = "fetch"]
          /\ UNCHANGED <<out, doubt>>
     ELSE Fails(r) /\ doubt' = doubt \cup {a}
  /\ UNCHANGED <<registry, route, live, boxVars, made>>

------------------------------------------------------------------------------
(* The container.  A command finds it down: it is started afresh, once.        *)
Commands == {"halt", "remove", "fetch", "clear", "write", "update", "check", "release"}
Command(r, p) == At(r, p) /\ up /\ ~ req[r].reviving

FindDown(r) ==
  /\ req[r].at \in Commands /\ ~ up /\ ~ req[r].reviving
  /\ req' = [req EXCEPT ![r].reviving = TRUE]
  /\ Disturb(r)
  /\ UNCHANGED <<hostVars, boxVars, out, made>>

(* docker rm -f, docker compose up: nothing of the registry is restored.       *)
Revive(r) ==
  /\ req[r].reviving
  /\ up' = TRUE /\ conf' = Nowhere /\ prog' = Nowhere /\ on' = {} /\ mounted' = {}
  /\ req' = [req EXCEPT ![r].reviving = FALSE]
  /\ doubt' = doubt \cup (Apps \ {req[r].app})
  /\ UNCHANGED <<hostVars, out, made>>

(* supervisorctl update: new and changed programs start, removed ones go.      *)
Update(c) ==
  /\ conf' = c /\ prog' = c
  /\ on' = {a \in Apps : c[a] # 0 /\ (a \in on \/ c[a] # prog[a])}

(* stop_app.                                                                   *)
Halt(r) ==
  /\ Command(r, "halt") /\ To(r, "remove")
  /\ on' = on \ {req[r].app}
  /\ UNCHANGED <<hostVars, up, conf, prog, mounted, out, made, doubt>>

Remove(r) ==
  /\ Command(r, "remove") /\ To(r, "unregister")
  /\ Update([conf EXCEPT ![req[r].app] = 0])
  /\ UNCHANGED <<hostVars, up, mounted, out, made, doubt>>

(* Nobody looks whether these commands succeed.                                *)
Onward == [halt |-> "remove", remove |-> "unregister", clear |-> "write"]
Ignored(r) ==
  /\ "error" \in Faults /\ req[r].at \in DOMAIN Onward
  /\ req' = [req EXCEPT ![r].reviving = FALSE, ![r].at = Onward[req[r].at]]
  /\ doubt' = doubt \cup {req[r].app}
  /\ UNCHANGED <<hostVars, boxVars, out, made>>

Return(r) ==
  IF req[r].then = "end" THEN End(r, "stopped")
  ELSE req' = [req EXCEPT ![r].at = req[r].then, ![r].then = "end"] /\ UNCHANGED out

(* Mutant: a stopped app stays in the registry.                                *)
UnregisterNothing(r) ==
  /\ At(r, "unregister")
  /\ Return(r)
  /\ UNCHANGED <<hostVars, boxVars, made, doubt>>

Unregister(r) ==
  /\ At(r, "unregister")
  /\ registry' = [registry EXCEPT ![req[r].app] = 0]
  /\ Return(r)
  /\ UNCHANGED <<ports, route, live, boxVars, made, doubt>>

(* undeploy_app: nginx is not told.                                            *)
Unroute(r) ==
  /\ At(r, "unroute") /\ To(r, "release")
  /\ route' = [route EXCEPT ![req[r].app] = 0]
  /\ UNCHANGED <<ports, registry, live, boxVars, out, made, doubt>>

Release(r) ==
  /\ At(r, "release")
  /\ Command(r, "release") \/ "error" \in Faults
  /\ ports' = [ports EXCEPT ![req[r].app] = 0]
  /\ End(r, "undeployed")
  /\ UNCHANGED <<registry, route, live, boxVars, made, doubt>>

------------------------------------------------------------------------------
(* deploy_app.                                                                 *)
Prepared(a) == IF a \in Dev THEN "mounts" ELSE "clear"

(* ensure_user_apps_container_running, clone_or_update_repo and                *)
(* read_manifest_from_repo: the repository's port counts.                      *)
Fetch(r, repo) ==
  LET p == IF repo = 0 THEN req[r].pref ELSE repo IN
  /\ Command(r, "fetch")
  /\ req' = IF p \notin {0, req[r].port}
            THEN [req EXCEPT ![r].pref = p, ![r].at = "halt", ![r].then = "reallocate"]
            ELSE [req EXCEPT ![r].pref = 0, ![r].at = Prepared(req[r].app)]
  /\ UNCHANGED <<hostVars, boxVars, out, made, doubt>>

(* Mutant: no free port is not noticed.                                        *)
ReallocateBlindly(r) ==
  LET a == req[r].app  p == NewPort(a, req[r].pref) IN
  /\ At(r, "reallocate")
  /\ ports' = [ports EXCEPT ![a] = p]
  /\ req' = [req EXCEPT ![r].port = p, ![r].pref = 0, ![r].at = Prepared(a)]
  /\ UNCHANGED <<registry, route, live, boxVars, out, made, doubt>>

(* release_port, allocate_port.                                                *)
Reallocate(r) ==
  LET a == req[r].app  p == NewPort(a, req[r].pref) IN
  /\ At(r, "reallocate")
  /\ ports' = [ports EXCEPT ![a] = p]
  /\ IF p # 0
     THEN req' = [req EXCEPT ![r].port = p, ![r].pref = 0, ![r].at = Prepared(a)] /\ UNCHANGED out
     ELSE Fails(r)
  /\ UNCHANGED <<registry, route, live, boxVars, made, doubt>>

(* Mutant: the new container has the volumes of the new app only.              *)
MountsOwn(r) ==
  LET a == req[r].app IN
  /\ At(r, "mounts")
  /\ IF a \in mounted
     THEN To(r, "clear") /\ UNCHANGED doubt
     ELSE /\ req' = [req EXCEPT ![r].mounts = {a}, ![r].at = "down"]
          /\ Disturb(r)
  /\ UNCHANGED <<hostVars, boxVars, out, made>>

(* ensure_app_volumes_mounted.                                                 *)
Mounts(r) ==
  LET a == req[r].app IN
  /\ At(r, "mounts")
  /\ IF a \in mounted
     THEN To(r, "clear") /\ UNCHANGED doubt
     ELSE /\ req' = [req EXCEPT ![r].mounts = mounted \cup {a}, ![r].at = "down"]
          /\ Disturb(r)
  /\ UNCHANGED <<hostVars, boxVars, out, made>>

(* recreate_user_apps_with_volumes: docker stop, docker rm, docker run.        *)
Down(r) ==
  /\ At(r, "down") /\ To(r, "run")
  /\ up' = FALSE /\ conf' = Nowhere /\ prog' = Nowhere /\ on' = {} /\ mounted' = {}
  /\ UNCHANGED <<hostVars, out, made, doubt>>

NotRecreated(r) == Fails(r) /\ doubt' = Apps /\ UNCHANGED <<hostVars, boxVars, made>>

(* The name is taken when somebody else has started a container.               *)
Run(r) ==
  /\ At(r, "run")
  /\ \/ /\ ~ up /\ up' = TRUE /\ mounted' = req[r].mounts
        /\ req' = [req EXCEPT ![r].mounts = {}, ![r].at = "snapshot"]
        /\ UNCHANGED <<hostVars, conf, prog, on, out, made, doubt>>
     \/ (up \/ "error" \in Faults) /\ NotRecreated(r)

Snapshot(r) ==
  /\ At(r, "snapshot")
  /\ IF up
     THEN /\ req' = [req EXCEPT ![r].snap = registry,
                                ![r].at = IF registry = Nowhere THEN "clear" ELSE "restore"]
          /\ UNCHANGED <<hostVars, boxVars, out, made, doubt>>
     ELSE NotRecreated(r)

Restore(r, a) ==
  /\ At(r, "restore") /\ req[r].snap[a] # 0
  /\ req' = [req EXCEPT ![r].snap[a] = 0]
  /\ \/ up /\ conf' = [conf EXCEPT ![a] = req[r].snap[a]] /\ UNCHANGED doubt
     \/ (~ up \/ "error" \in Faults) /\ UNCHANGED conf /\ doubt' = doubt \cup {a}
  /\ UNCHANGED <<hostVars, up, prog, on, mounted, out, made>>

Reload(r) ==
  /\ At(r, "restore") /\ req[r].snap = Nowhere /\ To(r, "clear")
  /\ \/ Update(conf) /\ UNCHANGED doubt
     \/ "error" \in Faults /\ UNCHANGED <<conf, prog, on>> /\ doubt' = Apps
  /\ UNCHANGED <<hostVars, up, mounted, out, made>>

(* Dependencies, build and migrations; start_app.  What it kills on the port,  *)
(* supervisord starts again.                                                   *)
Clear(r) ==
  /\ Command(r, "clear") /\ To(r, "write")
  /\ on' = on \ {req[r].app}
  /\ UNCHANGED <<hostVars, up, conf, prog, mounted, out, made, doubt>>

Write(r) ==
  /\ Command(r, "write") /\ To(r, "update")
  /\ conf' = [conf EXCEPT ![req[r].app] = req[r].port]
  /\ UNCHANGED <<hostVars, up, prog, on, mounted, out, made, doubt>>

StartUp(r) ==
  /\ Command(r, "update") /\ To(r, "register")
  /\ Update(conf)
  /\ UNCHANGED <<hostVars, up, mounted, out, made, doubt>>

(* The update failed; a program of this name that supervisord has loaded will do. *)
Forced(r) ==
  /\ "error" \in Faults
  /\ Command(r, "update") /\ prog[req[r].app] # 0 /\ To(r, "register")
  /\ on' = on \cup {req[r].app}
  /\ UNCHANGED <<hostVars, up, conf, prog, mounted, out, made, doubt>>

Register(r) ==
  /\ At(r, "register") /\ To(r, "check")
  /\ registry' = [registry EXCEPT ![req[r].app] = req[r].port]
  /\ UNCHANGED <<ports, route, live, boxVars, out, made, doubt>>

(* Any answer but FATAL and BACKOFF will do, none included.                    *)
Check(r) ==
  /\ At(r, "check")
  /\ Command(r, "check") \/ "error" \in Faults
  /\ req' = [req EXCEPT ![r].at = "nginx", ![r].reviving = FALSE]
  /\ UNCHANGED <<hostVars, boxVars, out, made, doubt>>

(* configure_app blocks the process: write the file, test, reload.             *)
Nginx(r) ==
  LET new == [route EXCEPT ![req[r].app] = req[r].port] IN
  /\ At(r, "nginx") /\ route' = new
  /\ \/ live' = new /\ End(r, "completed")
     \/ "error" \in Faults /\ Fails(r) /\ UNCHANGED live
  /\ UNCHANGED <<ports, registry, boxVars, made, doubt>>

(* Nothing is undone.                                                          *)
Fail(r) ==
  /\ "error" \in Faults
  /\ req[r].at \in {"allocate", "fetch", "mounts", "clear", "write", "update", "check"}
  /\ Fails(r)
  /\ doubt' = IF At(r, "allocate") THEN doubt \cup {req[r].app} ELSE doubt
  /\ UNCHANGED <<hostVars, boxVars, made>>

------------------------------------------------------------------------------
(* The container goes away.                                                    *)
Lose ==
  /\ "lost" \in Faults /\ up
  /\ up' = FALSE /\ conf' = Nowhere /\ prog' = Nowhere /\ on' = {} /\ mounted' = {}
  /\ doubt' = Apps
  /\ UNCHANGED <<hostVars, req, out, made>>

(* The deploy service restarts: its files outlive it, its requests do not.     *)
Restart ==
  /\ "restart" \in Faults /\ \E r \in Requests : InFlight(r)
  /\ req' = [r \in Requests |-> Idle]
  /\ doubt' = IF \E r \in Requests : Renewing(r) THEN Apps
              ELSE doubt \cup {req[r].app : r \in {q \in Requests : InFlight(q)}}
  /\ UNCHANGED <<hostVars, boxVars, out, made>>

StopStep(r) == Halt(r) \/ Remove(r) \/ Ignored(r) \/ Unregister(r) \/ Unroute(r) \/ Release(r)

MountStep(r) ==
  Mounts(r) \/ Down(r) \/ Run(r) \/ Snapshot(r) \/ (\E a \in Apps : Restore(r, a)) \/ Reload(r)

DeployStep(r) ==
  \/ Allocate(r) \/ (\E p \in Prefs : Fetch(r, p)) \/ Reallocate(r)
  \/ Clear(r) \/ Write(r) \/ StartUp(r) \/ Forced(r) \/ Register(r) \/ Check(r) \/ Nginx(r) \/ Fail(r)

Next ==
  \/ \E r \in Requests :
        \/ \E op \in Ops, a \in Apps, p \in Prefs \cup {0} : Request(r, op, a, p)
        \/ FindDown(r) \/ Revive(r) \/ StopStep(r) \/ MountStep(r) \/ DeployStep(r)
  \/ Lose \/ Restart

Spec == Init /\ [][Next]_vars
==============================================================================
