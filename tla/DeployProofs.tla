---------------------------- MODULE DeployProofs ------------------------------
(* Proofs about AppDeploy: types, ports of their own, apps that stay down and  *)
(* apps that stay up.                                                          *)
EXTENDS DeployProperties, WellFoundedInduction, TLAPS

USE DeployAssumption

Thens == {"end", "fetch", "reallocate", "unroute"}
RequestType == [app: Apps \cup {NoApp}, at: Places, then: Thens, port: Ports0, pref: Prefs \cup {0},
                mounts: SUBSET Apps, snap: [Apps -> Ports0], reviving: BOOLEAN]

(* A request by itself.                                                        *)
WellFormed(x) ==
  /\ x \in RequestType
  /\ x.at # "free" => x.app \in Apps
  /\ x.at \in DeployPlaces \ {"allocate"} => x.port # 0
  /\ x.at \in StopPlaces /\ x.then \in {"fetch", "reallocate"} => x.port # 0
  /\ x.reviving => x.at \in Commands
  /\ x.at # "restore" => x.snap = Nowhere
  /\ x.at \in {"down", "run"} => x.app \in x.mounts

Files == [Apps -> Ports0]
Hosted ==
  /\ ports \in Files /\ registry \in Files /\ route \in Files /\ live \in Files
  /\ up \in BOOLEAN /\ conf \in Files /\ prog \in Files /\ on \subseteq Apps /\ mounted \subseteq Apps
  /\ ~ up => conf = Nowhere /\ prog = Nowhere /\ on = {} /\ mounted = {}
  /\ out \in [Apps -> Outcomes] /\ made \in 0..MaxRequests /\ doubt \subseteq Apps

Requested == req \in [Requests -> RequestType] /\ \A r \in Requests : WellFormed(req[r])
Typed == Hosted /\ Requested

LEMMA TypedGivesType == Typed => DeployTypeOK
<1> SUFFICES ASSUME Typed PROVE DeployTypeOK
  OBVIOUS
<1>1. req \in [Requests -> [app: Apps \cup {NoApp}, at: Places, then: {"end", "fetch", "reallocate", "unroute"},
                           port: Ports0, pref: Prefs \cup {0}, mounts: SUBSET Apps, snap: [Apps -> Ports0],
                           reviving: BOOLEAN]]
  BY DEF Typed, Requested, RequestType, Thens
<1>2. \A r \in Requests : InFlight(r) => req[r].app \in Apps
  BY DEF Typed, Requested, WellFormed, InFlight, At
<1>3. \A r \in Requests : req[r].at \in DeployPlaces \ {"allocate"} => req[r].port # 0
  BY DEF Typed, Requested, WellFormed
<1> QED BY <1>1, <1>2, <1>3 DEF Typed, Hosted, Files, DeployTypeOK

------------------------------------------------------------------------------
(* Ports.                                                                      *)
LEMMA LeastIsIn ==
  ASSUME NEW S, S \subseteq Nat, S # {}
  PROVE  Least(S) \in S
<1> DEFINE R == OpToRel(<, Nat)
<1>0. IsWellFoundedOn(R, Nat)
  BY NatLessThanWellFounded
<1>1. R = {p \in Nat \X Nat : p[1] < p[2]}
  BY DEF OpToRel
<1> HIDE DEF R
<1>2. \E x \in S : \A y \in S : ~ (<<y, x>> \in R)
  BY <1>0, WFMin, Zenon
<1>3. PICK x \in S : \A y \in S : ~ (<<y, x>> \in R)
  BY <1>2
<1>4. ASSUME NEW y \in S PROVE x <= y
  <2>1. <<y, x>> \in R <=> y < x
    BY <1>1
  <2> QED BY <1>3, <2>1
<1> QED BY <1>4 DEF Least

LEMMA NewPortIsFree ==
  ASSUME Hosted, NEW a \in Apps, NEW pref \in Prefs \cup {0}
  PROVE  /\ NewPort(a, pref) \in Ports0
         /\ NewPort(a, pref) # 0 => NewPort(a, pref) \notin Claimed(a)
<1>1. CASE pref # 0 /\ pref \notin Claimed(a)
  BY <1>1 DEF NewPort, Ports0, Ports
<1>2. CASE ~ (pref # 0 /\ pref \notin Claimed(a)) /\ Unclaimed(a) = {}
  BY <1>2 DEF NewPort, Ports0
<1>3. CASE ~ (pref # 0 /\ pref \notin Claimed(a)) /\ Unclaimed(a) # {}
  <2>1. Least(Unclaimed(a)) \in Unclaimed(a)
    BY <1>3, LeastIsIn DEF Unclaimed
  <2> QED BY <1>3, <2>1 DEF NewPort, Unclaimed, Ports0, Ports
<1> QED BY <1>1, <1>2, <1>3

(* No two apps are assigned one port.                                          *)
Distinct == \A a, b \in Apps : a # b /\ ports[a] # 0 => ports[a] # ports[b]

LEMMA NewPortIsOwn ==
  ASSUME Hosted, Distinct, NEW a \in Apps, NEW pref \in Prefs \cup {0}, NEW p,
         p = NewPort(a, pref) \/ p = Port(a, pref), ports' = [ports EXCEPT ![a] = p]
  PROVE  p \in Ports0 /\ ports' \in Files /\ Distinct'
<1>1. p \in Ports0 /\ (p # 0 => \A b \in Apps : b # a => ports[b] # p)
  BY NewPortIsFree DEF Port, Claimed, Hosted, Files, Distinct
<1> QED BY <1>1 DEF Hosted, Files, Distinct

------------------------------------------------------------------------------
(* Types.                                                                      *)
LEMMA Moved ==
  ASSUME Requested, NEW r \in Requests, NEW x, WellFormed(x), req' = [req EXCEPT ![r] = x]
  PROVE  Requested' /\ req'[r] = x /\ \A s \in Requests : s # r => req'[s] = req[s]
  BY DEF Requested, WellFormed

LEMMA IdleWellFormed == WellFormed(Idle)
<1>1. Nowhere \in [Apps -> Ports0]
  BY DEF Nowhere, Ports0
<1>2. Idle \in RequestType
  BY <1>1 DEF Idle, RequestType, Places, Thens, Ports0
<1> QED BY <1>2 DEF Idle, WellFormed, DeployPlaces, StopPlaces

(* A request goes on to another place.                                         *)
LEMMA Goes ==
  ASSUME Requested, NEW r \in Requests, NEW p \in Places, To(r, p),
         p \in DeployPlaces \ {"allocate"} => req[r].port # 0,
         p \in StopPlaces /\ req[r].then \in {"fetch", "reallocate"} => req[r].port # 0,
         req[r].reviving => p \in Commands, p # "restore" => req[r].snap = Nowhere, p # "free", InFlight(r),
         p \in {"down", "run"} => req[r].app \in req[r].mounts
  PROVE  Requested' /\ req'[r] = [req[r] EXCEPT !.at = p] /\ \A s \in Requests : s # r => req'[s] = req[s]
<1> DEFINE x == [req[r] EXCEPT !.at = p]
<1>1. req' = [req EXCEPT ![r] = x]
  BY DEF To
<1>2. x \in RequestType /\ x.at = p /\ x.app = req[r].app /\ x.then = req[r].then /\ x.port = req[r].port
      /\ x.mounts = req[r].mounts /\ x.snap = req[r].snap /\ x.reviving = req[r].reviving
  BY DEF Requested, RequestType
<1>3. WellFormed(x)
  BY <1>2 DEF Requested, WellFormed, InFlight, At
<1> HIDE DEF x
<1>4. Requested' /\ req'[r] = x /\ \A s \in Requests : s # r => req'[s] = req[s]
  BY <1>1, <1>3, Moved
<1> QED BY <1>4 DEF x

LEMMA Ends ==
  ASSUME Requested, NEW r \in Requests, NEW o \in Outcomes, End(r, o), out \in [Apps -> Outcomes]
  PROVE  /\ Requested' /\ req'[r] = Idle /\ \A s \in Requests : s # r => req'[s] = req[s]
         /\ out' \in [Apps -> Outcomes]
  BY Moved, IdleWellFormed DEF End

------------------------------------------------------------------------------
(* The invariant, for apps that are not in doubt.                              *)
Gone(a)   == conf[a] = 0 /\ prog[a] = 0 /\ registry[a] = 0
Served(a) == ports[a] # 0 /\ conf[a] = ports[a] /\ prog[a] = ports[a] /\ a \in on
Loaded(a) == prog[a] = 0 \/ (prog[a] = conf[a] /\ a \in on)
HasVolumes(a) == a \in Dev => a \in mounted
Up(a)     == up /\ Served(a) /\ HasVolumes(a)
Routed(a) == registry[a] = ports[a] /\ route[a] = ports[a] /\ live[a] = ports[a]

(* Requests that overlap on an app, or with a replacement of the container,    *)
(* put apps in doubt.                                                          *)
Alone == \A r, s \in Requests :
            r # s /\ InFlight(r) /\ InFlight(s) /\ req[r].app = req[s].app => req[r].app \in doubt
Apart == \A r, s \in Requests : r # s /\ InFlight(r) /\ Renewing(s) => req[r].app \in doubt
Once  == \A r, s \in Requests : r # s /\ Renewing(r) /\ Renewing(s) => doubt = Apps
Overlap == Alone /\ Apart /\ Once

Snaps == \A r \in Requests : \A a \in Apps \ doubt : req[r].snap[a] \in {0, registry[a]}

(* An app that is worked on, at each place of the request.                     *)
Emptied == {"fetch", "reallocate", "mounts", "down", "run", "snapshot", "restore", "clear", "write",
            "unroute", "release"}
Started == {"check", "nginx"}
Volumed == {"snapshot", "restore", "clear", "write", "update", "register", "check", "nginx"}
Begun(r) == req[r].at \notin {"allocate", "run"} /\ ~ (At(r, "halt") /\ req[r].then # "reallocate")

Works(r, a) ==
  /\ Own(a, req[r].port)
  /\ At(r, "unregister") => conf[a] = 0 /\ prog[a] = 0
  /\ req[r].at \in Emptied => Gone(a)
  /\ At(r, "update") => conf[a] = ports[a] /\ Loaded(a) /\ registry[a] = 0
  /\ At(r, "register") => Served(a) /\ registry[a] = 0
  /\ req[r].at \in Started => Served(a) /\ registry[a] = ports[a]
  /\ Begun(r) => up /\ ~ req[r].reviving
  /\ req[r].at \in Volumed => HasVolumes(a)
Working(r) == InFlight(r) /\ req[r].app \notin doubt => Works(r, req[r].app)

(* An app that is not worked on; a completed one while its container is being  *)
(* replaced for another.                                                       *)
Kept(r, a) ==
  /\ ~ req[r].reviving
  /\ At(r, "down") => Up(a) /\ (a \in Dev => a \in req[r].mounts)
  /\ At(r, "run") => ~ up /\ (a \in Dev => a \in req[r].mounts)
  /\ At(r, "snapshot") => up /\ HasVolumes(a) /\ conf[a] = 0 /\ prog[a] = 0
  /\ At(r, "restore") => up /\ HasVolumes(a) /\ Loaded(a) /\ ports[a] \in {req[r].snap[a], conf[a]}
Completed(a) ==
  /\ ports[a] # 0 /\ Routed(a)
  /\ (\A r \in Requests : ~ Renewing(r)) => Up(a)
  /\ \A r \in Requests : Kept(r, a)
Rests(a) ==
  /\ Own(a, conf[a]) /\ Own(a, prog[a]) /\ Own(a, registry[a])
  /\ out[a] \in {"stopped", "undeployed"} => Gone(a)
  /\ out[a] = "completed" => Completed(a)
Resting(a) == ~ Busy(a) /\ a \notin doubt => Rests(a)

Inv ==
  /\ Typed /\ Distinct /\ Overlap /\ Snaps
  /\ \A r \in Requests : Working(r)
  /\ \A a \in Apps : Resting(a)

------------------------------------------------------------------------------
(* What a request does to the apps it does not work on.                        *)
Rest(r) == \A s \in Requests : s # r => req'[s] = req[s]

Reloaded(b) == prog'[b] = conf[b] /\ (b \in on' <=> conf[b] # 0 /\ (b \in on \/ conf[b] # prog[b]))
Same(b) ==
  /\ ports'[b] = ports[b] /\ registry'[b] = registry[b] /\ conf'[b] = conf[b]
  /\ up' = up /\ (b \in mounted' <=> b \in mounted)
  /\ (prog'[b] = prog[b] /\ (b \in on' <=> b \in on)) \/ Reloaded(b)
Told(b) == route'[b] = route[b] /\ live'[b] \in {live[b], route[b]} /\ out'[b] = out[b]

LEMMA OverlapKept ==
  ASSUME Typed, Requested', Overlap, NEW r \in Requests, Rest(r), doubt \subseteq doubt', doubt' \subseteq Apps,
         InFlight(r)' => InFlight(r) /\ req'[r].app = req[r].app, Renewing(r)' => Renewing(r)
  PROVE  Overlap'
<1>1. \A s \in Requests : (InFlight(s)' => InFlight(s) /\ req'[s].app = req[s].app) /\ (Renewing(s)' => Renewing(s))
  BY DEF Rest, InFlight, Renewing, At
<1> QED BY <1>1 DEF Overlap, Alone, Apart, Once

LEMMA SnapsKept ==
  ASSUME Typed, Snaps, Apart, NEW r \in Requests, Rest(r), doubt \subseteq doubt',
         \A a \in Apps : req'[r].snap[a] \in {0, req[r].snap[a]},
         \A a \in Apps : registry'[a] = registry[a] \/ (a = req[r].app /\ InFlight(r) /\ req'[r].snap[a] = 0)
  PROVE  Snaps'
<1> SUFFICES ASSUME NEW s \in Requests, NEW a \in Apps \ doubt' PROVE req'[s].snap[a] \in {0, registry'[a]}
  BY DEF Snaps
<1>1. CASE s = r
  BY <1>1 DEF Snaps
<1>2. CASE s # r
  <2>1. req'[s].snap[a] = req[s].snap[a]
    BY <1>2 DEF Rest
  <2>2. req[s].snap[a] # 0 => Renewing(s)
    BY DEF Typed, Requested, WellFormed, Nowhere, Renewing
  <2> QED BY <1>2, <2>1, <2>2 DEF Snaps, Apart
<1> QED BY <1>1, <1>2

LEMMA WorksKept ==
  ASSUME Typed, NEW s \in Requests, NEW a \in Apps, Works(s, a), req'[s] = req[s], Same(a)
  PROVE  Works(s, a)'
<1>1. At(s, "update") => ports[a] # 0
  BY DEF Works, Own, Typed, Requested, WellFormed, DeployPlaces, At
<1>2. Own(a, req[s].port)'
  BY DEF Works, Own, Same
<1>3. (At(s, "unregister") => conf[a] = 0 /\ prog[a] = 0)' /\ (req[s].at \in Emptied => Gone(a))'
  BY DEF Works, Same, Reloaded, Gone, At
<1>4. (At(s, "update") => conf[a] = ports[a] /\ Loaded(a) /\ registry[a] = 0)'
  BY <1>1 DEF Works, Same, Reloaded, Loaded, At
<1>5. (At(s, "register") => Served(a) /\ registry[a] = 0)' /\ (req[s].at \in Started => Served(a) /\ registry[a] = ports[a])'
  BY DEF Works, Same, Reloaded, Served, At
<1>6. (Begun(s) => up /\ ~ req[s].reviving)' /\ (req[s].at \in Volumed => HasVolumes(a))'
  BY DEF Works, Same, Begun, HasVolumes, At
<1> QED BY <1>2, <1>3, <1>4, <1>5, <1>6 DEF Works

LEMMA WorkingKept ==
  ASSUME Typed, NEW s \in Requests, Working(s), req'[s] = req[s], doubt \subseteq doubt',
         req[s].app \notin doubt' => Same(req[s].app)
  PROVE  Working(s)'
<1> SUFFICES ASSUME InFlight(s)', req'[s].app \notin doubt' PROVE Works(s, req[s].app)'
  BY DEF Working
<1>1. PICK a \in Apps : a = req[s].app
  BY DEF InFlight, At, Typed, Requested, WellFormed
<1>2. Works(s, a) /\ Same(a)
  BY <1>1 DEF InFlight, At, Working
<1>3. Works(s, a)'
  BY <1>2, WorksKept
<1> QED BY <1>1, <1>3

(* An app that the request does not work on keeps what it has.                 *)
LEMMA CompletedKept ==
  ASSUME Typed, NEW r \in Requests, NEW a \in Apps, Completed(a), Rest(r), Same(a), Told(a),
         ~ Renewing(r)', Renewing(r) => req[r].reviving
  PROVE  Completed(a)'
<1>1. (ports[a] # 0 /\ Routed(a))'
  BY DEF Completed, Routed, Same, Told
<1>2. ~ Renewing(r)
  BY DEF Completed, Kept
<1>3. (\A s \in Requests : ~ Renewing(s))' => \A s \in Requests : ~ Renewing(s)
  BY <1>2 DEF Rest, Renewing
<1>4. ((\A s \in Requests : ~ Renewing(s)) => Up(a))'
  BY <1>3 DEF Completed, Up, Served, HasVolumes, Same, Reloaded
<1>5. ASSUME NEW s \in Requests PROVE Kept(s, a)'
  <2>1. CASE s = r
    BY <2>1 DEF Renewing, Kept, At
  <2>2. CASE s # r
    BY <2>2 DEF Completed, Kept, Rest, Same, Reloaded, Up, Served, HasVolumes, Loaded, At
  <2> QED BY <2>1, <2>2
<1> QED BY <1>1, <1>4, <1>5 DEF Completed

LEMMA RestsKept ==
  ASSUME Typed, NEW r \in Requests, NEW a \in Apps, Rests(a), Rest(r), Same(a), Told(a),
         ~ Renewing(r)', Renewing(r) => req[r].reviving
  PROVE  Rests(a)'
<1>1. (Own(a, conf[a]) /\ Own(a, prog[a]) /\ Own(a, registry[a]))'
  BY DEF Rests, Own, Same, Reloaded
<1>2. (out[a] \in {"stopped", "undeployed"} => Gone(a))'
  BY DEF Rests, Gone, Same, Reloaded, Told
<1>3. (out[a] = "completed" => Completed(a))'
  BY CompletedKept DEF Rests, Told
<1> QED BY <1>1, <1>2, <1>3 DEF Rests

(* A step of a request that replaces no container.                             *)
Local(r) ==
  /\ Typed' /\ Distinct' /\ Rest(r) /\ InFlight(r)
  /\ doubt \subseteq doubt'
  /\ Renewing(r) => req[r].reviving
  /\ ~ Renewing(r)' /\ req'[r].snap = Nowhere
  /\ \A a \in Apps : a # req[r].app => Same(a) /\ Told(a)
Stays(r) == InFlight(r)' /\ req'[r].app = req[r].app /\ Working(r)'
Leaves(r) == ~ InFlight(r)' /\ \A a \in Apps : a = req[r].app => Resting(a)'

LEMMA LocalStep ==
  ASSUME Inv, NEW r \in Requests, Local(r), Stays(r) \/ Leaves(r)
  PROVE  Inv'
<1>1. Overlap'
  BY OverlapKept DEF Inv, Local, Stays, Leaves, Typed, Hosted
<1>2. Snaps'
  <2>1. \A a \in Apps : registry'[a] = registry[a] \/ (a = req[r].app /\ InFlight(r) /\ req'[r].snap[a] = 0)
    BY DEF Local, Same, Nowhere
  <2>2. \A a \in Apps : req'[r].snap[a] \in {0, req[r].snap[a]}
    BY DEF Local, Nowhere
  <2> QED BY <2>1, <2>2, SnapsKept DEF Inv, Overlap, Local
<1>3. ASSUME NEW s \in Requests PROVE Working(s)'
  <2>1. CASE s = r
    BY <2>1 DEF Stays, Leaves, Working
  <2>2. CASE s # r /\ ~ InFlight(s)
    BY <2>2 DEF Working, InFlight, At, Local, Rest
  <2>3. CASE s # r /\ InFlight(s)
    <3>1. req[s].app \in Apps /\ (req[s].app \notin doubt' => req[s].app # req[r].app)
      BY <2>3 DEF Inv, Overlap, Alone, Local, Typed, Requested, WellFormed, InFlight, At
    <3> QED BY <2>3, <3>1, WorkingKept DEF Inv, Local, Rest
  <2> QED BY <2>1, <2>2, <2>3
<1>4. ASSUME NEW a \in Apps PROVE Resting(a)'
  <2> SUFFICES ASSUME ~ Busy(a)', a \notin doubt' PROVE Rests(a)'
    BY DEF Resting
  <2>1. CASE a = req[r].app
    BY <2>1 DEF Stays, Leaves, Busy, Resting
  <2>2. CASE a # req[r].app
    <3>1. ~ Busy(a) /\ a \notin doubt
      BY <2>2 DEF Busy, Local, Rest, InFlight, At
    <3>2. Rests(a)
      BY <3>1 DEF Inv, Resting
    <3> QED BY <2>2, <3>2, RestsKept DEF Inv, Local
  <2> QED BY <2>1, <2>2
<1> QED BY <1>1, <1>2, <1>3, <1>4 DEF Inv, Local

LEMMA AppOf ==
  ASSUME Inv, NEW r \in Requests, InFlight(r)
  PROVE  \E a \in Apps : a = req[r].app /\ (a \notin doubt => Works(r, a))
  BY DEF Inv, Typed, Requested, WellFormed, InFlight, At, Working

(* The request goes on with its app, or leaves it at rest.                     *)
LEMMA StaysWith ==
  ASSUME NEW r \in Requests, NEW a \in Apps, a = req[r].app, InFlight(r)', req'[r].app = a,
         a \notin doubt' => Works(r, a)'
  PROVE  Stays(r)
  BY DEF Stays, Working

LEMMA LeavesAtRest ==
  ASSUME Inv, NEW r \in Requests, NEW a \in Apps, a = req[r].app, InFlight(r), Rest(r), req'[r] = Idle,
         doubt \subseteq doubt',
         a \notin doubt' =>
           /\ (Own(a, conf[a]) /\ Own(a, prog[a]) /\ Own(a, registry[a]))'
           /\ (out[a] \in {"stopped", "undeployed"} => Gone(a))'
           /\ (out[a] = "completed" => ports[a] # 0 /\ Routed(a) /\ Up(a))'
  PROVE  Leaves(r)
<1>1. ~ InFlight(r)'
  BY DEF Idle, InFlight, At
<1>2. ASSUME a \notin doubt', NEW s \in Requests PROVE Kept(s, a)'
  <2>1. CASE s = r
    BY <2>1 DEF Kept, At, Idle
  <2>2. CASE s # r
    <3>1. ~ Renewing(s)
      BY <1>2, <2>2 DEF Inv, Overlap, Apart
    <3> QED BY <2>2, <3>1 DEF Kept, Rest, Renewing, At
  <2> QED BY <2>1, <2>2
<1>3. a \notin doubt' => Rests(a)'
  BY <1>2 DEF Rests, Completed
<1> QED BY <1>1, <1>3 DEF Leaves, Resting

------------------------------------------------------------------------------
(* stop_app and undeploy_app.                                                  *)
LEMMA HaltStep ==
  ASSUME Inv, NEW r \in Requests, Halt(r)
  PROVE  Inv'
<1>1. InFlight(r)
  BY DEF Halt, Command, InFlight, At
<1>2. PICK a \in Apps : a = req[r].app /\ (a \notin doubt => Works(r, a))
  BY <1>1, AppOf
<1>3. Requested' /\ req'[r] = [req[r] EXCEPT !.at = "remove"] /\ Rest(r)
  BY <1>1, Goes DEF Halt, Command, At, Inv, Typed, Requested, WellFormed, Places, StopPlaces, DeployPlaces, Commands, Rest
<1>4. Typed' /\ Distinct'
  BY <1>3 DEF Halt, hostVars, Inv, Typed, Hosted, Distinct
<1>5. Local(r)
  BY <1>1, <1>2, <1>3, <1>4 DEF Halt, hostVars, Command, At, Local, Renewing, Same, Told, Inv, Typed, Requested, RequestType, WellFormed
<1>6. a \notin doubt' => Works(r, a)'
  BY <1>2, <1>3 DEF Halt, hostVars, Command, At, Works, Own, Begun, Emptied, Started, Volumed, Inv, Typed, Requested, RequestType
<1>7. Stays(r)
  BY <1>2, <1>3, <1>6, StaysWith DEF InFlight, At, Inv, Typed, Requested, RequestType
<1> QED BY <1>5, <1>7, LocalStep

LEMMA RemoveStep ==
  ASSUME Inv, NEW r \in Requests, Remove(r)
  PROVE  Inv'
<1>1. InFlight(r)
  BY DEF Remove, Command, InFlight, At
<1>2. PICK a \in Apps : a = req[r].app /\ (a \notin doubt => Works(r, a))
  BY <1>1, AppOf
<1>3. Requested' /\ req'[r] = [req[r] EXCEPT !.at = "unregister"] /\ Rest(r)
  BY <1>1, Goes DEF Remove, Command, At, Inv, Typed, Requested, WellFormed, Places, StopPlaces, DeployPlaces, Commands, Rest
<1>4. Typed' /\ Distinct'
  <2>1. conf' \in Files /\ prog' \in Files /\ on' \subseteq Apps
    BY DEF Remove, Update, Inv, Typed, Hosted, Files, Ports0
  <2> QED BY <1>3, <2>1 DEF Remove, Command, hostVars, Inv, Typed, Hosted, Distinct
<1>5. Local(r)
  <2>1. \A b \in Apps : b # a => Reloaded(b) /\ conf'[b] = conf[b]
    BY <1>2 DEF Remove, Update, Reloaded, Inv, Typed, Hosted, Files
  <2> QED BY <1>1, <1>2, <1>3, <1>4, <2>1
       DEF Remove, hostVars, Command, At, Local, Renewing, Same, Told, Inv, Typed, Requested, RequestType, WellFormed
<1>6. a \notin doubt' => Works(r, a)'
  BY <1>2, <1>3 DEF Remove, Update, hostVars, Command, At, Works, Own, Begun, Emptied, Started, Volumed,
                    Inv, Typed, Requested, RequestType, Hosted, Files
<1>7. Stays(r)
  BY <1>2, <1>3, <1>6, StaysWith DEF InFlight, At, Inv, Typed, Requested, RequestType
<1> QED BY <1>5, <1>7, LocalStep

LEMMA IgnoredStep ==
  ASSUME Inv, NEW r \in Requests, Ignored(r)
  PROVE  Inv'
<1>1. InFlight(r)
  BY DEF Ignored, Onward, InFlight, At
<1>2. PICK a \in Apps : a = req[r].app
  BY <1>1, AppOf
<1> DEFINE p == Onward[req[r].at]
<1>3. p \in {"remove", "unregister", "write"} /\ (p = "write" <=> At(r, "clear"))
  BY DEF Ignored, Onward, At
<1> DEFINE x == [req[r] EXCEPT !.reviving = FALSE, !.at = p]
<1>4. req' = [req EXCEPT ![r] = x]
  BY DEF Ignored
<1> HIDE DEF p
<1>5. WellFormed(x)
  BY <1>3 DEF Ignored, Onward, At, Inv, Typed, Requested, WellFormed, RequestType, Places, StopPlaces, DeployPlaces
<1>6. x.app = req[r].app /\ x.at = p /\ x.reviving = FALSE /\ x.snap = Nowhere
  BY <1>3 DEF Ignored, Onward, At, Inv, Typed, Requested, WellFormed, RequestType
<1> HIDE DEF x
<1>7. Requested' /\ req'[r] = x /\ Rest(r)
  BY <1>4, <1>5, Moved DEF Inv, Typed, Rest
<1>8. Typed' /\ Distinct'
  BY <1>2, <1>7 DEF Ignored, hostVars, boxVars, Inv, Typed, Hosted, Distinct
<1>9. Local(r)
  BY <1>1, <1>2, <1>3, <1>6, <1>7, <1>8 DEF Ignored, Onward, hostVars, boxVars, At, Local, Renewing, Same, Told
<1>10. Stays(r)
  BY <1>2, <1>3, <1>6, <1>7, StaysWith DEF Ignored, InFlight, At
<1> QED BY <1>9, <1>10, LocalStep

LEMMA UnregisterStep ==
  ASSUME Inv, NEW r \in Requests, Unregister(r)
  PROVE  Inv'
<1>1. InFlight(r) /\ At(r, "unregister")
  BY DEF Unregister, InFlight, At
<1>2. PICK a \in Apps : a = req[r].app /\ (a \notin doubt => Works(r, a))
  BY <1>1, AppOf
<1>3. registry' \in Files /\ registry'[a] = 0 /\ \A b \in Apps : b # a => registry'[b] = registry[b]
  BY <1>2 DEF Unregister, Inv, Typed, Hosted, Files, Ports0
<1>4. CASE req[r].then = "end"
  <2>1. Requested' /\ req'[r] = Idle /\ Rest(r) /\ out' \in [Apps -> Outcomes]
        /\ out'[a] = "stopped" /\ \A b \in Apps : b # a => out'[b] = out[b]
    BY <1>2, <1>4, Ends DEF Unregister, Return, End, Inv, Typed, Hosted, Rest, Outcomes
  <2>2. Typed' /\ Distinct'
    BY <1>3, <2>1 DEF Unregister, boxVars, Inv, Typed, Hosted, Distinct
  <2>3. Local(r)
    BY <1>1, <1>2, <1>3, <2>1, <2>2 DEF Unregister, boxVars, At, Local, Idle, Renewing, Same, Told, Inv, Typed, Requested, WellFormed, Commands
  <2>4. Leaves(r)
    BY <1>1, <1>2, <1>3, <2>1, LeavesAtRest DEF Unregister, boxVars, Works, Gone, Own
  <2> QED BY <2>3, <2>4, LocalStep
<1>5. CASE req[r].then # "end"
  <2> DEFINE x == [req[r] EXCEPT !.at = req[r].then, !.then = "end"]
  <2>1. req' = [req EXCEPT ![r] = x] /\ out' = out
    BY <1>5 DEF Unregister, Return
  <2>a. req[r].then \in {"fetch", "reallocate", "unroute"} /\ ~ req[r].reviving /\ req[r].snap = Nowhere
        /\ (req[r].then # "unroute" => req[r].port # 0)
    BY <1>1, <1>5 DEF At, Inv, Typed, Requested, WellFormed, RequestType, StopPlaces, Thens, Commands
  <2>b. x \in RequestType
    BY <2>a, ZenonT(40) DEF Inv, Typed, Requested, RequestType, Places, DeployPlaces, Thens
  <2>c. x.at = req[r].then /\ x.app = a /\ x.port = req[r].port /\ x.snap = Nowhere /\ x.reviving = FALSE
    BY <1>2, <2>a DEF Inv, Typed, Requested, RequestType
  <2>2. x.at \in {"fetch", "reallocate", "unroute"} /\ x.app = a /\ x.port = req[r].port /\ x.snap = Nowhere
        /\ x.reviving = FALSE /\ WellFormed(x)
    BY <2>a, <2>b, <2>c DEF WellFormed, StopPlaces, DeployPlaces
  <2> HIDE DEF x
  <2>3. Requested' /\ req'[r] = x /\ Rest(r)
    BY <2>1, <2>2, Moved DEF Inv, Typed, Rest
  <2>4. Typed' /\ Distinct'
    BY <1>3, <2>1, <2>3 DEF Unregister, boxVars, Inv, Typed, Hosted, Distinct
  <2>5. Local(r)
    BY <1>1, <1>2, <1>3, <2>1, <2>2, <2>3, <2>4
       DEF Unregister, boxVars, At, Local, Renewing, Same, Told, Inv, Typed, Requested, WellFormed, Commands
  <2>6. a \notin doubt' => Works(r, a)'
    BY <1>1, <1>2, <1>3, <2>2, <2>3
       DEF Unregister, boxVars, Works, Gone, Own, Begun, At, Emptied, Started, Volumed
  <2>7. Stays(r)
    BY <1>2, <2>2, <2>3, <2>6, StaysWith DEF InFlight, At
  <2> QED BY <2>5, <2>7, LocalStep
<1> QED BY <1>4, <1>5

LEMMA UnrouteStep ==
  ASSUME Inv, NEW r \in Requests, Unroute(r)
  PROVE  Inv'
<1>1. InFlight(r)
  BY DEF Unroute, InFlight, At
<1>2. PICK a \in Apps : a = req[r].app /\ (a \notin doubt => Works(r, a))
  BY <1>1, AppOf
<1>3. Requested' /\ req'[r] = [req[r] EXCEPT !.at = "release"] /\ Rest(r)
  BY <1>1, Goes DEF Unroute, At, Inv, Typed, Requested, WellFormed, Places, StopPlaces, DeployPlaces, Commands, Rest
<1>4. Typed' /\ Distinct'
  BY <1>3 DEF Unroute, boxVars, Inv, Typed, Hosted, Distinct, Files, Ports0
<1>5. Local(r)
  BY <1>1, <1>2, <1>3, <1>4, SMTT(30)
     DEF Unroute, boxVars, At, Local, Renewing, Same, Told, Inv, Typed, Requested, RequestType, WellFormed, Hosted, Files, Commands
<1>6. a \notin doubt' => Works(r, a)'
  BY <1>2, <1>3 DEF Unroute, boxVars, At, Works, Own, Gone, Begun, Emptied, Started, Volumed, Inv, Typed, Requested, RequestType
<1>7. Stays(r)
  BY <1>2, <1>3, <1>6, StaysWith DEF InFlight, At, Inv, Typed, Requested, RequestType
<1> QED BY <1>5, <1>7, LocalStep

LEMMA ReleaseStep ==
  ASSUME Inv, NEW r \in Requests, Release(r)
  PROVE  Inv'
<1>1. InFlight(r) /\ At(r, "release")
  BY DEF Release, InFlight, At
<1>2. PICK a \in Apps : a = req[r].app /\ (a \notin doubt => Works(r, a))
  BY <1>1, AppOf
<1>3. ports' \in Files /\ ports'[a] = 0 /\ \A b \in Apps : b # a => ports'[b] = ports[b]
  BY <1>2 DEF Release, Inv, Typed, Hosted, Files, Ports0
<1>4. Requested' /\ req'[r] = Idle /\ Rest(r) /\ out' \in [Apps -> Outcomes]
      /\ out'[a] = "undeployed" /\ \A b \in Apps : b # a => out'[b] = out[b]
  BY <1>2, Ends DEF Release, End, Inv, Typed, Hosted, Rest, Outcomes
<1>5. Typed' /\ Distinct'
  BY <1>3, <1>4 DEF Release, boxVars, Inv, Typed, Hosted, Distinct
<1>6. Local(r)
  BY <1>1, <1>2, <1>3, <1>4, <1>5 DEF Release, boxVars, At, Local, Idle, Renewing, Same, Told
<1>7. Leaves(r)
  BY <1>1, <1>2, <1>3, <1>4, LeavesAtRest DEF Release, boxVars, Works, Emptied, At, Gone, Own
<1> QED BY <1>6, <1>7, LocalStep

------------------------------------------------------------------------------
(* deploy_app.                                                                 *)
LEMMA ClearStep ==
  ASSUME Inv, NEW r \in Requests, Clear(r)
  PROVE  Inv'
<1>1. InFlight(r)
  BY DEF Clear, Command, InFlight, At
<1>2. PICK a \in Apps : a = req[r].app /\ (a \notin doubt => Works(r, a))
  BY <1>1, AppOf
<1>3. Requested' /\ req'[r] = [req[r] EXCEPT !.at = "write"] /\ Rest(r)
  BY <1>1, Goes DEF Clear, Command, At, Inv, Typed, Requested, WellFormed, Places, StopPlaces, DeployPlaces, Commands, Rest
<1>4. Typed' /\ Distinct'
  BY <1>3 DEF Clear, Command, hostVars, Inv, Typed, Hosted, Distinct, Files, Ports0
<1>5. Local(r)
  BY <1>1, <1>2, <1>3, <1>4
     DEF Clear, Command, hostVars, At, Local, Renewing, Same, Told, Reloaded, Inv, Typed, Requested, RequestType, WellFormed, Hosted, Files, Commands
<1>6. a \notin doubt' => Works(r, a)'
  BY <1>2, <1>3
     DEF Clear, Command, hostVars, At, Works, Own, Gone, Begun, Emptied, Started, Volumed, HasVolumes,
         Inv, Typed, Requested, RequestType, WellFormed, DeployPlaces, Hosted, Files
<1>7. Stays(r)
  BY <1>2, <1>3, <1>6, StaysWith DEF InFlight, At, Inv, Typed, Requested, RequestType
<1> QED BY <1>5, <1>7, LocalStep

LEMMA WriteStep ==
  ASSUME Inv, NEW r \in Requests, Write(r)
  PROVE  Inv'
<1>1. InFlight(r)
  BY DEF Write, Command, InFlight, At
<1>2. PICK a \in Apps : a = req[r].app /\ (a \notin doubt => Works(r, a))
  BY <1>1, AppOf
<1>3. Requested' /\ req'[r] = [req[r] EXCEPT !.at = "update"] /\ Rest(r)
  BY <1>1, Goes DEF Write, Command, At, Inv, Typed, Requested, WellFormed, Places, StopPlaces, DeployPlaces, Commands, Rest
<1>4. Typed' /\ Distinct'
  <2>1. conf' \in Files
    BY DEF Write, Inv, Typed, Hosted, Files, Requested, RequestType
  <2> QED BY <1>3, <2>1 DEF Write, Command, hostVars, Inv, Typed, Hosted, Distinct
<1>5. Local(r)
  BY <1>1, <1>2, <1>3, <1>4
     DEF Write, Command, hostVars, At, Local, Renewing, Same, Told, Reloaded, Inv, Typed, Requested, RequestType, WellFormed, Hosted, Files, Commands
<1>6. a \notin doubt' => Works(r, a)'
  BY <1>2, <1>3
     DEF Write, Command, hostVars, At, Works, Own, Gone, Begun, Emptied, Started, Volumed, HasVolumes,
         Inv, Typed, Requested, RequestType, WellFormed, DeployPlaces, Hosted, Files, Loaded
<1>7. Stays(r)
  BY <1>2, <1>3, <1>6, StaysWith DEF InFlight, At, Inv, Typed, Requested, RequestType
<1> QED BY <1>5, <1>7, LocalStep

LEMMA StartUpStep ==
  ASSUME Inv, NEW r \in Requests, StartUp(r)
  PROVE  Inv'
<1>1. InFlight(r)
  BY DEF StartUp, Command, InFlight, At
<1>2. PICK a \in Apps : a = req[r].app /\ (a \notin doubt => Works(r, a))
  BY <1>1, AppOf
<1>3. Requested' /\ req'[r] = [req[r] EXCEPT !.at = "register"] /\ Rest(r)
  BY <1>1, Goes DEF StartUp, Command, At, Inv, Typed, Requested, WellFormed, Places, StopPlaces, DeployPlaces, Commands, Rest
<1>4. Typed' /\ Distinct'
  BY <1>3 DEF StartUp, Command, hostVars, Inv, Typed, Hosted, Distinct, Files, Ports0, Update
<1>5. Local(r)
  BY <1>1, <1>2, <1>3, <1>4
     DEF StartUp, Command, hostVars, At, Local, Renewing, Same, Told, Reloaded, Inv, Typed, Requested, RequestType, WellFormed, Hosted, Files, Commands, Update
<1>6. a \notin doubt' => Works(r, a)'
  BY <1>2, <1>3
     DEF StartUp, Command, hostVars, At, Works, Own, Gone, Begun, Emptied, Started, Volumed, HasVolumes,
         Inv, Typed, Requested, RequestType, WellFormed, DeployPlaces, Hosted, Files, Update, Loaded, Served
<1>7. Stays(r)
  BY <1>2, <1>3, <1>6, StaysWith DEF InFlight, At, Inv, Typed, Requested, RequestType
<1> QED BY <1>5, <1>7, LocalStep

LEMMA ForcedStep ==
  ASSUME Inv, NEW r \in Requests, Forced(r)
  PROVE  Inv'
<1>1. InFlight(r)
  BY DEF Forced, Command, InFlight, At
<1>2. PICK a \in Apps : a = req[r].app /\ (a \notin doubt => Works(r, a))
  BY <1>1, AppOf
<1>3. Requested' /\ req'[r] = [req[r] EXCEPT !.at = "register"] /\ Rest(r)
  BY <1>1, Goes DEF Forced, Command, At, Inv, Typed, Requested, WellFormed, Places, StopPlaces, DeployPlaces, Commands, Rest
<1>4. Typed' /\ Distinct'
  BY <1>2, <1>3 DEF Forced, Command, hostVars, Inv, Typed, Hosted, Distinct
<1>5. Local(r)
  BY <1>1, <1>2, <1>3, <1>4
     DEF Forced, Command, hostVars, At, Local, Renewing, Same, Told, Reloaded, Inv, Typed, Requested, RequestType, WellFormed, Hosted, Files, Commands
<1>6. a \notin doubt' => Works(r, a)'
  BY <1>2, <1>3
     DEF Forced, Command, hostVars, At, Works, Own, Gone, Begun, Emptied, Started, Volumed, HasVolumes,
         Inv, Typed, Requested, RequestType, WellFormed, DeployPlaces, Hosted, Files, Loaded, Served
<1>7. Stays(r)
  BY <1>2, <1>3, <1>6, StaysWith DEF InFlight, At, Inv, Typed, Requested, RequestType
<1> QED BY <1>5, <1>7, LocalStep

LEMMA RegisterStep ==
  ASSUME Inv, NEW r \in Requests, Register(r)
  PROVE  Inv'
<1>1. InFlight(r)
  BY DEF Register, Command, InFlight, At
<1>2. PICK a \in Apps : a = req[r].app /\ (a \notin doubt => Works(r, a))
  BY <1>1, AppOf
<1>3. Requested' /\ req'[r] = [req[r] EXCEPT !.at = "check"] /\ Rest(r)
  BY <1>1, Goes DEF Register, Command, At, Inv, Typed, Requested, WellFormed, Places, StopPlaces, DeployPlaces, Commands, Rest
<1>4. Typed' /\ Distinct'
  <2>1. registry' \in Files
    BY DEF Register, Inv, Typed, Hosted, Files, Requested, RequestType
  <2> QED BY <1>3, <2>1 DEF Register, Command, boxVars, Inv, Typed, Hosted, Distinct
<1>5. Local(r)
  BY <1>1, <1>2, <1>3, <1>4, ZenonT(40)
     DEF Register, Command, boxVars, At, Local, Renewing, Same, Told, Reloaded, Inv, Typed, Requested, RequestType, WellFormed, Hosted, Files, Commands
<1>6. a \notin doubt' => Works(r, a)'
  BY <1>2, <1>3
     DEF Register, Command, boxVars, At, Works, Own, Gone, Begun, Emptied, Started, Volumed, HasVolumes,
         Inv, Typed, Requested, RequestType, WellFormed, DeployPlaces, Hosted, Files, Served
<1>7. Stays(r)
  BY <1>2, <1>3, <1>6, StaysWith DEF InFlight, At, Inv, Typed, Requested, RequestType
<1> QED BY <1>5, <1>7, LocalStep

(* A request ends without success.                                             *)
LEMMA FailsAt ==
  ASSUME Inv, NEW r \in Requests, Fails(r), InFlight(r), NEW a \in Apps, a = req[r].app,
         Renewing(r) => req[r].reviving, Hosted', Distinct', doubt \subseteq doubt',
         \A b \in Apps : b # a => ports'[b] = ports[b] /\ route'[b] = route[b] /\ live'[b] = live[b],
         UNCHANGED <<registry, boxVars>>,
         a \notin doubt' => (Own(a, conf[a]) /\ Own(a, prog[a]) /\ Own(a, registry[a]))'
  PROVE  Inv'
<1>1. Requested' /\ req'[r] = Idle /\ Rest(r) /\ out' \in [Apps -> Outcomes]
      /\ out'[a] = "failed" /\ \A b \in Apps : b # a => out'[b] = out[b]
  BY Ends DEF Fails, End, Inv, Typed, Hosted, Rest, Outcomes
<1>2. Local(r)
  BY <1>1 DEF boxVars, Local, Idle, Renewing, Same, Told, Typed
<1>3. Leaves(r)
  BY <1>1, LeavesAtRest
<1> QED BY <1>2, <1>3, LocalStep

LEMMA AllocateStep ==
  ASSUME Inv, NEW r \in Requests, Allocate(r)
  PROVE  Inv'
<1>1. InFlight(r) /\ At(r, "allocate") /\ ~ Renewing(r) /\ req[r].snap = Nowhere
  BY DEF Allocate, InFlight, At, Renewing, Inv, Typed, Requested, WellFormed, Commands
<1>2. PICK a \in Apps : a = req[r].app /\ (a \notin doubt => Works(r, a))
  BY <1>1, AppOf
<1>3. PICK p : p = Port(a, req[r].pref)
  OBVIOUS
<1>4. p \in Ports0 /\ ports' = [ports EXCEPT ![a] = p] /\ ports' \in Files /\ Distinct'
  <2>1. req[r].pref \in Prefs \cup {0}
    BY DEF Inv, Typed, Requested, RequestType
  <2>2. ports' = [ports EXCEPT ![a] = p]
    BY <1>2, <1>3 DEF Allocate
  <2> QED BY <1>3, <2>1, <2>2, NewPortIsOwn DEF Inv, Typed
<1>5. CASE p # 0
  <2> DEFINE x == [req[r] EXCEPT !.port = p, !.at = "halt", !.then = "fetch"]
  <2>1. req' = [req EXCEPT ![r] = x] /\ out' = out /\ doubt' = doubt
    BY <1>2, <1>3, <1>5 DEF Allocate
  <2>a. "halt" \in Places /\ "fetch" \in Thens /\ req[r] \in RequestType /\ req[r].reviving = FALSE
    BY <1>1 DEF Renewing, Inv, Typed, Requested, RequestType, Places, StopPlaces, Thens
  <2>b. x \in RequestType
    BY <1>4, <2>a DEF RequestType
  <2>2. x \in RequestType /\ x.at = "halt" /\ x.app = a /\ x.port = p /\ x.snap = Nowhere /\ x.then = "fetch"
        /\ x.reviving = FALSE
    BY <1>1, <1>2, <2>a, <2>b DEF RequestType
  <2> HIDE DEF x
  <2>3. WellFormed(x)
    BY <1>5, <2>2 DEF WellFormed, StopPlaces, DeployPlaces
  <2>4. Requested' /\ req'[r] = x /\ Rest(r)
    BY <2>1, <2>3, Moved DEF Inv, Typed, Rest
  <2>5. Typed'
    BY <1>4, <2>1, <2>4 DEF Allocate, boxVars, Inv, Typed, Hosted
  <2>6. Local(r)
    BY <1>1, <1>2, <1>4, <2>1, <2>2, <2>4, <2>5 DEF Allocate, boxVars, At, Local, Renewing, Same, Told, Inv, Typed, Hosted, Files
  <2>7. Works(r, a)'
    BY <1>4, <2>2, <2>4 DEF Works, Own, Begun, At, Emptied, Started, Volumed, Inv, Typed, Hosted, Files
  <2>8. Stays(r)
    BY <1>2, <2>2, <2>4, <2>7, StaysWith DEF InFlight, At
  <2> QED BY <2>6, <2>8, LocalStep
<1>6. CASE p = 0
  <2>1. Fails(r) /\ doubt' = doubt \cup {a}
    BY <1>2, <1>3, <1>6 DEF Allocate
  <2>2. out' \in [Apps -> Outcomes]
    BY <1>2, <2>1 DEF Fails, End, Outcomes, Inv, Typed, Hosted
  <2>3. Hosted'
    BY <1>4, <2>1, <2>2 DEF Allocate, boxVars, Inv, Typed, Hosted
  <2>4. \A b \in Apps : b # a => ports'[b] = ports[b] /\ route'[b] = route[b] /\ live'[b] = live[b]
    BY <1>4 DEF Allocate, Inv, Typed, Hosted, Files
  <2> QED BY <1>1, <1>2, <1>4, <2>1, <2>3, <2>4, FailsAt DEF Allocate
<1> QED BY <1>5, <1>6

LEMMA FetchStep ==
  ASSUME Inv, NEW r \in Requests, NEW repo \in Prefs, Fetch(r, repo)
  PROVE  Inv'
<1>1. InFlight(r) /\ Command(r, "fetch") /\ At(r, "fetch") /\ ~ Renewing(r) /\ req[r].snap = Nowhere /\ req[r].port # 0
  BY DEF Fetch, Command, InFlight, At, Renewing, Inv, Typed, Requested, WellFormed, DeployPlaces
<1>2. PICK a \in Apps : a = req[r].app /\ (a \notin doubt => Works(r, a))
  BY <1>1, AppOf
<1>3. PICK p \in Prefs \cup {0} : p = (IF repo = 0 THEN req[r].pref ELSE repo)
  BY DEF Inv, Typed, Requested, RequestType
<1> DEFINE x == IF p \notin {0, req[r].port}
                THEN [req[r] EXCEPT !.pref = p, !.at = "halt", !.then = "reallocate"]
                ELSE [req[r] EXCEPT !.pref = 0, !.at = Prepared(a)]
<1>4. req' = [req EXCEPT ![r] = x]
  BY <1>2, <1>3 DEF Fetch
<1>a. req[r] \in RequestType /\ ~ req[r].reviving /\ {"halt", Prepared(a)} \subseteq Places /\ "reallocate" \in Thens
      /\ 0 \in Prefs \cup {0} /\ Prepared(a) \in {"mounts", "clear"} /\ (Prepared(a) = "clear" => a \notin Dev)
  BY <1>1 DEF Command, Prepared, Inv, Typed, Requested, Places, StopPlaces, DeployPlaces, Thens
<1>b. x \in RequestType
  BY <1>3, <1>a DEF RequestType
<1>5. x \in RequestType /\ x.app = a /\ x.snap = Nowhere /\ x.port = req[r].port /\ x.reviving = FALSE
      /\ \/ x.at = "halt" /\ x.then = "reallocate"
         \/ x.at = "mounts"
         \/ x.at = "clear" /\ a \notin Dev
  BY <1>1, <1>2, <1>a, <1>b DEF RequestType
<1> HIDE DEF x
<1>6. WellFormed(x)
  BY <1>1, <1>5 DEF WellFormed
<1>7. Requested' /\ req'[r] = x /\ Rest(r)
  BY <1>4, <1>6, Moved DEF Inv, Typed, Rest
<1>8. Typed' /\ Distinct'
  BY <1>7 DEF Fetch, hostVars, boxVars, Inv, Typed, Hosted, Distinct
<1>9. Local(r)
  BY <1>1, <1>2, <1>5, <1>7, <1>8 DEF Fetch, hostVars, boxVars, At, Local, Renewing, Same, Told
<1>10. a \notin doubt' => Works(r, a)'
  BY <1>1, <1>2, <1>5, <1>7
     DEF Fetch, hostVars, boxVars, Command, Works, Own, Gone, HasVolumes, Begun, At, Emptied, Started, Volumed
<1>11. Stays(r)
  BY <1>2, <1>5, <1>7, <1>10, StaysWith DEF InFlight, At
<1> QED BY <1>9, <1>11, LocalStep

LEMMA ReallocateStep ==
  ASSUME Inv, NEW r \in Requests, Reallocate(r)
  PROVE  Inv'
<1>1. InFlight(r) /\ At(r, "reallocate") /\ ~ Renewing(r) /\ req[r].snap = Nowhere
  BY DEF Reallocate, InFlight, At, Renewing, Inv, Typed, Requested, WellFormed, Commands
<1>2. PICK a \in Apps : a = req[r].app /\ (a \notin doubt => Works(r, a))
  BY <1>1, AppOf
<1>3. PICK p : p = NewPort(a, req[r].pref)
  OBVIOUS
<1>4. p \in Ports0 /\ ports' = [ports EXCEPT ![a] = p] /\ ports' \in Files /\ Distinct'
  <2>1. req[r].pref \in Prefs \cup {0}
    BY DEF Inv, Typed, Requested, RequestType
  <2>2. ports' = [ports EXCEPT ![a] = p]
    BY <1>2, <1>3 DEF Reallocate
  <2> QED BY <1>3, <2>1, <2>2, NewPortIsOwn DEF Inv, Typed
<1>5. CASE p # 0
  <2> DEFINE x == [req[r] EXCEPT !.port = p, !.pref = 0, !.at = Prepared(a)]
  <2>1. req' = [req EXCEPT ![r] = x] /\ out' = out /\ doubt' = doubt
    BY <1>2, <1>3, <1>5 DEF Reallocate
  <2>a. req[r] \in RequestType /\ req[r].reviving = FALSE /\ Prepared(a) \in Places /\ 0 \in Prefs \cup {0}
        /\ Prepared(a) \in {"mounts", "clear"} /\ (Prepared(a) = "clear" => a \notin Dev)
    BY <1>1 DEF Prepared, Renewing, Inv, Typed, Requested, RequestType, Places, DeployPlaces
  <2>b. x \in RequestType
    BY <1>4, <2>a DEF RequestType
  <2>2. x \in RequestType /\ x.app = a /\ x.port = p /\ x.snap = Nowhere /\ x.reviving = FALSE
        /\ (x.at = "mounts" \/ (x.at = "clear" /\ a \notin Dev))
    BY <1>1, <1>2, <2>a, <2>b DEF RequestType
  <2> HIDE DEF x
  <2>3. WellFormed(x)
    BY <1>5, <2>2 DEF WellFormed, StopPlaces
  <2>4. Requested' /\ req'[r] = x /\ Rest(r)
    BY <2>1, <2>3, Moved DEF Inv, Typed, Rest
  <2>5. Typed'
    BY <1>4, <2>1, <2>4 DEF Reallocate, boxVars, Inv, Typed, Hosted
  <2>6. Local(r)
    BY <1>1, <1>2, <1>4, <2>1, <2>2, <2>4, <2>5 DEF Reallocate, boxVars, At, Local, Renewing, Same, Told, Inv, Typed, Hosted, Files
  <2>7. a \notin doubt' => Works(r, a)'
    BY <1>1, <1>2, <1>4, <2>1, <2>2, <2>4
       DEF Reallocate, boxVars, Works, Own, Gone, HasVolumes, Begun, At, Emptied, Started, Volumed, Inv, Typed, Hosted, Files
  <2>8. Stays(r)
    BY <1>2, <2>2, <2>4, <2>7, StaysWith DEF InFlight, At
  <2> QED BY <2>6, <2>8, LocalStep
<1>6. CASE p = 0
  <2>1. Fails(r) /\ doubt' = doubt
    BY <1>2, <1>3, <1>6 DEF Reallocate
  <2>2. out' \in [Apps -> Outcomes]
    BY <1>2, <2>1 DEF Fails, End, Outcomes, Inv, Typed, Hosted
  <2>3. Hosted'
    BY <1>4, <2>1, <2>2 DEF Reallocate, boxVars, Inv, Typed, Hosted
  <2>4. \A b \in Apps : b # a => ports'[b] = ports[b] /\ route'[b] = route[b] /\ live'[b] = live[b]
    BY <1>4 DEF Reallocate, Inv, Typed, Hosted, Files
  <2>5. a \notin doubt' => (Own(a, conf[a]) /\ Own(a, prog[a]) /\ Own(a, registry[a]))'
    BY <1>1, <1>2, <2>1 DEF Reallocate, boxVars, Works, Gone, Own, At, Emptied
  <2> QED BY <1>1, <1>2, <1>4, <2>1, <2>3, <2>4, <2>5, FailsAt DEF Reallocate
<1> QED BY <1>5, <1>6

(* The last commands of a deployment.                                          *)
LEMMA CheckStep ==
  ASSUME Inv, NEW r \in Requests, Check(r)
  PROVE  Inv'
<1>1. InFlight(r) /\ At(r, "check") /\ req[r].snap = Nowhere /\ req[r].port # 0
  BY DEF Check, InFlight, At, Inv, Typed, Requested, WellFormed, DeployPlaces
<1>2. PICK a \in Apps : a = req[r].app /\ (a \notin doubt => Works(r, a))
  BY <1>1, AppOf
<1> DEFINE x == [req[r] EXCEPT !.at = "nginx", !.reviving = FALSE]
<1>3. req' = [req EXCEPT ![r] = x]
  BY DEF Check
<1>4. req[r] \in RequestType /\ "nginx" \in Places
  BY DEF Inv, Typed, Requested, Places, DeployPlaces
<1>5. x \in RequestType
  BY <1>4 DEF RequestType
<1>6. x.at = "nginx" /\ x.app = a /\ x.port = req[r].port /\ x.snap = Nowhere /\ x.reviving = FALSE
  BY <1>1, <1>2, <1>4 DEF RequestType
<1> HIDE DEF x
<1>7. WellFormed(x)
  BY <1>1, <1>2, <1>5, <1>6 DEF WellFormed, StopPlaces
<1>8. Requested' /\ req'[r] = x /\ Rest(r)
  BY <1>3, <1>7, Moved DEF Inv, Typed, Rest
<1>9. Typed' /\ Distinct'
  BY <1>8 DEF Check, hostVars, boxVars, Inv, Typed, Hosted, Distinct
<1>10. Local(r)
  BY <1>1, <1>2, <1>6, <1>8, <1>9 DEF Check, hostVars, boxVars, At, Local, Renewing, Same, Told
<1>11. a \notin doubt' => Works(r, a)'
  BY <1>1, <1>2, <1>6, <1>8
     DEF Check, hostVars, boxVars, Works, Own, Served, HasVolumes, Begun, At, Emptied, Started, Volumed
<1>12. Stays(r)
  BY <1>2, <1>6, <1>8, <1>11, StaysWith DEF InFlight, At
<1> QED BY <1>10, <1>12, LocalStep

LEMMA NginxStep ==
  ASSUME Inv, NEW r \in Requests, Nginx(r)
  PROVE  Inv'
<1>1. InFlight(r) /\ At(r, "nginx") /\ ~ Renewing(r) /\ req[r].port # 0 /\ req[r].port \in Ports0
  BY DEF Nginx, InFlight, At, Renewing, Inv, Typed, Requested, WellFormed, RequestType, DeployPlaces, Commands
<1>2. PICK a \in Apps : a = req[r].app /\ (a \notin doubt => Works(r, a))
  BY <1>1, AppOf
<1>3. route' = [route EXCEPT ![a] = req[r].port] /\ route' \in Files
  BY <1>1, <1>2 DEF Nginx, Inv, Typed, Hosted, Files
<1>4. CASE live' = route' /\ End(r, "completed")
  <2>1. Requested' /\ req'[r] = Idle /\ Rest(r) /\ out' \in [Apps -> Outcomes]
        /\ out'[a] = "completed" /\ \A b \in Apps : b # a => out'[b] = out[b]
    BY <1>2, <1>4, Ends DEF End, Inv, Typed, Hosted, Rest, Outcomes
  <2>2. Typed' /\ Distinct'
    BY <1>3, <1>4, <2>1 DEF Nginx, boxVars, Inv, Typed, Hosted, Distinct
  <2>3. Local(r)
    BY <1>1, <1>2, <1>3, <1>4, <2>1, <2>2 DEF Nginx, boxVars, At, Local, Idle, Renewing, Same, Told, Inv, Typed, Hosted, Files
  <2>4. a \notin doubt' => (ports[a] # 0 /\ Served(a) /\ registry[a] = ports[a] /\ up /\ HasVolumes(a) /\ req[r].port = ports[a])
    BY <1>1, <1>2 DEF Nginx, Works, Own, Served, Begun, At, Started, Volumed
  <2>5. a \notin doubt' =>
          /\ (Own(a, conf[a]) /\ Own(a, prog[a]) /\ Own(a, registry[a]))'
          /\ (out[a] \in {"stopped", "undeployed"} => Gone(a))'
          /\ (out[a] = "completed" => ports[a] # 0 /\ Routed(a) /\ Up(a))'
    BY <1>3, <1>4, <2>1, <2>4 DEF Nginx, boxVars, Own, Served, Routed, Up, HasVolumes, Inv, Typed, Hosted, Files
  <2>6. Leaves(r)
    BY <1>1, <1>2, <2>1, <2>5, LeavesAtRest DEF Nginx
  <2> QED BY <2>3, <2>6, LocalStep
<1>5. CASE Fails(r) /\ UNCHANGED live
  <2>1. out' \in [Apps -> Outcomes]
    BY <1>2, <1>5 DEF Fails, End, Outcomes, Inv, Typed, Hosted
  <2>2. Hosted' /\ Distinct'
    BY <1>3, <1>5, <2>1 DEF Nginx, boxVars, Inv, Typed, Hosted, Distinct
  <2>3. \A b \in Apps : b # a => ports'[b] = ports[b] /\ route'[b] = route[b] /\ live'[b] = live[b]
    BY <1>3, <1>5 DEF Nginx, Inv, Typed, Hosted, Files
  <2>4. a \notin doubt' => (Own(a, conf[a]) /\ Own(a, prog[a]) /\ Own(a, registry[a]))'
    BY <1>1, <1>2 DEF Nginx, boxVars, Works, Served, Own, At, Started
  <2> QED BY <1>1, <1>2, <1>5, <2>2, <2>3, <2>4, FailsAt DEF Nginx
<1> QED BY <1>4, <1>5 DEF Nginx

LEMMA FailStep ==
  ASSUME Inv, NEW r \in Requests, Fail(r)
  PROVE  Inv'
<1>1. InFlight(r) /\ Fails(r) /\ (Renewing(r) => req[r].reviving)
  BY DEF Fail, InFlight, At, Renewing
<1>2. PICK a \in Apps : a = req[r].app /\ (a \notin doubt => Works(r, a))
  BY <1>1, AppOf
<1>3. out' \in [Apps -> Outcomes]
  BY <1>1, <1>2 DEF Fails, End, Outcomes, Inv, Typed, Hosted
<1>4. Hosted' /\ Distinct' /\ doubt \subseteq doubt'
  BY <1>2, <1>3 DEF Fail, hostVars, boxVars, Inv, Typed, Hosted, Distinct
<1>5. a \notin doubt' => (Own(a, conf[a]) /\ Own(a, prog[a]) /\ Own(a, registry[a]))'
  BY <1>2 DEF Fail, hostVars, boxVars, Works, Served, Loaded, Gone, Own, At, Started, Emptied
<1> QED BY <1>1, <1>2, <1>4, <1>5, FailsAt DEF Fail, hostVars

------------------------------------------------------------------------------
(* A request is made.                                                          *)
LEMMA RequestStep ==
  ASSUME Inv, NEW r \in Requests, NEW op \in Ops, NEW a \in Apps, NEW pref \in Prefs \cup {0}, Request(r, op, a, pref)
  PROVE  Inv'
<1> DEFINE x == [Idle EXCEPT !.app = a,
                             !.at = IF op = "deploy" THEN "allocate" ELSE "halt",
                             !.then = IF op = "undeploy" THEN "unroute" ELSE "end",
                             !.pref = pref]
<1>1. req' = [req EXCEPT ![r] = x] /\ ~ InFlight(r) /\ ~ Renewing(r)
  BY DEF Request, InFlight, Renewing, At, Inv, Typed, Requested, WellFormed, Commands
<1>2. Idle \in RequestType /\ Idle.port = 0 /\ Idle.snap = Nowhere /\ ~ Idle.reviving
  BY IdleWellFormed DEF WellFormed, Idle
<1>3. x.app = a /\ x.at \in {"allocate", "halt"} /\ x.then \in {"end", "unroute"} /\ x.port = 0 /\ x.snap = Nowhere
      /\ x.reviving = FALSE
  BY DEF Idle
<1>4. x \in RequestType
  BY <1>2, ZenonT(40) DEF RequestType, Places, StopPlaces, DeployPlaces, Thens
<1> HIDE DEF x
<1>5. WellFormed(x)
  BY <1>3, <1>4 DEF WellFormed, DeployPlaces
<1>6. Requested' /\ req'[r] = x /\ Rest(r)
  BY <1>1, <1>5, Moved DEF Inv, Typed, Rest
<1>7. Typed' /\ Distinct'
  <2>1. made' \in 0..MaxRequests /\ doubt' \subseteq Apps
    BY DEF Request, Inv, Typed, Hosted
  <2> QED BY <1>6, <2>1 DEF Request, hostVars, boxVars, Inv, Typed, Hosted, Distinct
<1>8. InFlight(r)' /\ ~ Renewing(r)' /\ req'[r].app = a
  BY <1>3, <1>6 DEF InFlight, Renewing, At
<1>9. \A s \in Requests \ {r} : (InFlight(s)' <=> InFlight(s)) /\ (Renewing(s)' <=> Renewing(s)) /\ req'[s].app = req[s].app
  BY <1>6 DEF InFlight, Renewing, At, Rest
<1>10. ASSUME NEW s \in Requests \ {r}, InFlight(s), req[s].app \in doubt \/ req[s].app = a PROVE req[s].app \in doubt'
  BY <1>10 DEF Request, Busy
<1>11. ASSUME NEW s \in Requests \ {r}, Renewing(s) PROVE doubt' = doubt \cup {a}
  BY <1>11 DEF Request
<1>12. Overlap'
  <2>1. Alone'
    BY <1>8, <1>9, <1>10 DEF Alone, Inv, Overlap
  <2>2. Apart'
    BY <1>8, <1>9, <1>10, <1>11 DEF Apart, Inv, Overlap
  <2>3. Once'
    BY <1>8, <1>9, <1>11 DEF Once, Inv, Overlap
  <2> QED BY <2>1, <2>2, <2>3 DEF Overlap
<1>13. Snaps'
  <2> SUFFICES ASSUME NEW s \in Requests, NEW b \in Apps \ doubt' PROVE req'[s].snap[b] \in {0, registry'[b]}
    BY DEF Snaps
  <2>1. CASE s = r
    BY <1>3, <1>6, <2>1 DEF Nowhere
  <2>2. CASE s # r /\ Renewing(s)
    BY <1>6, <1>11, <2>2 DEF Request, hostVars, Rest, Inv, Snaps
  <2>3. CASE s # r /\ ~ Renewing(s)
    BY <1>6, <2>3 DEF Rest, Renewing, Nowhere, Inv, Typed, Requested, WellFormed
  <2> QED BY <2>1, <2>2, <2>3
<1>14. \A b \in Apps : Same(b) /\ Told(b)
  BY DEF Request, hostVars, boxVars, Same, Told
<1>15. ASSUME NEW s \in Requests PROVE Working(s)'
  <2>1. CASE s = r
    BY <1>3, <1>6, <2>1 DEF Working, Works, Own, Begun, At, Emptied, Started, Volumed
  <2>2. CASE s # r
    <3> SUFFICES ASSUME InFlight(s), req[s].app \notin doubt' PROVE Works(s, req[s].app)'
      BY <1>6, <1>9, <2>2 DEF Working, Rest
    <3>1. PICK b \in Apps : b = req[s].app
      BY DEF InFlight, At, Inv, Typed, Requested, WellFormed
    <3>2. Works(s, b)
      BY <1>10, <2>2, <3>1 DEF Inv, Working
    <3>3. Works(s, b)'
      BY <1>6, <1>14, <2>2, <3>2, WorksKept DEF Inv, Rest
    <3> QED BY <1>6, <2>2, <3>1, <3>3 DEF Rest
  <2> QED BY <2>1, <2>2
<1>16. ASSUME NEW b \in Apps PROVE Resting(b)'
  <2> SUFFICES ASSUME ~ Busy(b)', b \notin doubt' PROVE Rests(b)'
    BY DEF Resting
  <2>1. b # a
    BY <1>8 DEF Busy
  <2>2. ~ Busy(b) /\ b \notin doubt
    BY <1>1, <1>9, <2>1 DEF Busy, Request
  <2>3. Rests(b)
    BY <2>2 DEF Inv, Resting
  <2> QED BY <1>1, <1>6, <1>8, <1>14, <2>3, RestsKept DEF Inv
<1> QED BY <1>7, <1>12, <1>13, <1>15, <1>16 DEF Inv

------------------------------------------------------------------------------
(* The container is replaced.  When all apps are in doubt there is little to show. *)
LEMMA AllInDoubt ==
  ASSUME Typed', Distinct', doubt' = Apps
  PROVE  Inv'
<1>1. \A s \in Requests : InFlight(s)' => req'[s].app \in Apps
  BY DEF Typed, Requested, WellFormed, InFlight, At
<1>2. Overlap'
  BY <1>1 DEF Overlap, Alone, Apart, Once
<1> QED BY <1>1, <1>2 DEF Inv, Snaps, Working, Resting

LEMMA NotRecreatedStep ==
  ASSUME Inv, NEW r \in Requests, InFlight(r), NotRecreated(r)
  PROVE  Inv'
<1>1. req[r].app \in Apps
  BY AppOf
<1>2. Requested' /\ out' \in [Apps -> Outcomes]
  BY Ends DEF NotRecreated, Fails, Inv, Typed, Hosted, Outcomes
<1>3. Typed' /\ Distinct'
  BY <1>2 DEF NotRecreated, hostVars, boxVars, Inv, Typed, Hosted, Distinct
<1> QED BY <1>3, AllInDoubt DEF NotRecreated

(* The request begins: nobody else does, and all others are in doubt.          *)
Begins(r) == (\A s \in Requests \ {r} : ~ Renewing(s)) /\ doubt' = doubt \cup Others(r)

LEMMA BeginStep ==
  ASSUME Inv, NEW r \in Requests, NEW a \in Apps, a = req[r].app, InFlight(r), InFlight(r)', req'[r].app = a, Rest(r),
         Begins(r), Typed', UNCHANGED <<hostVars, boxVars, out>>, req'[r].snap = Nowhere, Renewing(r)',
         a \notin doubt => Works(r, a)',
         \A b \in Apps : Completed(b) => Kept(r, b)'
  PROVE  Inv'
<1>1. \A s \in Requests \ {r} : (InFlight(s)' <=> InFlight(s)) /\ ~ Renewing(s)' /\ req'[s].app = req[s].app
  BY DEF Begins, InFlight, Renewing, At, Rest
<1>2. \A s \in Requests \ {r} : InFlight(s) => req[s].app \in doubt'
  BY DEF Begins, Others
<1>3. Overlap'
  BY <1>1, <1>2 DEF Inv, Overlap, Alone, Apart, Once, Begins
<1>4. Snaps'
  BY SnapsKept DEF Inv, Overlap, Begins, hostVars, Nowhere
<1>5. ASSUME NEW s \in Requests PROVE Working(s)'
  BY <1>1, <1>2 DEF Working, Begins
<1>6. ASSUME NEW b \in Apps PROVE Resting(b)'
  <2> SUFFICES ASSUME ~ Busy(b)', b \notin doubt' PROVE Rests(b)'
    BY DEF Resting
  <2>1. ~ Busy(b) /\ b \notin doubt
    BY <1>1 DEF Busy, Begins
  <2>2. Rests(b)
    BY <2>1 DEF Inv, Resting
  <2>3. ASSUME Completed(b) PROVE Completed(b)'
    <3>1. \A s \in Requests : Kept(s, b)'
      BY <1>1, <2>3 DEF Kept, Renewing, At
    <3> QED BY <2>3, <3>1 DEF Completed, Routed, hostVars
  <2> QED BY <2>2, <2>3 DEF Rests, Gone, Own, hostVars, boxVars
<1>7. Distinct'
  BY DEF Inv, Distinct, hostVars
<1> QED BY <1>3, <1>4, <1>5, <1>6, <1>7 DEF Inv

LEMMA FindDownStep ==
  ASSUME Inv, NEW r \in Requests, FindDown(r)
  PROVE  Inv'
<1>1. InFlight(r) /\ ~ Renewing(r) /\ req[r].snap = Nowhere /\ req[r].at \in Commands
  BY DEF FindDown, Commands, InFlight, At, Renewing, Inv, Typed, Requested, WellFormed
<1>2. PICK a \in Apps : a = req[r].app /\ (a \notin doubt => Works(r, a))
  BY <1>1, AppOf
<1> DEFINE x == [req[r] EXCEPT !.reviving = TRUE]
<1>3. req' = [req EXCEPT ![r] = x]
  BY DEF FindDown
<1>4. req[r] \in RequestType
  BY DEF Inv, Typed, Requested
<1>5. x \in RequestType
  BY <1>4 DEF RequestType
<1>6. x.app = a /\ x.at = req[r].at /\ x.then = req[r].then /\ x.port = req[r].port /\ x.snap = Nowhere
      /\ x.mounts = req[r].mounts /\ x.reviving = TRUE
  BY <1>1, <1>2, <1>4 DEF RequestType
<1> HIDE DEF x
<1>7. WellFormed(x)
  BY <1>1, <1>2, <1>5, <1>6 DEF WellFormed, Inv, Typed, Requested
<1>8. Requested' /\ req'[r] = x /\ Rest(r)
  BY <1>3, <1>7, Moved DEF Inv, Typed, Rest
<1>9. Others(r) \subseteq Apps
  BY DEF Others, Inv, Typed, Requested, WellFormed, InFlight, At
<1>10. Typed' /\ Distinct'
  BY <1>8, <1>9 DEF FindDown, Disturb, hostVars, boxVars, Inv, Typed, Hosted, Distinct
<1>11. CASE \E s \in Requests \ {r} : Renewing(s)
  BY <1>10, <1>11, AllInDoubt DEF FindDown, Disturb
<1>12. CASE ~ \E s \in Requests \ {r} : Renewing(s)
  <2>1. Begins(r)
    BY <1>12 DEF FindDown, Disturb, Begins
  <2>2. ASSUME a \notin doubt PROVE Works(r, a)'
    <3>1. At(r, "halt") /\ req[r].then # "reallocate" /\ Own(a, req[r].port)
      BY <1>1, <1>2, <2>2 DEF FindDown, Works, Begun, At, Commands
    <3> QED BY <1>6, <1>8, <3>1 DEF FindDown, hostVars, Works, Begun, At, Own, Emptied, Started, Volumed
  <2>3. \A b \in Apps : ~ Completed(b)
    BY <1>1, <1>12 DEF FindDown, Completed, Up
  <2> QED BY <1>1, <1>2, <1>6, <1>8, <1>10, <2>1, <2>2, <2>3, BeginStep DEF FindDown, InFlight, At, Renewing
<1> QED BY <1>11, <1>12

LEMMA ReviveStep ==
  ASSUME Inv, NEW r \in Requests, Revive(r)
  PROVE  Inv'
<1>1. InFlight(r) /\ Renewing(r) /\ req[r].snap = Nowhere /\ req[r].at \in Commands /\ req[r].reviving = TRUE
  BY DEF Revive, Commands, InFlight, At, Renewing, Inv, Typed, Requested, WellFormed, RequestType
<1>2. PICK a \in Apps : a = req[r].app /\ (a \notin doubt => Works(r, a))
  BY <1>1, AppOf
<1> DEFINE x == [req[r] EXCEPT !.reviving = FALSE]
<1>3. req' = [req EXCEPT ![r] = x]
  BY DEF Revive
<1>4. req[r] \in RequestType
  BY DEF Inv, Typed, Requested
<1>5. x \in RequestType
  BY <1>4 DEF RequestType
<1>6. x.app = a /\ x.at = req[r].at /\ x.then = req[r].then /\ x.port = req[r].port /\ x.snap = Nowhere
      /\ x.mounts = req[r].mounts /\ x.reviving = FALSE
  BY <1>1, <1>2, <1>4 DEF RequestType
<1> HIDE DEF x
<1>7. WellFormed(x)
  BY <1>1, <1>2, <1>5, <1>6 DEF WellFormed, Inv, Typed, Requested
<1>8. Requested' /\ req'[r] = x /\ Rest(r)
  BY <1>3, <1>7, Moved DEF Inv, Typed, Rest
<1>9. Typed' /\ Distinct'
  <2>1. Nowhere \in Files
    BY DEF Nowhere, Files, Ports0
  <2> QED BY <1>8, <2>1 DEF Revive, hostVars, Inv, Typed, Hosted, Distinct
<1>10. doubt \subseteq doubt' /\ doubt' \subseteq Apps /\ (\A b \in Apps \ doubt' : b = a) /\ (a \in doubt' => a \in doubt)
  BY <1>2 DEF Revive, Inv, Typed, Hosted
<1>11. Overlap'
  BY <1>1, <1>2, <1>6, <1>8, <1>9, <1>10, OverlapKept DEF Inv, Typed
<1>12. Snaps'
  <2>1. \A b \in Apps : req'[r].snap[b] \in {0, req[r].snap[b]}
    BY <1>6, <1>8 DEF Nowhere
  <2> QED BY <1>8, <1>10, <2>1, SnapsKept DEF Revive, hostVars, Inv, Overlap
<1>13. ASSUME NEW s \in Requests PROVE Working(s)'
  <2>1. CASE s = r
    <3> SUFFICES ASSUME a \notin doubt PROVE Works(r, a)'
      BY <1>6, <1>8, <1>10, <2>1 DEF Working
    <3>1. At(r, "halt") /\ req[r].then # "reallocate" /\ Own(a, req[r].port)
      BY <1>1, <1>2 DEF Works, Begun, At, Commands
    <3> QED BY <1>6, <1>8, <3>1 DEF Revive, hostVars, Works, Begun, At, Own, Emptied, Started, Volumed
  <2>2. CASE s # r /\ InFlight(s)
    <3>1. req[s].app \in Apps /\ (req[s].app = a => a \in doubt)
      BY <1>1, <1>2, <2>2 DEF Inv, Overlap, Alone, Typed, Requested, WellFormed, InFlight, At
    <3> QED BY <1>8, <1>10, <2>2, <3>1 DEF Working, Rest
  <2>3. CASE s # r /\ ~ InFlight(s)
    BY <1>8, <2>3 DEF Working, InFlight, At, Rest
  <2> QED BY <2>1, <2>2, <2>3
<1>14. ASSUME NEW b \in Apps PROVE Resting(b)'
  <2>1. Busy(a)'
    BY <1>1, <1>6, <1>8 DEF Busy, InFlight, At
  <2> QED BY <1>10, <2>1 DEF Resting
<1> QED BY <1>9, <1>11, <1>12, <1>13, <1>14 DEF Inv

(* ensure_app_volumes_mounted.                                                 *)
LEMMA MountsStep ==
  ASSUME Inv, NEW r \in Requests, Mounts(r)
  PROVE  Inv'
<1>1. InFlight(r) /\ At(r, "mounts") /\ ~ Renewing(r) /\ req[r].snap = Nowhere /\ ~ req[r].reviving /\ req[r].port # 0
  BY DEF Mounts, InFlight, At, Renewing, Inv, Typed, Requested, WellFormed, Commands, DeployPlaces
<1>2. PICK a \in Apps : a = req[r].app /\ (a \notin doubt => Works(r, a))
  BY <1>1, AppOf
<1>3. CASE a \in mounted
  <2>0. To(r, "clear") /\ doubt' = doubt
    BY <1>2, <1>3 DEF Mounts
  <2>1. Requested' /\ req'[r] = [req[r] EXCEPT !.at = "clear"] /\ Rest(r)
    BY <1>1, <2>0, Goes DEF Inv, Typed, Places, StopPlaces, DeployPlaces, Commands, Rest
  <2>2. Typed' /\ Distinct'
    BY <2>0, <2>1 DEF Mounts, hostVars, boxVars, Inv, Typed, Hosted, Distinct
  <2>3. Local(r)
    BY <1>1, <1>2, <2>0, <2>1, <2>2
       DEF Mounts, hostVars, boxVars, At, Local, Renewing, Same, Told, Inv, Typed, Requested, RequestType
  <2>4. a \notin doubt' => Works(r, a)'
    BY <1>1, <1>2, <1>3, <2>0, <2>1
       DEF Mounts, hostVars, boxVars, At, Works, Own, Gone, Begun, Emptied, Started, Volumed, HasVolumes,
           Inv, Typed, Requested, RequestType
  <2>5. Stays(r)
    BY <1>2, <2>1, <2>4, StaysWith DEF InFlight, At, Inv, Typed, Requested, RequestType
  <2> QED BY <2>3, <2>5, LocalStep
<1>4. CASE a \notin mounted
  <2> DEFINE x == [req[r] EXCEPT !.mounts = mounted \cup {a}, !.at = "down"]
  <2>1. req' = [req EXCEPT ![r] = x] /\ Disturb(r)
    BY <1>2, <1>4 DEF Mounts
  <2>2. req[r] \in RequestType /\ "down" \in Places /\ mounted \cup {a} \subseteq Apps
    BY <1>2 DEF Inv, Typed, Hosted, Requested, Places, DeployPlaces
  <2>3. x \in RequestType
    BY <2>2 DEF RequestType
  <2>4. x.app = a /\ x.at = "down" /\ x.port = req[r].port /\ x.snap = Nowhere /\ x.mounts = mounted \cup {a}
        /\ ~ x.reviving
    BY <1>1, <1>2, <2>2 DEF RequestType
  <2> HIDE DEF x
  <2>5. WellFormed(x)
    BY <1>1, <1>2, <2>3, <2>4 DEF WellFormed, StopPlaces
  <2>6. Requested' /\ req'[r] = x /\ Rest(r)
    BY <2>1, <2>5, Moved DEF Inv, Typed, Rest
  <2>7. Others(r) \subseteq Apps
    BY DEF Others, Inv, Typed, Requested, WellFormed, InFlight, At
  <2>8. Typed' /\ Distinct'
    BY <2>1, <2>6, <2>7 DEF Mounts, Disturb, hostVars, boxVars, Inv, Typed, Hosted, Distinct
  <2>9. CASE \E s \in Requests \ {r} : Renewing(s)
    BY <2>1, <2>8, <2>9, AllInDoubt DEF Disturb
  <2>10. CASE ~ \E s \in Requests \ {r} : Renewing(s)
    <3>1. Begins(r)
      BY <2>1, <2>10 DEF Disturb, Begins
    <3>2. ASSUME a \notin doubt PROVE Works(r, a)'
      BY <1>1, <1>2, <2>4, <2>6, <3>2
         DEF Mounts, hostVars, boxVars, Works, Begun, At, Own, Gone, Emptied, Started, Volumed
    <3>3. ASSUME NEW b \in Apps, Completed(b) PROVE Kept(r, b)'
      <4>1. Up(b)
        BY <1>1, <2>10, <3>3 DEF Completed
      <4> QED BY <2>4, <2>6, <4>1 DEF Mounts, hostVars, boxVars, Kept, At, Up, Served, HasVolumes
    <3>4. InFlight(r)' /\ Renewing(r)'
      BY <2>4, <2>6 DEF InFlight, At, Renewing
    <3> QED BY <1>1, <1>2, <2>4, <2>6, <2>8, <3>1, <3>2, <3>3, <3>4, BeginStep DEF Mounts
  <2> QED BY <2>9, <2>10
<1> QED BY <1>3, <1>4

(* The request goes on replacing the container.                                *)
LEMMA RenewStep ==
  ASSUME Inv, NEW r \in Requests, NEW a \in Apps, a = req[r].app, InFlight(r), Renewing(r), InFlight(r)', req'[r].app = a,
         Rest(r), Typed', UNCHANGED <<hostVars, out>>, doubt \subseteq doubt',
         \A b \in Apps \ doubt' : req'[r].snap[b] \in {0, registry[b]},
         a \notin doubt' => Works(r, a)',
         \A b \in Apps \ doubt' : Rests(b) =>
            /\ Own(b, conf'[b]) /\ Own(b, prog'[b])
            /\ Gone(b) => conf'[b] = 0 /\ prog'[b] = 0
            /\ Completed(b) => Kept(r, b)' /\ (~ Renewing(r)' => Up(b)')
  PROVE  Inv'
<1>1. \A s \in Requests \ {r} : (InFlight(s)' <=> InFlight(s)) /\ (Renewing(s)' <=> Renewing(s)) /\ req'[s] = req[s]
  BY DEF InFlight, Renewing, At, Rest
<1>2. Overlap'
  BY OverlapKept DEF Inv, Typed, Hosted
<1>3. Snaps'
  BY <1>1 DEF Inv, Snaps, hostVars
<1>4. ASSUME NEW s \in Requests PROVE Working(s)'
  BY <1>1 DEF Working, Inv, Overlap, Apart
<1>5. ASSUME NEW b \in Apps PROVE Resting(b)'
  <2> SUFFICES ASSUME ~ Busy(b)', b \notin doubt' PROVE Rests(b)'
    BY DEF Resting
  <2>1. ~ Busy(b) /\ b \notin doubt
    BY <1>1 DEF Busy
  <2>2. Rests(b)
    BY <2>1 DEF Inv, Resting
  <2>3. ASSUME Completed(b) PROVE Completed(b)'
    <3>1. ASSUME NEW s \in Requests \ {r} PROVE Kept(s, b)'
      <4>1. ~ Renewing(s)
        BY <2>1 DEF Inv, Overlap, Once
      <4> QED BY <1>1, <4>1 DEF Kept, Renewing, At
    <3>2. Kept(r, b)' /\ (~ Renewing(r)' => Up(b)')
      BY <2>2, <2>3
    <3>3. (ports[b] # 0 /\ Routed(b))'
      BY <2>3 DEF Completed, Routed, hostVars
    <3> QED BY <3>1, <3>2, <3>3 DEF Completed
  <2>4. (Own(b, conf[b]) /\ Own(b, prog[b]) /\ Own(b, registry[b]))'
    BY <2>2 DEF Rests, Own, hostVars
  <2>5. (out[b] \in {"stopped", "undeployed"} => Gone(b))'
    BY <2>2 DEF Rests, Gone, hostVars
  <2> QED BY <2>2, <2>3, <2>4, <2>5 DEF Rests
<1>6. Distinct'
  BY DEF Inv, Distinct, hostVars
<1> QED BY <1>2, <1>3, <1>4, <1>5, <1>6 DEF Inv

LEMMA DownStep ==
  ASSUME Inv, NEW r \in Requests, Down(r)
  PROVE  Inv'
<1>1. InFlight(r) /\ At(r, "down") /\ Renewing(r) /\ req[r].snap = Nowhere /\ ~ req[r].reviving /\ req[r].port # 0
      /\ req[r].app \in req[r].mounts
  BY DEF Down, InFlight, At, Renewing, Inv, Typed, Requested, WellFormed, Commands, DeployPlaces
<1>2. PICK a \in Apps : a = req[r].app /\ (a \notin doubt => Works(r, a))
  BY <1>1, AppOf
<1>3. Requested' /\ req'[r] = [req[r] EXCEPT !.at = "run"] /\ Rest(r)
  BY <1>1, Goes DEF Down, Inv, Typed, Places, StopPlaces, DeployPlaces, Commands, Rest
<1>4. req'[r].app = a /\ req'[r].at = "run" /\ req'[r].port = req[r].port /\ req'[r].snap = Nowhere
      /\ req'[r].mounts = req[r].mounts /\ ~ req'[r].reviving
  BY <1>1, <1>2, <1>3 DEF Inv, Typed, Requested, RequestType
<1>5. \A b \in Apps : conf'[b] = 0 /\ prog'[b] = 0 /\ ~ up'
  BY DEF Down, Nowhere
<1>6. Typed'
  <2>1. Nowhere \in Files
    BY DEF Nowhere, Files, Ports0
  <2> QED BY <1>3, <2>1 DEF Down, hostVars, Inv, Typed, Hosted
<1>7. a \notin doubt' => Works(r, a)'
  BY <1>1, <1>2, <1>4, <1>5 DEF Down, hostVars, Works, Begun, At, Own, Gone, Emptied, Started, Volumed
<1>8. ASSUME NEW b \in Apps, Completed(b) PROVE Kept(r, b)'
  BY <1>1, <1>4, <1>5, <1>8 DEF Completed, Kept, At
<1>9. InFlight(r)' /\ Renewing(r)'
  BY <1>4 DEF InFlight, Renewing, At
<1> QED BY <1>1, <1>2, <1>3, <1>4, <1>5, <1>6, <1>7, <1>8, <1>9, RenewStep DEF Down, hostVars, Own, Nowhere

LEMMA RunStep ==
  ASSUME Inv, NEW r \in Requests, Run(r)
  PROVE  Inv'
<1>1. InFlight(r) /\ At(r, "run") /\ Renewing(r) /\ req[r].snap = Nowhere /\ ~ req[r].reviving /\ req[r].port # 0
      /\ req[r].app \in req[r].mounts
  BY DEF Run, InFlight, At, Renewing, Inv, Typed, Requested, WellFormed, Commands, DeployPlaces
<1>2. PICK a \in Apps : a = req[r].app /\ (a \notin doubt => Works(r, a))
  BY <1>1, AppOf
<1>3. CASE NotRecreated(r)
  BY <1>1, <1>3, NotRecreatedStep
<1>4. CASE ~ NotRecreated(r)
  <2> DEFINE x == [req[r] EXCEPT !.mounts = {}, !.at = "snapshot"]
  <2>1. req' = [req EXCEPT ![r] = x] /\ up' = TRUE /\ ~ up /\ mounted' = req[r].mounts
        /\ UNCHANGED <<hostVars, conf, prog, on, out, made, doubt>>
    BY <1>4 DEF Run
  <2>2. req[r] \in RequestType /\ "snapshot" \in Places /\ {} \subseteq Apps
    BY DEF Inv, Typed, Requested, Places, DeployPlaces
  <2>3. x \in RequestType
    BY <2>2 DEF RequestType
  <2>4. x.app = a /\ x.at = "snapshot" /\ x.port = req[r].port /\ x.snap = Nowhere /\ ~ x.reviving
    BY <1>1, <1>2, <2>2 DEF RequestType
  <2> HIDE DEF x
  <2>5. WellFormed(x)
    BY <1>1, <1>2, <2>3, <2>4 DEF WellFormed, StopPlaces
  <2>6. Requested' /\ req'[r] = x /\ Rest(r)
    BY <2>1, <2>5, Moved DEF Inv, Typed, Rest
  <2>7. Typed' /\ conf' = Nowhere /\ prog' = Nowhere
    BY <2>1, <2>2, <2>6 DEF hostVars, Inv, Typed, Hosted, RequestType
  <2>8. a \notin doubt' => Works(r, a)'
    BY <1>1, <1>2, <2>1, <2>4, <2>6
       DEF hostVars, Works, Begun, At, Own, Gone, Emptied, Started, Volumed, HasVolumes
  <2>9. ASSUME NEW b \in Apps, Completed(b) PROVE Kept(r, b)'
    BY <1>1, <2>1, <2>4, <2>6, <2>7, <2>9 DEF Completed, Kept, At, HasVolumes, Nowhere
  <2>10. InFlight(r)' /\ Renewing(r)'
    BY <2>4, <2>6 DEF InFlight, Renewing, At
  <2> QED BY <1>1, <1>2, <2>1, <2>4, <2>6, <2>7, <2>8, <2>9, <2>10, RenewStep DEF Own, Nowhere
<1> QED BY <1>3, <1>4

LEMMA SnapshotStep ==
  ASSUME Inv, NEW r \in Requests, Snapshot(r)
  PROVE  Inv'
<1>1. InFlight(r) /\ At(r, "snapshot") /\ Renewing(r) /\ req[r].snap = Nowhere /\ ~ req[r].reviving /\ req[r].port # 0
  BY DEF Snapshot, InFlight, At, Renewing, Inv, Typed, Requested, WellFormed, Commands, DeployPlaces
<1>2. PICK a \in Apps : a = req[r].app /\ (a \notin doubt => Works(r, a))
  BY <1>1, AppOf
<1>3. CASE ~ up
  BY <1>1, <1>3, NotRecreatedStep DEF Snapshot
<1>4. CASE up
  <2> DEFINE p == IF registry = Nowhere THEN "clear" ELSE "restore"
             x == [req[r] EXCEPT !.snap = registry, !.at = p]
  <2>1. req' = [req EXCEPT ![r] = x] /\ UNCHANGED <<hostVars, boxVars, out, made, doubt>>
    BY <1>4 DEF Snapshot
  <2>2. req[r] \in RequestType /\ p \in Places /\ registry \in [Apps -> Ports0]
    BY DEF Inv, Typed, Hosted, Files, Requested, Places, DeployPlaces
  <2>3. x \in RequestType
    BY <2>2 DEF RequestType
  <2>4. x.app = a /\ x.at = p /\ x.port = req[r].port /\ x.snap = registry /\ ~ x.reviving
    BY <1>1, <1>2, <2>2 DEF RequestType
  <2>5. p = "restore" \/ (p = "clear" /\ registry = Nowhere)
    OBVIOUS
  <2> HIDE DEF x, p
  <2>6. WellFormed(x)
    BY <1>1, <1>2, <2>3, <2>4, <2>5 DEF WellFormed, StopPlaces
  <2>7. Requested' /\ req'[r] = x /\ Rest(r)
    BY <2>1, <2>6, Moved DEF Inv, Typed, Rest
  <2>8. Typed'
    BY <2>1, <2>7 DEF hostVars, boxVars, Inv, Typed, Hosted
  <2>9. a \notin doubt' => Works(r, a)'
    BY <1>1, <1>2, <2>1, <2>4, <2>5, <2>7
       DEF hostVars, boxVars, Works, Begun, At, Own, Gone, Emptied, Started, Volumed, HasVolumes
  <2>10. ASSUME NEW b \in Apps, Completed(b) PROVE Kept(r, b)' /\ p = "restore"
    <3>1. registry[b] = ports[b] /\ ports[b] # 0 /\ up /\ HasVolumes(b) /\ conf[b] = 0 /\ prog[b] = 0
      BY <1>1, <2>10 DEF Completed, Routed, Kept
    <3> QED BY <2>1, <2>4, <2>5, <2>7, <3>1 DEF hostVars, boxVars, Kept, At, HasVolumes, Loaded, Nowhere
  <2>11. InFlight(r)' /\ (p = "restore" => Renewing(r)')
    BY <2>4, <2>5, <2>7 DEF InFlight, Renewing, At
  <2>12. ASSUME NEW b \in Apps, Rests(b)
         PROVE /\ Own(b, conf'[b]) /\ Own(b, prog'[b])
               /\ Gone(b) => conf'[b] = 0 /\ prog'[b] = 0
               /\ Completed(b) => Kept(r, b)' /\ (~ Renewing(r)' => Up(b)')
    BY <2>1, <2>10, <2>11, <2>12 DEF Rests, Gone, boxVars
  <2> QED BY <1>1, <1>2, <2>1, <2>4, <2>7, <2>8, <2>9, <2>11, <2>12, RenewStep
<1> QED BY <1>3, <1>4

LEMMA RestoreStep ==
  ASSUME Inv, NEW r \in Requests, NEW c \in Apps, Restore(r, c)
  PROVE  Inv'
<1>1. InFlight(r) /\ At(r, "restore") /\ Renewing(r) /\ ~ req[r].reviving /\ req[r].port # 0 /\ req[r].snap[c] # 0
  BY DEF Restore, InFlight, At, Renewing, Inv, Typed, Requested, WellFormed, Commands, DeployPlaces
<1>2. PICK a \in Apps : a = req[r].app /\ (a \notin doubt => Works(r, a))
  BY <1>1, AppOf
<1> DEFINE x == [req[r] EXCEPT !.snap[c] = 0]
<1>3. req' = [req EXCEPT ![r] = x]
  BY DEF Restore
<1>4. req[r] \in RequestType /\ req[r].snap \in [Apps -> Ports0] /\ 0 \in Ports0
  BY DEF Inv, Typed, Requested, RequestType, Ports0
<1>5. x \in RequestType
  BY <1>4 DEF RequestType
<1>6. x.app = a /\ x.at = "restore" /\ x.port = req[r].port /\ ~ x.reviving /\ x.snap = [req[r].snap EXCEPT ![c] = 0]
  BY <1>1, <1>2, <1>4 DEF At, RequestType
<1> HIDE DEF x
<1>7. WellFormed(x)
  BY <1>1, <1>2, <1>5, <1>6 DEF WellFormed, StopPlaces
<1>8. Requested' /\ req'[r] = x /\ Rest(r)
  BY <1>3, <1>7, Moved DEF Inv, Typed, Rest
<1>9. conf' = conf \/ (up /\ conf' = [conf EXCEPT ![c] = req[r].snap[c]])
  BY DEF Restore
<1>10. Typed'
  <2>1. conf' \in Files
    BY <1>4, <1>9 DEF Inv, Typed, Hosted, Files
  <2>2. ~ up' => conf' = Nowhere
    BY <1>9 DEF Restore, Inv, Typed, Hosted
  <2> QED BY <1>8, <2>1, <2>2 DEF Restore, hostVars, Inv, Typed, Hosted
<1>11. doubt \subseteq doubt' /\ (c \notin doubt' => conf' = [conf EXCEPT ![c] = req[r].snap[c]])
  BY <1>9 DEF Restore
<1>12. \A b \in Apps \ doubt : req[r].snap[b] \in {0, registry[b]}
  BY DEF Inv, Snaps
<1>13. \A b \in Apps : req'[r].snap[b] = IF b = c THEN 0 ELSE req[r].snap[b]
  BY <1>4, <1>6, <1>8
<1>14. \A b \in Apps : b # c => conf'[b] = conf[b]
  BY <1>9 DEF Inv, Typed, Hosted, Files
<1>15. c \notin doubt' => conf'[c] = registry[c] /\ registry[c] # 0 /\ req[r].snap[c] = registry[c]
  BY <1>1, <1>11, <1>12 DEF Inv, Typed, Hosted, Files
<1>16. a \notin doubt' => Works(r, a)'
  <2> SUFFICES ASSUME a \notin doubt' PROVE Works(r, a)'
    OBVIOUS
  <2>1. Works(r, a) /\ Gone(a) /\ a # c
    BY <1>1, <1>2, <1>11, <1>15 DEF Works, Gone, Emptied, At
  <2> QED BY <1>1, <1>2, <1>6, <1>8, <1>14, <2>1
       DEF Restore, hostVars, Works, Begun, At, Own, Gone, Emptied, Started, Volumed, HasVolumes
<1>17. InFlight(r)' /\ Renewing(r)'
  BY <1>6, <1>8 DEF InFlight, Renewing, At
<1>18. ASSUME NEW b \in Apps \ doubt', Rests(b)
       PROVE /\ Own(b, conf'[b]) /\ Own(b, prog'[b])
             /\ Gone(b) => conf'[b] = 0 /\ prog'[b] = 0
             /\ Completed(b) => Kept(r, b)'
  <2>1. Own(b, conf'[b]) /\ Own(b, prog'[b])
    BY <1>14, <1>15, <1>18 DEF Restore, Rests, Own
  <2>2. Gone(b) => conf'[b] = 0 /\ prog'[b] = 0
    BY <1>14, <1>15 DEF Restore, Gone
  <2>3. ASSUME Completed(b) PROVE Kept(r, b)'
    <3>1. up /\ HasVolumes(b) /\ Loaded(b) /\ ports[b] \in {req[r].snap[b], conf[b]} /\ registry[b] = ports[b]
      BY <1>1, <2>3 DEF Completed, Kept, Routed
    <3>2. CASE b = c
      <4>1. conf'[b] = ports[b]
        BY <1>15, <3>1, <3>2
      <4>2. prog[b] = 0 \/ (prog[b] = ports[b] /\ b \in on)
        BY <1>18, <3>1 DEF Rests, Own, Loaded
      <4> QED BY <1>6, <1>8, <3>1, <4>1, <4>2 DEF Restore, hostVars, Kept, At, HasVolumes, Loaded
    <3>3. CASE b # c
      BY <1>6, <1>8, <1>13, <1>14, <3>1, <3>3 DEF Restore, hostVars, Kept, At, HasVolumes, Loaded
    <3> QED BY <3>2, <3>3
  <2> QED BY <2>1, <2>2, <2>3
<1> QED BY <1>1, <1>2, <1>6, <1>8, <1>10, <1>11, <1>12, <1>13, <1>16, <1>17, <1>18, RenewStep DEF Restore

LEMMA ReloadStep ==
  ASSUME Inv, NEW r \in Requests, Reload(r)
  PROVE  Inv'
<1>1. InFlight(r) /\ At(r, "restore") /\ Renewing(r) /\ req[r].snap = Nowhere /\ ~ req[r].reviving /\ req[r].port # 0
      /\ To(r, "clear")
  BY DEF Reload, InFlight, At, Renewing, Inv, Typed, Requested, WellFormed, Commands, DeployPlaces
<1>2. PICK a \in Apps : a = req[r].app /\ (a \notin doubt => Works(r, a))
  BY <1>1, AppOf
<1>3. Requested' /\ req'[r] = [req[r] EXCEPT !.at = "clear"] /\ Rest(r)
  BY <1>1, Goes DEF Inv, Typed, Places, StopPlaces, DeployPlaces, Commands, Rest
<1>4. req'[r].app = a /\ req'[r].at = "clear" /\ req'[r].port = req[r].port /\ req'[r].snap = Nowhere /\ ~ req'[r].reviving
  BY <1>1, <1>2, <1>3 DEF Inv, Typed, Requested, RequestType
<1>5. CASE Update(conf) /\ UNCHANGED doubt
  <2>1. \A b \in Apps : conf'[b] = conf[b] /\ prog'[b] = conf[b] /\ (b \in on' <=> conf[b] # 0 /\ (b \in on \/ conf[b] # prog[b]))
    BY <1>5 DEF Update
  <2>2. Typed'
    <3>1. ~ up => on' = {}
      BY <1>5 DEF Update, Inv, Typed, Hosted, Nowhere
    <3>2. on' \subseteq Apps
      BY <1>5 DEF Update
    <3> QED BY <1>3, <1>5, <3>1, <3>2 DEF Update, Reload, hostVars, Inv, Typed, Hosted
  <2>3. a \notin doubt' => Works(r, a)'
    BY <1>1, <1>2, <1>4, <1>5, <2>1
       DEF Reload, hostVars, Works, Begun, At, Own, Gone, Emptied, Started, Volumed, HasVolumes
  <2>4. ASSUME NEW b \in Apps, Completed(b) PROVE Kept(r, b)' /\ Up(b)'
    <3>1. ports[b] # 0 /\ up /\ HasVolumes(b) /\ Loaded(b) /\ conf[b] = ports[b]
      BY <1>1, <2>4 DEF Completed, Kept, Nowhere
    <3>2. Up(b)'
      BY <2>1, <3>1 DEF Reload, hostVars, Up, Served, HasVolumes, Loaded
    <3> QED BY <1>4, <3>2 DEF Kept, At
  <2>5. InFlight(r)'
    BY <1>4 DEF InFlight, At
  <2>6. ASSUME NEW b \in Apps, Rests(b)
        PROVE /\ Own(b, conf'[b]) /\ Own(b, prog'[b])
              /\ Gone(b) => conf'[b] = 0 /\ prog'[b] = 0
              /\ Completed(b) => Kept(r, b)' /\ (~ Renewing(r)' => Up(b)')
    BY <2>1, <2>4, <2>6 DEF Rests, Gone
  <2> QED BY <1>1, <1>2, <1>3, <1>4, <1>5, <2>2, <2>3, <2>5, <2>6, RenewStep DEF Reload, Nowhere
<1>6. CASE UNCHANGED <<conf, prog, on>> /\ doubt' = Apps
  <2>1. Typed' /\ Distinct'
    BY <1>3, <1>6 DEF Reload, hostVars, Inv, Typed, Hosted, Distinct
  <2> QED BY <1>6, <2>1, AllInDoubt
<1> QED BY <1>5, <1>6 DEF Reload

------------------------------------------------------------------------------
(* The container, the service.                                                 *)
LEMMA LoseStep == Inv /\ Lose => Inv'
<1> SUFFICES ASSUME Inv, Lose PROVE Inv'
  OBVIOUS
<1>1. Nowhere \in Files
  BY DEF Nowhere, Files, Ports0
<1>2. Requested'
  BY DEF Lose, Inv, Typed, Requested
<1>3. Typed' /\ Distinct'
  BY <1>1, <1>2 DEF Lose, hostVars, Inv, Typed, Hosted, Distinct
<1> QED BY <1>3, AllInDoubt DEF Lose

LEMMA RestartStep == Inv /\ Restart => Inv'
<1> SUFFICES ASSUME Inv, Restart PROVE Inv'
  OBVIOUS
<1>1. \A r \in Requests : req'[r] = Idle
  BY DEF Restart
<1>2. Requested'
  BY IdleWellFormed DEF Restart, Requested, WellFormed
<1>3. doubt' \subseteq Apps
  BY DEF Restart, Inv, Typed, Hosted, Requested, WellFormed, InFlight, At
<1>4. Typed' /\ Distinct'
  BY <1>2, <1>3 DEF Restart, hostVars, boxVars, Inv, Typed, Hosted, Distinct
<1>5. CASE \E r \in Requests : Renewing(r)
  BY <1>4, <1>5, AllInDoubt DEF Restart
<1>6. CASE ~ \E r \in Requests : Renewing(r)
  <2>1. \A r \in Requests : ~ InFlight(r)' /\ ~ Renewing(r)'
    BY <1>1 DEF Idle, InFlight, At, Renewing
  <2>2. Overlap' /\ \A r \in Requests : Working(r)'
    BY <2>1 DEF Overlap, Alone, Apart, Once, Working
  <2>3. Snaps'
    BY <1>1 DEF Snaps, Idle, Nowhere
  <2>4. doubt' = doubt \cup {req[r].app : r \in {q \in Requests : InFlight(q)}}
    BY <1>6 DEF Restart
  <2>5. ASSUME NEW b \in Apps PROVE Resting(b)'
    <3> SUFFICES ASSUME b \notin doubt' PROVE Rests(b)'
      BY DEF Resting
    <3>1. ~ Busy(b) /\ b \notin doubt
      BY <2>4 DEF Busy
    <3>2. Rests(b)
      BY <3>1 DEF Inv, Resting
    <3>3. \A r \in Requests : Kept(r, b)'
      BY <1>1 DEF Kept, At, Idle
    <3>4. Completed(b) => Completed(b)'
      BY <1>6, <3>3 DEF Restart, hostVars, boxVars, Completed, Routed, Up, Served, HasVolumes
    <3> QED BY <3>2, <3>4 DEF Restart, hostVars, boxVars, Rests, Own, Gone
  <2> QED BY <1>4, <2>2, <2>3, <2>5 DEF Inv
<1> QED BY <1>5, <1>6

LEMMA InitInv == Init => Inv
<1> SUFFICES ASSUME Init PROVE Inv
  OBVIOUS
<1>1. Nowhere \in Files /\ \A a \in Apps : Nowhere[a] = 0
  BY DEF Nowhere, Files, Ports0
<1>2. \A r \in Requests : req[r] = Idle
  BY DEF Init
<1>3. Requested
  BY IdleWellFormed DEF Init, Requested, WellFormed
<1>4. Typed /\ Distinct
  BY <1>1, <1>3 DEF Init, Typed, Hosted, Outcomes, Distinct
<1>5. \A r \in Requests : ~ InFlight(r) /\ ~ Renewing(r)
  BY <1>2 DEF Idle, InFlight, At, Renewing
<1>6. Overlap /\ \A r \in Requests : Working(r)
  BY <1>5 DEF Overlap, Alone, Apart, Once, Working
<1>7. Snaps
  <2>1. Idle.snap = Nowhere
    BY DEF Idle
  <2> QED BY <1>1, <1>2, <2>1 DEF Snaps
<1>8. \A a \in Apps : Resting(a)
  BY <1>1 DEF Init, Resting, Rests, Own
<1> QED BY <1>4, <1>6, <1>7, <1>8 DEF Inv

LEMMA StutterStep == Inv /\ UNCHANGED vars => Inv'
<1> SUFFICES ASSUME Inv, UNCHANGED vars PROVE Inv'
  OBVIOUS
<1> USE DEF vars, hostVars, boxVars, runVars
<1>1. Typed' /\ Distinct'
  BY DEF Inv, Typed, Hosted, Requested, Distinct
<1>2. \A r \in Requests : (InFlight(r)' <=> InFlight(r)) /\ (Renewing(r)' <=> Renewing(r)) /\ req'[r] = req[r]
  BY DEF InFlight, At, Renewing
<1>3. Overlap' /\ Snaps'
  BY DEF Inv, Overlap, Alone, Apart, Once, Snaps, InFlight, At, Renewing
<1>4. ASSUME NEW r \in Requests PROVE Working(r)'
  <2>1. Working(r)
    BY DEF Inv
  <2> QED BY <2>1 DEF Working, Works, InFlight, Own, Gone, Loaded, Served, HasVolumes, Begun, At
<1>5. ASSUME NEW a \in Apps PROVE Resting(a)'
  <2>1. Busy(a)' <=> Busy(a)
    BY <1>2 DEF Busy
  <2>2. ASSUME NEW r \in Requests, Kept(r, a) PROVE Kept(r, a)'
    BY <1>2, <2>2 DEF Kept, At, Up, Served, HasVolumes, Loaded
  <2>3. Completed(a) => Completed(a)'
    BY <1>2, <2>2 DEF Completed, Routed, Up, Served, HasVolumes
  <2>4. Rests(a) => Rests(a)'
    BY <2>3 DEF Rests, Own, Gone
  <2> QED BY <2>1, <2>4 DEF Inv, Resting
<1> QED BY <1>1, <1>3, <1>4, <1>5 DEF Inv

LEMMA NextInv == Inv /\ [Next]_vars => Inv'
<1> SUFFICES ASSUME Inv, [Next]_vars PROVE Inv'
  OBVIOUS
<1>1. ASSUME NEW r \in Requests, NEW op \in Ops, NEW a \in Apps, NEW p \in Prefs \cup {0}, Request(r, op, a, p)
      PROVE Inv'
  BY <1>1, RequestStep
<1>2. ASSUME NEW r \in Requests, FindDown(r) \/ Revive(r) PROVE Inv'
  BY <1>2, FindDownStep, ReviveStep
<1>3. ASSUME NEW r \in Requests, StopStep(r) PROVE Inv'
  BY <1>3, HaltStep, RemoveStep, IgnoredStep, UnregisterStep, UnrouteStep, ReleaseStep DEF StopStep
<1>4. ASSUME NEW r \in Requests, MountStep(r) PROVE Inv'
  BY <1>4, MountsStep, DownStep, RunStep, SnapshotStep, RestoreStep, ReloadStep DEF MountStep
<1>5. ASSUME NEW r \in Requests, DeployStep(r) PROVE Inv'
  BY <1>5, AllocateStep, FetchStep, ReallocateStep, ClearStep, WriteStep, StartUpStep, ForcedStep, RegisterStep,
     CheckStep, NginxStep, FailStep DEF DeployStep
<1> QED BY <1>1, <1>2, <1>3, <1>4, <1>5, LoseStep, RestartStep, StutterStep DEF Next

------------------------------------------------------------------------------
(* Types, whatever the ranges of ports and the faults: in particular, a        *)
(* deployment that has gone past the allocation of its port holds one.         *)
THEOREM DeployTypeCorrect == Spec => []DeployTypeOK
<1>1. Inv => DeployTypeOK
  BY TypedGivesType DEF Inv
<1> QED BY <1>1, InitInv, NextInv, PTL DEF Spec

(* No two apps are assigned one port, and an app that no request disturbs has  *)
(* only its own port configured, running or registered (port_allocator).       *)
THEOREM PortsCorrect == Spec => []PortsAreOwn
<1>1. Inv => PortsAreOwn
  BY DEF Inv, PortsAreOwn, Distinct, Working, Works, Settled, Resting, Rests
<1> QED BY <1>1, InitInv, NextInv, PTL DEF Spec

(* A stopped or undeployed app stays down whatever the deployments of the      *)
(* other apps do to the container (stop_app, the registry).                    *)
THEOREM StopCorrect == Spec => []StoppedStaysDown
<1>1. Inv => StoppedStaysDown
  BY DEF Inv, StoppedStaysDown, Settled, Resting, Rests, Gone
<1> QED BY <1>1, InitInv, NextInv, PTL DEF Spec

(* A completed deployment keeps running on its port, routed and with its       *)
(* volumes, across every recreation of the container for other apps.           *)
THEOREM DeployCorrect == Spec => []CompletedIsUp
<1>1. Inv => CompletedIsUp
  <2> SUFFICES ASSUME Inv, Stable, NEW a \in Apps, Settled(a), out[a] = "completed"
               PROVE  /\ ports[a] # 0 /\ registry[a] = ports[a] /\ live[a] = ports[a]
                      /\ conf[a] = ports[a] /\ prog[a] = ports[a] /\ a \in on
                      /\ a \in Dev => a \in mounted
    BY DEF CompletedIsUp
  <2>1. Completed(a)
    BY DEF Inv, Resting, Rests, Settled
  <2> QED BY <2>1 DEF Stable, Completed, Routed, Up, Served, HasVolumes
<1> QED BY <1>1, InitInv, NextInv, PTL DEF Spec
==============================================================================
