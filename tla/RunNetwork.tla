------------------------------ MODULE RunNetwork ------------------------------
(***************************************************************************)
(* The network service that the runs of one environment share: the host    *)
(* records it in state.json, the guest has a TUN device, a proxy process   *)
(* and a DNS stub, and the gateway of the daemon carries the traffic       *)
(* (manager/run_network.go, manager/run_apply.go, network/network.go,      *)
(* network/gateway.go, backend/lima/lima.go).                              *)
(*                                                                         *)
(* A run resolves its plan, stages a gateway route, which takes the        *)
(* environment's transition lock until the service is started, picks an    *)
(* action from what state.json says, and drives the guest scripts.  A      *)
(* script may fail or be cut off after any of its steps.                   *)
(***************************************************************************)
EXTENDS Integers, FiniteSets

CONSTANTS
  NetRuns,          \* the runs
  MaxNetFaults,     \* script steps, probes and file writes that fail
  MaxNetCrashes,    \* crashes of the daemon, and losses of the guest
  MaxNetStarts,     \* runs started
  NetResolvers,     \* the resolvers a profile may name
  MaxRotations      \* rotations of the proxy secret

\* 0 stands for no run and for no resolver.
ASSUME NetNamesAssumption == 0 \notin NetRuns /\ 0 \notin NetResolvers

VARIABLES
  service,    \* state.json: [status, plan, gateway, boot]
  netGuest,   \* the guest: device, route, proxy, resolver, saved files
  netGateway, \* [id, route, lock]
  runner,     \* run -> [at, plan]
  setup,      \* the start of the service in progress, by the holder of the lock
  proxySecret,\* the value the keychain holds
  netBudget   \* what the bounds still allow

netVars == <<service, netGuest, netGateway, runner, setup, proxySecret, netBudget>>

\* A plan is direct, or a resolver and the value of the proxy secret.
direct == [mode |-> "direct", resolver |-> 0, secret |-> 0]
tun(resolver, secret) == [mode |-> "tun2socks", resolver |-> resolver, secret |-> secret]

noService == [status |-> "none", plan |-> direct, gateway |-> 0, boot |-> 0]

\* The guest: the TUN device and the proxy behind it, the default route, the
\* resolver the DNS stub asks (0: no stub), what /etc/resolv.conf names, and
\* the rules that block other resolvers.  The service directory it shares
\* with the host has the pid files and the copy of the resolver it replaced.
\* The direct route has a larger metric and is back when the device is gone.
bootedGuest(n, resolv) ==
  [boot |-> n, device |-> FALSE, proxy |-> FALSE, route |-> "direct", resolv |-> resolv,
   stub |-> 0, blocked |-> FALSE, pids |-> FALSE, saved |-> "none"]

\* ClearRuntimeServices removes everything in that directory.
cleared(g) == [g EXCEPT !.pids = FALSE, !.saved = "none"]

noSetup == [run |-> 0, at |-> "none", plan |-> direct, route |-> direct, action |-> "none",
            previous |-> noService, discards |-> FALSE, activated |-> FALSE, keeps |-> FALSE,
            before |-> direct, next |-> "none", attempts |-> 0]

RunNetInit ==
  /\ service = noService
  /\ netGuest = bootedGuest(1, "original")
  /\ netGateway = [id |-> 0, route |-> direct, lock |-> 0, ids |-> 0]
  /\ runner = [r \in NetRuns |-> [at |-> "out", plan |-> direct]]
  /\ setup = noSetup
  /\ proxySecret = 1
  /\ netBudget = [faults |-> MaxNetFaults, crashes |-> MaxNetCrashes,
                  starts |-> MaxNetStarts, rotations |-> MaxRotations]

glitch == netBudget.faults > 0 /\ netBudget' = [netBudget EXCEPT !.faults = @ - 1]
steady == UNCHANGED netBudget
setupAt(step) == setup' = [setup EXCEPT !.at = step]

-----------------------------------------------------------------------------
\* Prepare of the network policy: the secret is resolved before the lock.
ResolvePlan(r) ==
  /\ runner[r].at = "out" /\ netBudget.starts > 0
  /\ \E plan \in {direct} \cup {tun(d, proxySecret) : d \in NetResolvers} :
       runner' = [runner EXCEPT ![r] = [at |-> "waiting", plan |-> plan]]
  /\ netBudget' = [netBudget EXCEPT !.starts = @ - 1]
  /\ UNCHANGED <<service, netGuest, netGateway, setup, proxySecret>>

\* stageRoute: the entry is created when it is missing, then the lock is
\* taken; the plan is prepared again, with the secret as it is by then, but
\* the route that was built keeps the value resolved first.
StageRunRoute(r) ==
  /\ runner[r].at = "waiting" /\ netGateway.lock = 0
  /\ LET new == netGateway.id = 0
         plan == IF runner[r].plan.mode = "direct" THEN direct
                 ELSE tun(runner[r].plan.resolver, proxySecret)
         before == IF new THEN direct ELSE netGateway.route
     IN  /\ netGateway' = [id |-> IF new THEN netGateway.ids + 1 ELSE netGateway.id,
                           ids |-> IF new THEN netGateway.ids + 1 ELSE netGateway.ids,
                           route |-> before, lock |-> r]
         /\ setup' = [noSetup EXCEPT !.run = r, !.at = "plan", !.plan = plan,
                                     !.route = runner[r].plan, !.before = before]
         /\ runner' = [runner EXCEPT ![r] = [at |-> "preparing", plan |-> plan]]
  /\ steady /\ UNCHANGED <<service, netGuest, proxySecret>>

\* lockTransition gives up after the bounded wait.
StageTimesOut(r) ==
  /\ runner[r].at = "waiting" /\ netGateway.lock # 0
  /\ runner' = [runner EXCEPT ![r].at = "out"]
  /\ steady /\ UNCHANGED <<service, netGuest, netGateway, setup, proxySecret>>

\* requireExclusiveNetworkPostureTransition looks for other owner records.
exclusive(r) == \A s \in NetRuns \ {r} : runner[s].at = "out"

\* prepareEnvironmentNetworkService: the first case that applies.
serviceAction(state, plan, gateway) ==
  IF state.status = "none" THEN "start"
  ELSE IF state.plan = plan /\ state.gateway = gateway THEN "reuse"
  ELSE IF state.plan = direct /\ plan = direct THEN "switch-gateway"
  ELSE IF /\ state.plan.mode = "tun2socks" /\ plan.mode = "tun2socks" /\ state.gateway = gateway
          /\ state.plan.resolver = plan.resolver THEN "switch-gateway"
  ELSE IF state.plan = direct /\ plan.mode = "tun2socks" THEN "enable-proxy"
  ELSE IF state.plan.mode = "tun2socks" /\ plan = direct THEN "disable-proxy"
  ELSE IF state.gateway = gateway THEN "switch-dns" ELSE "restart-proxy"

ChooseAction ==
  /\ setup.at = "plan"
  /\ LET action == serviceAction(service, setup.plan, netGateway.id)
         starts == action \notin {"reuse", "switch-gateway"}
         unready == service.status \notin {"none", "ready"}
         shared == action \in {"enable-proxy", "disable-proxy"} /\ ~exclusive(setup.run)
         fails(discards) == setup' = [setup EXCEPT !.at = "failed", !.discards = discards]
         fresh == [status |-> "starting", plan |-> setup.plan, gateway |-> netGateway.id, boot |-> 0]
     IN  \/ unready /\ fails(FALSE) /\ steady /\ UNCHANGED service
         \/ ~unready /\ shared /\ fails(TRUE) /\ steady /\ UNCHANGED service
         \/ ~unready /\ ~shared /\ glitch /\ fails(starts) /\ UNCHANGED service
         \/ /\ ~unready /\ ~shared /\ steady
            /\ setup' = [setup EXCEPT !.at = "start", !.action = action, !.previous = service,
                                      !.discards = starts]
            /\ service' = IF action = "start" THEN fresh ELSE service
  /\ UNCHANGED <<netGuest, netGateway, runner, proxySecret>>

-----------------------------------------------------------------------------
\* StartRunNetworkService: only a reuse survives a new boot of the guest; a
\* transition is recorded before the guest is touched.
BeginService ==
  /\ setup.at = "start"
  /\ LET moved == setup.previous.status # "none" /\ setup.previous.boot # netGuest.boot
         script == CASE setup.action \in {"reuse", "switch-gateway"} -> "verify"
                     [] setup.action \in {"start", "enable-proxy"} /\ setup.plan # direct -> "activate"
                     [] setup.action \in {"start", "enable-proxy"} /\ setup.plan = direct -> "verify"
                     [] setup.action = "switch-dns" -> "reconfigure"
                     [] OTHER -> "activate"
     IN  \/ moved /\ setup.action # "reuse" /\ setupAt("failed") /\ steady /\ UNCHANGED service
         \/ /\ ~(moved /\ setup.action # "reuse") /\ steady /\ setupAt(script)
            /\ service' = IF setup.previous.status = "none" \/ setup.action = "reuse" THEN service
                          ELSE [status |-> "switching", plan |-> setup.plan,
                                gateway |-> netGateway.id, boot |-> netGuest.boot]
  /\ UNCHANGED <<netGuest, netGateway, runner, proxySecret>>

\* What VerifyEnvironmentNetwork and VerifyDirectEnvironmentNetwork look at.
guestMediated == /\ netGuest.device /\ netGuest.route = "tun" /\ netGuest.proxy
                 /\ netGuest.stub # 0 /\ netGuest.resolv = "stub" /\ netGuest.pids
guestDirect == /\ ~netGuest.device /\ netGuest.route = "direct"
               /\ netGuest.pids => netGuest.stub = 0

afterVerify ==
  CASE setup.action \in {"switch-gateway", "start", "enable-proxy", "switch-dns"} -> "activate-last"
    [] OTHER -> "finish"

\* Mutant of VerifyService: the service is reused as recorded.
ReuseUnverified ==
  setup.at = "verify" /\ setupAt(afterVerify) /\ steady
  /\ UNCHANGED <<service, netGuest, netGateway, runner, proxySecret>>

\* verifyReusedEnvironmentNetwork asks three times before the service is
\* established again from scratch, with the plan prepared once more.
VerifyService ==
  /\ setup.at = "verify"
  /\ LET good == IF setup.plan = direct THEN guestDirect ELSE guestMediated
         heals == setup.action = "reuse" /\ setup.plan # direct
         bad == IF heals /\ setup.attempts = 2
                THEN setup' = [setup EXCEPT !.at = "activate", !.plan.secret = proxySecret]
                ELSE IF setup.action \in {"reuse", "switch-gateway"} /\ setup.plan # direct
                        /\ setup.attempts < 2
                     THEN setup' = [setup EXCEPT !.attempts = @ + 1] ELSE setupAt("broken")
     IN  \/ good /\ steady /\ setupAt(afterVerify)
         \/ ~good /\ steady /\ bad
         \/ good /\ glitch /\ bad
  /\ UNCHANGED <<service, netGuest, netGateway, runner, proxySecret>>

\* activateGateway, before the guest is changed or after it was verified.
ActivateRoute ==
  /\ setup.at \in {"activate", "activate-last"}
  /\ netGateway' = [netGateway EXCEPT !.route = setup.route]
  /\ setup' = [setup EXCEPT
       !.activated = TRUE,
       !.keeps = setup.action = "disable-proxy",
       !.at = IF setup.at = "activate-last" THEN "finish"
              ELSE IF setup.action \in {"disable-proxy", "restart-proxy"} THEN "stop"
              ELSE "boot-heal"]
  /\ steady /\ UNCHANGED <<service, netGuest, runner, proxySecret>>

-----------------------------------------------------------------------------
\* writeDNSMediationCleanup: the stub is found by its pid file, the resolver
\* comes back from the copy, and the blocks are lifted for the resolvers that
\* were listed with it.
dnsCleaned(g) ==
  [g EXCEPT !.stub = IF g.pids THEN 0 ELSE @,
            !.resolv = IF g.saved = "none" THEN @ ELSE g.saved,
            !.blocked = IF g.saved = "original" THEN FALSE ELSE @]

\* The rest of a cleanup: the proxy, the direct route, the device.
deviceCleaned(g) == [g EXCEPT !.device = FALSE, !.route = "direct", !.proxy = FALSE]

\* BootstrapScript: a device that is there already is reconciled first.
HealGuest ==
  /\ setup.at = "boot-heal"
  /\ IF netGuest.device THEN netGuest' = dnsCleaned(netGuest) /\ setupAt("boot-heal-device")
                        ELSE UNCHANGED netGuest /\ setupAt("boot-device")
  /\ steady /\ UNCHANGED <<service, netGateway, runner, proxySecret>>

HealDevice ==
  /\ setup.at = "boot-heal-device"
  /\ netGuest' = deviceCleaned(netGuest) /\ setupAt("boot-device")
  /\ steady /\ UNCHANGED <<service, netGateway, runner, proxySecret>>

\* The device is made, the proxy is started and waited for, and the default
\* route is moved; a failure leaves what was made.
CreateDevice ==
  /\ setup.at = "boot-device"
  /\ LET up == [netGuest EXCEPT !.device = TRUE]
     IN  \/ /\ steady /\ setupAt("boot-route")
            /\ netGuest' = [up EXCEPT !.proxy = TRUE]
         \/ glitch /\ setupAt("broken") /\ netGuest' \in {netGuest, up, [up EXCEPT !.proxy = TRUE]}
  /\ UNCHANGED <<service, netGateway, runner, proxySecret>>

RouteThroughDevice ==
  /\ setup.at = "boot-route"
  /\ \/ netGuest' = [netGuest EXCEPT !.route = "tun"] /\ steady /\ setupAt("boot-dns")
     \/ glitch /\ setupAt("broken") /\ UNCHANGED netGuest
  /\ UNCHANGED <<service, netGateway, runner, proxySecret>>

\* writeDNSMediationSetup: a stub that still has the address keeps the new one
\* from starting; then resolv.conf is copied and replaced, and the other
\* resolvers are blocked.
MediateDns ==
  /\ setup.at = "boot-dns"
  /\ LET stubbed == [netGuest EXCEPT !.stub = setup.plan.resolver, !.pids = TRUE]
         pointed == [stubbed EXCEPT !.saved = netGuest.resolv, !.resolv = "stub"]
     IN  \/ netGuest.stub # 0 /\ steady /\ setupAt("broken") /\ UNCHANGED netGuest
         \/ /\ netGuest.stub = 0 /\ steady /\ setupAt("finish")
            /\ netGuest' = [pointed EXCEPT !.blocked = TRUE]
         \/ /\ netGuest.stub = 0 /\ glitch /\ setupAt("broken")
            /\ netGuest' \in {netGuest, stubbed, pointed}
  /\ UNCHANGED <<service, netGateway, runner, proxySecret>>

\* StopEnvironmentNetwork runs CleanupScript, every step of which is tried; a
\* command that is cut off may have done none, some or all of them.
StopService ==
  /\ setup.at = "stop"
  /\ LET clean == deviceCleaned(dnsCleaned(netGuest))
     IN  \/ /\ steady /\ netGuest' = clean
            /\ setupAt(IF setup.action = "disable-proxy" THEN "verify-direct" ELSE "boot-heal")
         \/ glitch /\ setupAt("broken") /\ netGuest' \in {netGuest, dnsCleaned(netGuest), clean}
  /\ UNCHANGED <<service, netGateway, runner, proxySecret>>

VerifyDisabled ==
  /\ setup.at = "verify-direct"
  /\ \/ guestDirect /\ steady /\ setupAt("finish")
     \/ guestDirect /\ glitch /\ setupAt("broken")
     \/ ~guestDirect /\ steady /\ setupAt("broken")
  /\ UNCHANGED <<service, netGuest, netGateway, runner, proxySecret>>

\* ReconfigureEnvironmentNetworkDNS: the old stub is stopped first; when the
\* new one does not start the old resolver is tried again, and a second
\* command proves that it runs.
ReconfigureDns ==
  /\ setup.at = "reconfigure"
  /\ LET asks(resolver) == netGuest' = [netGuest EXCEPT !.stub = resolver]
     IN  \/ netGuest.pids /\ steady /\ asks(setup.plan.resolver) /\ setupAt("verify")
         \/ ~netGuest.pids /\ steady /\ UNCHANGED netGuest /\ setupAt("broken")
         \/ netGuest.pids /\ glitch /\ asks(0) /\ setupAt("broken")
         \/ netGuest.pids /\ glitch /\ asks(setup.previous.plan.resolver) /\ setupAt("restored")
  /\ UNCHANGED <<service, netGateway, runner, proxySecret>>

-----------------------------------------------------------------------------
\* The run is over: the lock is free, a route that was not committed is
\* rolled back.
release(r, route) == /\ netGateway' = [netGateway EXCEPT !.lock = 0, !.route = route]
                     /\ setup' = noSetup

\* The service is written as ready; a healthy reuse drops its staged route.
FinishService ==
  /\ setup.at = "finish"
  /\ \/ /\ steady
        /\ service' = [status |-> "ready", plan |-> setup.plan, gateway |-> netGateway.id,
                       boot |-> netGuest.boot]
        /\ runner' = [runner EXCEPT ![setup.run] = [at |-> "running", plan |-> setup.plan]]
        /\ release(setup.run, netGateway.route)
     \/ glitch /\ setupAt("failed") /\ UNCHANGED <<service, runner, netGateway>>
  /\ UNCHANGED <<netGuest, proxySecret>>

\* The run ends with an error: what state.json says, then the cleanups of
\* run_apply, which discard a service that was to be started.
FailService ==
  /\ setup.at \in {"failed", "broken", "restored"}
  /\ LET proved == setup.at = "restored" \/ setup.action = "switch-gateway"
         written == IF setup.at = "failed" THEN service
                    ELSE IF proved THEN setup.previous
                    ELSE [status |-> "failed", plan |-> setup.plan,
                          gateway |-> netGateway.id, boot |-> netGuest.boot]
         kept == setup.keeps /\ setup.activated
     IN  /\ service' = IF setup.discards THEN noService ELSE written
         /\ netGuest' = IF setup.discards THEN cleared(netGuest) ELSE netGuest
         /\ release(setup.run, IF kept THEN netGateway.route ELSE setup.before)
  /\ runner' = [runner EXCEPT ![setup.run].at = "out"]
  /\ steady /\ UNCHANGED proxySecret

EndRun(r) ==
  /\ runner[r].at = "running"
  /\ runner' = [runner EXCEPT ![r] = [at |-> "out", plan |-> direct]]
  /\ steady /\ UNCHANGED <<service, netGuest, netGateway, setup, proxySecret>>

-----------------------------------------------------------------------------
\* A rotation holds the lock of a gateway that uses the secret, and moves its
\* route; state.json keeps the fingerprint of the old value.
RotateProxySecret ==
  /\ netBudget.rotations > 0
  /\ LET live == netGateway.route.mode = "tun2socks"
     IN  /\ live => netGateway.lock = 0
         /\ netGateway' = IF live THEN [netGateway EXCEPT !.route.secret = proxySecret + 1]
                          ELSE netGateway
  /\ proxySecret' = proxySecret + 1
  /\ netBudget' = [netBudget EXCEPT !.rotations = @ - 1]
  /\ UNCHANGED <<service, netGuest, runner, setup>>

\* Stopping the environment needs that nobody uses it; the services and the
\* gateway are cleared, and the guest boots anew.  /etc/resolv.conf is a file
\* of the guest: whether the boot writes it again is up to the image.
StopGuest ==
  /\ netBudget.crashes > 0 /\ \A r \in NetRuns : runner[r].at = "out"
  /\ service' = noService
  /\ \E resolv \in {netGuest.resolv, "original"} : netGuest' = bootedGuest(netGuest.boot + 1, resolv)
  /\ netGateway' = [netGateway EXCEPT !.id = 0, !.route = direct]
  /\ netBudget' = [netBudget EXCEPT !.crashes = @ - 1]
  /\ UNCHANGED <<runner, setup, proxySecret>>

\* The guest goes down by itself: the host does not know, and clears nothing.
GuestReboots ==
  /\ netBudget.crashes > 0 /\ setup = noSetup
  /\ \E resolv \in {netGuest.resolv, "original"} :
       netGuest' = [bootedGuest(netGuest.boot + 1, resolv) EXCEPT !.pids = netGuest.pids,
                                                                  !.saved = netGuest.saved]
  /\ runner' = [r \in NetRuns |-> IF runner[r].at = "running" THEN [at |-> "out", plan |-> direct]
                                  ELSE runner[r]]
  /\ netBudget' = [netBudget EXCEPT !.crashes = @ - 1]
  /\ UNCHANGED <<service, netGateway, setup, proxySecret>>

\* The daemon dies with its gateways and its runs; the guest and state.json
\* stay as they are.
DaemonCrashes ==
  /\ netBudget.crashes > 0
  /\ netGateway' = [netGateway EXCEPT !.id = 0, !.route = direct, !.lock = 0]
  /\ runner' = [r \in NetRuns |-> [at |-> "out", plan |-> direct]]
  /\ setup' = noSetup
  /\ netBudget' = [netBudget EXCEPT !.crashes = @ - 1]
  /\ UNCHANGED <<service, netGuest, proxySecret>>

RunNetNext ==
  \/ \E r \in NetRuns : ResolvePlan(r) \/ StageRunRoute(r) \/ StageTimesOut(r) \/ EndRun(r)
  \/ ChooseAction \/ BeginService \/ VerifyService \/ ActivateRoute
  \/ HealGuest \/ HealDevice \/ CreateDevice \/ RouteThroughDevice \/ MediateDns
  \/ StopService \/ VerifyDisabled \/ ReconfigureDns
  \/ FinishService \/ FailService
  \/ RotateProxySecret \/ StopGuest \/ GuestReboots \/ DaemonCrashes

RunNetSpec == RunNetInit /\ [][RunNetNext]_netVars

-----------------------------------------------------------------------------
\* A run that starts has the network of its plan.  With the proxy: device,
\* default route, proxy and a stub on the reviewed resolver in the guest, and
\* a gateway that is not direct, whatever earlier runs left behind, however
\* often the service was rebuilt, rebooted or half cleaned.  Direct: no
\* device and no route through one.
RunStartsMediated ==
  [][\A r \in NetRuns :
       runner[r].at # "running" /\ runner'[r].at = "running" =>
         IF runner'[r].plan = direct THEN ~netGuest.device /\ netGuest.route = "direct"
         ELSE /\ netGuest.device /\ netGuest.route = "tun" /\ netGuest.proxy
              /\ netGuest.stub = runner'[r].plan.resolver /\ netGuest.resolv = "stub"
              /\ netGateway'.route.mode = "tun2socks"]_netVars

\* "VM-global posture is never changed underneath an active sibling target":
\* while a run with the proxy is running the guest routes through the device,
\* as long as no probe fails and nobody crashes.
PostureIsStable ==
  \A r \in NetRuns :
    runner[r].at = "running" /\ runner[r].plan # direct => netGuest.route = "tun"

====
