------------------------------- MODULE Ladder -------------------------------
(***************************************************************************)
(* One run of the diagnostic ladder: Engine.Diagnose of                    *)
(* internal/connectivity/engine.go, rung by rung, against a network whose  *)
(* state is chosen at the start, and the pure function from its evidence   *)
(* to the verdict: Classify of classify.go.                                *)
(*                                                                         *)
(* Probes run under the task's context.  When MayExpire holds, its         *)
(* deadline may pass between two probes, or during one: that probe then    *)
(* fails whatever its target would have answered, every later one fails at *)
(* once, and the two loops over targets stop at their ctx.Err() check.     *)
(***************************************************************************)
EXTENDS Naturals

CONSTANTS Literals,    \* number of connectivity.ip_literals
          Endpoints,   \* number of connectivity.https_targets
          MayExpire    \* whether the deadline can pass during the ladder

VARIABLES
    world,     \* the network and the host, as they really are
    expired,   \* the context's deadline has passed
    rung,      \* the rung of the ladder to climb next
    ev,        \* Diagnosis.Evidence
    verdict    \* Diagnosis.Classification

vars == <<world, expired, rung, ev, verdict>>

-----------------------------------------------------------------------------
(***************************************************************************)
(* Classify.  Evidence keeps the fields that it reads (the loopback result *)
(* is not one of them); the counts of servers are read only through "> 0". *)
(***************************************************************************)

\* Evidence that a ladder starts from: nothing is known to work.
NoEvidence ==
    [up         |-> FALSE, addr |-> FALSE,
     wireless   |-> FALSE, associated |-> FALSE, weak |-> FALSE,
     route      |-> FALSE, gateway |-> FALSE,
     dnsTested  |-> FALSE, resolves |-> FALSE, fallback |-> FALSE,
     litTested  |-> 0, litReached |-> 0,
     httpsTested |-> 0, httpsReached |-> 0, captive |-> FALSE]

Evidences ==
    [up         : BOOLEAN, addr : BOOLEAN,
     wireless   : BOOLEAN, associated : BOOLEAN, weak : BOOLEAN,
     route      : BOOLEAN, gateway : BOOLEAN,
     dnsTested  : BOOLEAN, resolves : BOOLEAN, fallback : BOOLEAN,
     litTested  : Nat, litReached : Nat,
     httpsTested : Nat, httpsReached : Nat, captive : BOOLEAN]

ExternalIPReachable(e) == e.litReached > 0
HTTPSReachableAny(e)   == e.httpsReached > 0

\* Layer 2, and a radio that is up but not associated.
LocalBroken(e) ==
    \/ ~e.up \/ ~e.addr
    \/ e.wireless /\ ~e.associated /\ ~e.gateway

\* Layer 3: a silent gateway is a fault only if nothing beyond it works either.
GatewayBroken(e) == ~e.gateway /\ ~ExternalIPReachable(e) /\ ~HTTPSReachableAny(e)

AllLiteralsReached(e) == e.litTested = 0 \/ e.litReached = e.litTested

AboveGatewayWorks(e) == HTTPSReachableAny(e) /\ e.resolves /\ AllLiteralsReached(e)

NothingResolves(e) == ~e.resolves /\ e.dnsTested

\* Some external literal answers: DNS is the more specific explanation, then an
\* interception, then a partial loss.
ClassifyPartial(e) ==
    IF NothingResolves(e) THEN "DNS_FAILURE"
    ELSE IF e.litTested > 0 /\ e.litReached < e.litTested THEN "PARTIAL_CONNECTIVITY"
    ELSE IF e.captive THEN "CAPTIVE_PORTAL"
    ELSE IF e.httpsTested > 0 /\ e.httpsReached < e.httpsTested THEN "PARTIAL_CONNECTIVITY"
    ELSE "HEALTHY"

\* No external literal answers.
ClassifyLoss(e) ==
    IF ~e.gateway THEN "INTERNET_OUTAGE"
    ELSE IF e.weak THEN "WIFI_DEGRADATION"
    ELSE IF ~e.resolves /\ e.fallback THEN "DNS_FAILURE"
    ELSE "ISP_OUTAGE"

ClassifyEvidence(e) ==
    IF LocalBroken(e) THEN "LOCAL_INTERFACE_FAILURE"
    ELSE IF ~e.route THEN "ROUTING_FAILURE"
    ELSE IF GatewayBroken(e) THEN "GATEWAY_FAILURE"
    ELSE IF AboveGatewayWorks(e) THEN "HEALTHY"
    ELSE IF ExternalIPReachable(e) THEN ClassifyPartial(e)
    ELSE ClassifyLoss(e)

LadderClasses ==
    {"HEALTHY", "INTERNET_OUTAGE", "ISP_OUTAGE", "DNS_FAILURE", "GATEWAY_FAILURE",
     "LOCAL_INTERFACE_FAILURE", "WIFI_DEGRADATION", "PARTIAL_CONNECTIVITY",
     "ROUTING_FAILURE", "CAPTIVE_PORTAL"}

-----------------------------------------------------------------------------
NoVerdict == "none"
Radios == {"wired", "strong", "weak", "unassociated"}
Hops == {"no route", "next hop", "point-to-point"}

Worlds ==
    [present  : BOOLEAN,                       \* activeInterface found one
     up : BOOLEAN, addr : BOOLEAN, radio : Radios,
     hop : Hops, gateway : BOOLEAN,            \* the next hop answers a probe
     resolver : BOOLEAN, fallback : BOOLEAN,   \* some configured / public resolver answers
     literal : [1..Literals -> BOOLEAN],       \* answers or refuses: both prove the path
     https : [1..Endpoints -> {"ok", "intercepted", "dead"}]]

\* Without a default route only an interface with an address is considered; an
\* interface that was not found has no properties.
PossibleWorld(w) ==
    /\ w.hop = "no route" /\ w.present => w.addr
    /\ ~w.present => ~w.up /\ ~w.addr /\ w.radio = "wired"
    /\ w.hop # "next hop" => ~w.gateway

TypeOK ==
    /\ world \in Worlds
    /\ expired \in BOOLEAN /\ (expired => MayExpire)
    /\ rung \in {"local", "gateway", "dns", "isp", "internet", "classify", "done"}
    /\ ev \in Evidences
    /\ verdict \in LadderClasses \cup {NoVerdict}
    /\ ev.litReached <= ev.litTested /\ ev.litTested <= Literals
    /\ ev.httpsReached <= ev.httpsTested /\ ev.httpsTested <= Endpoints

Init ==
    /\ world \in Worlds
    /\ PossibleWorld(world)
    /\ expired = FALSE
    /\ rung = "local"
    /\ ev = NoEvidence
    /\ verdict = NoVerdict

-----------------------------------------------------------------------------
\* The deadline may pass during this step.
MayTimeOut == expired' \in IF MayExpire /\ ~expired THEN BOOLEAN ELSE {expired}

\* Layers 1 and 2: active interface and radio.  The loopback dial is left out.
Local ==
    /\ rung = "local"
    /\ MayTimeOut
    /\ ev' = [ev EXCEPT !.up         = world.up,
                        !.addr       = world.addr,
                        !.wireless   = world.radio # "wired",
                        !.associated = world.radio \in {"strong", "weak"},
                        !.weak       = world.radio = "weak"]
    /\ rung' = "gateway"
    /\ UNCHANGED <<world, verdict>>

\* Layer 3: a route without a next hop counts as a gateway that answers.
Gateway ==
    /\ rung = "gateway"
    /\ MayTimeOut
    /\ ev' = [ev EXCEPT !.route   = world.hop # "no route",
                        !.gateway = \/ world.hop = "point-to-point"
                                    \/ world.gateway /\ ~expired']
    /\ rung' = "dns"
    /\ UNCHANGED <<world, verdict>>

\* Layer 4: the configured resolvers, then the public ones if none answered.  With
\* an expired context the loop over servers may not have asked any.
DNS ==
    /\ rung = "dns"
    /\ MayTimeOut
    /\ \E tested \in {TRUE, ~expired'}, resolves \in {world.resolver /\ ~expired'} :
         ev' = [ev EXCEPT !.dnsTested = tested,
                          !.resolves  = resolves,
                          !.fallback  = ~resolves /\ world.fallback /\ ~expired']
    /\ rung' = "isp"
    /\ UNCHANGED <<world, verdict>>

\* Layer 5: the next literal in order.
Literal ==
    /\ rung = "isp"
    /\ ~expired
    /\ ev.litTested < Literals
    /\ MayTimeOut
    /\ LET n == ev.litTested + 1
       IN  ev' = [ev EXCEPT !.litTested = n,
                            !.litReached = IF world.literal[n] /\ ~expired' THEN @ + 1 ELSE @]
    /\ UNCHANGED <<world, rung, verdict>>

\* The loop is over, or stops because the deadline has passed.
LiteralsDone ==
    /\ rung = "isp"
    /\ \/ ev.litTested = Literals /\ UNCHANGED expired
       \/ /\ ev.litTested < Literals
          /\ expired \/ MayExpire
          /\ expired' = TRUE
    /\ rung' = "internet"
    /\ UNCHANGED <<world, ev, verdict>>

\* Layer 6: the next endpoint in order.
Endpoint ==
    /\ rung = "internet"
    /\ ~expired
    /\ ev.httpsTested < Endpoints
    /\ MayTimeOut
    /\ LET n == ev.httpsTested + 1
       IN  ev' = [ev EXCEPT !.httpsTested = n,
                            !.httpsReached =
                               IF world.https[n] = "ok" /\ ~expired' THEN @ + 1 ELSE @]
    /\ UNCHANGED <<world, rung, verdict>>

\* Interceptions seen among the endpoints tested; the last of them may have been
\* cut off by the deadline instead.
Intercepted ==
    {n \in 1..ev.httpsTested : world.https[n] = "intercepted"}

\* Mutant: no session completing is enough to suspect a portal.
CaptivePortal_NoInterception(seen) ==
    /\ ev.httpsTested > 0 /\ ev.httpsReached = 0
    /\ ExternalIPReachable(ev)

CaptivePortal(seen) ==
    /\ ev.httpsTested > 0 /\ ev.httpsReached = 0
    /\ seen # {}
    /\ ExternalIPReachable(ev)

\* The loop is over and the portal is judged; or the deadline ends the loop, and
\* diagnoseHTTPS returns without judging it.
EndpointsDone ==
    /\ rung = "internet"
    /\ \/ /\ ev.httpsTested = Endpoints
          /\ \E seen \in {Intercepted} \cup
                         (IF expired THEN {Intercepted \ {ev.httpsTested}} ELSE {}) :
               ev' = [ev EXCEPT !.captive = CaptivePortal(seen)]
          /\ UNCHANGED expired
       \/ /\ ev.httpsTested < Endpoints
          /\ expired \/ MayExpire
          /\ expired' = TRUE
          /\ UNCHANGED ev
    /\ rung' = "classify"
    /\ UNCHANGED <<world, verdict>>

Conclude ==
    /\ rung = "classify"
    /\ verdict' = ClassifyEvidence(ev)
    /\ rung' = "done"
    /\ UNCHANGED <<world, expired, ev>>

Next ==
    \/ Local \/ Gateway \/ DNS
    \/ Literal \/ LiteralsDone
    \/ Endpoint \/ EndpointsDone
    \/ Conclude

Spec == Init /\ [][Next]_vars

-----------------------------------------------------------------------------
LinkUsable == world.up /\ world.addr
RouteExists == world.hop # "no route"
SomeLiteral == \E n \in 1..Literals : world.literal[n]
SomeHTTPS == \E n \in 1..Endpoints : world.https[n] = "ok"
AllLiterals == \A n \in 1..Literals : world.literal[n]
Concluded == verdict # NoVerdict

\* A fault of this host is named as one whatever the rest of the network does and
\* wherever the deadline falls: the lowest broken layer is the answer.
LocalFaultsAreNamed ==
    Concluded =>
      /\ ~LinkUsable => verdict = "LOCAL_INTERFACE_FAILURE"
      /\ LinkUsable /\ ~RouteExists =>
            verdict \in {"LOCAL_INTERFACE_FAILURE", "ROUTING_FAILURE"}
      /\ verdict = "LOCAL_INTERFACE_FAILURE" => ~LinkUsable \/ world.radio = "unassociated"

\* HEALTHY suppresses the outage record, so it must not come from missing
\* evidence: the link, a resolver and an external target do work, and a ladder
\* that had its time saw every literal answer, and an HTTPS session if it is told of an
\* endpoint.
HealthyIsEarned ==
    verdict = "HEALTHY" =>
      /\ LinkUsable /\ RouteExists /\ world.resolver
      /\ SomeLiteral \/ SomeHTTPS
      /\ ~expired => AllLiterals /\ (Endpoints > 0 => SomeHTTPS)

\* When nothing beyond the gateway answers, the verdict is a loss, never a partial
\* one, a portal or a clean bill of health, wherever the deadline falls.
TotalLossIsALoss ==
    Concluded /\ ~SomeLiteral /\ ~SomeHTTPS =>
      verdict \notin {"HEALTHY", "PARTIAL_CONNECTIVITY", "CAPTIVE_PORTAL"}

\* Blame is sound.  The gateway, if the ladder had its time: silent, and nothing
\* beyond it works either.  DNS: no configured resolver answers and the network itself
\* works.  A portal: sessions are intercepted on a working path.  A probe cut off by
\* the deadline is mistaken for neither of the last two.
BlameIsSound ==
    /\ verdict = "GATEWAY_FAILURE" /\ ~expired =>
          ~world.gateway /\ ~SomeLiteral /\ ~SomeHTTPS
    /\ verdict = "DNS_FAILURE" => ~world.resolver /\ (SomeLiteral \/ world.fallback)
    /\ verdict = "CAPTIVE_PORTAL" =>
          /\ world.resolver /\ SomeLiteral
          /\ \E n \in 1..Endpoints : world.https[n] = "intercepted"
          /\ ~expired => AllLiterals /\ ~SomeHTTPS

\* What the run checks of every verdict.  (Engine.Diagnose)
VerdictIsSound == LocalFaultsAreNamed /\ HealthyIsEarned /\ TotalLossIsALoss /\ BlameIsSound
=============================================================================
