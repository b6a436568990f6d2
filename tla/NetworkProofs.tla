--------------------------- MODULE NetworkProofs ----------------------------
(***************************************************************************)
(* Proofs about the collectors that watch the network and about the speed  *)
(* tests, for every value of their constants.                              *)
(*                                                                         *)
(* The components share no variable, so each has an inductive invariant of *)
(* its own, that the steps of the others leave as it is: what a component  *)
(* remembers is tied to the history its property speaks of.                *)
(***************************************************************************)
EXTENDS Network, FiniteSetTheorems, SequenceTheorems, NaturalsInduction,
    WellFoundedInduction, TLAPS

-----------------------------------------------------------------------------
(***************************************************************************)
(* The interfaces.  No two changes of one snapshot are of the same kind,   *)
(* but for those of the links, so that a reader takes each of the others   *)
(* as it is; and a link that is no longer up is told of.                   *)
(***************************************************************************)
InterfacesType ==
  /\ interfacesPrev \in Interfaces!Hosts \cup {Interfaces!NoSnapshot}
  /\ missed \in BOOLEAN
  /\ told.up \in SUBSET Names

InterfacesInv == InterfacesType /\ EventsTellTheHost

\* A link's changes are of its own kinds.
LEMMA LinkKinds ==
  ASSUME NEW name, NEW a, NEW b, NEW e \in Interfaces!LinkChanges(name, a, b)
  PROVE  e.kind \in {"up", "down"} /\ e.name = name
BY DEF Interfaces!LinkChanges, Interfaces!Event

\* The changes are those of the links and of each of the others.
LEMMA ChangesAre ==
  ASSUME NEW prior, NEW snap, NEW e
  PROVE  e \in Interfaces!Changes(prior, snap) <=>
           \/ \E n \in Names : e \in Interfaces!LinkChanges(n, prior.links[n], snap.links[n])
           \/ e \in Interfaces!Changed("route", prior.route, snap.route)
           \/ e \in Interfaces!Changed("vpn", Interfaces!VPN(prior), Interfaces!VPN(snap))
           \/ e \in Interfaces!Changed("dns", prior.dns, snap.dns)
           \/ e \in Interfaces!Changed("wifi", prior.wifi, snap.wifi)
BY DEF Interfaces!Changes

\* What has changed is of the kind, and now what it is.
LEMMA ChangedIs ==
  ASSUME NEW kind, NEW old, NEW new, NEW e \in Interfaces!Changed(kind, old, new)
  PROVE  old # new /\ e.kind = kind /\ e.current = new
BY DEF Interfaces!Changed, Interfaces!Event

\* The changes of a kind other than those of the links: at most one, with what is now.
LEMMA OneOfAKind ==
  ASSUME NEW C, NEW kind, NEW old, NEW new,
         \A e : e \in C /\ e.kind = kind <=> e \in Interfaces!Changed(kind, old, new)
  PROVE  (IF \E e \in C : e.kind = kind THEN (CHOOSE e \in C : e.kind = kind).current
          ELSE old) = new
<1>1. CASE \E e \in C : e.kind = kind
  <2>1. (CHOOSE e \in C : e.kind = kind) \in Interfaces!Changed(kind, old, new) BY <1>1
  <2>2. QED BY <1>1, <2>1, ChangedIs
<1>2. CASE ~\E e \in C : e.kind = kind
  <2>1. Interfaces!Changed(kind, old, new) = {} BY <1>2
  <2>2. old = new BY <2>1 DEF Interfaces!Changed
  <2>3. QED BY <1>2, <2>2
<1>3. QED BY <1>1, <1>2

\* What the changes of a kind are.
LEMMA ChangesOfAKind ==
  ASSUME NEW prior, NEW snap, NEW e
  PROVE  /\ e \in Interfaces!Changes(prior, snap) /\ e.kind = "route"
              <=> e \in Interfaces!Changed("route", prior.route, snap.route)
         /\ e \in Interfaces!Changes(prior, snap) /\ e.kind = "vpn"
              <=> e \in Interfaces!Changed("vpn", Interfaces!VPN(prior), Interfaces!VPN(snap))
         /\ e \in Interfaces!Changes(prior, snap) /\ e.kind = "dns"
              <=> e \in Interfaces!Changed("dns", prior.dns, snap.dns)
         /\ e \in Interfaces!Changes(prior, snap) /\ e.kind = "wifi"
              <=> e \in Interfaces!Changed("wifi", prior.wifi, snap.wifi)
<1>1. /\ e \in Interfaces!Changed("route", prior.route, snap.route) => e.kind = "route"
      /\ e \in Interfaces!Changed("vpn", Interfaces!VPN(prior), Interfaces!VPN(snap))
           => e.kind = "vpn"
      /\ e \in Interfaces!Changed("dns", prior.dns, snap.dns) => e.kind = "dns"
      /\ e \in Interfaces!Changed("wifi", prior.wifi, snap.wifi) => e.kind = "wifi"
  BY ChangedIs
<1>2. (\E n \in Names : e \in Interfaces!LinkChanges(n, prior.links[n], snap.links[n]))
        => e.kind \in {"up", "down"}
  BY LinkKinds
<1>3. QED BY <1>1, <1>2, ChangesAre

\* A reader of the changes knows the routes, the resolvers and the wireless network of the
\* snapshot, and no link that is up for it is down or gone.
LEMMA ReaderIsTold ==
  ASSUME NEW prior \in Interfaces!Hosts, NEW snap \in Interfaces!Hosts, NEW belief,
         belief.route = prior.route, belief.vpn = Interfaces!VPN(prior),
         belief.dns = prior.dns, belief.wifi = prior.wifi,
         \A n \in belief.up : prior.links[n] \in {"up", "idle"}
  PROVE  LET r == Interfaces!Reads(belief, Interfaces!Changes(prior, snap))
         IN /\ r.route = snap.route /\ r.vpn = Interfaces!VPN(snap)
            /\ r.dns = snap.dns /\ r.wifi = snap.wifi
            /\ r.up \in SUBSET Names
            /\ \A n \in r.up : snap.links[n] \in {"up", "idle"}
<1> DEFINE C == Interfaces!Changes(prior, snap)
           now(kind, old) == IF \E e \in C : e.kind = kind
                             THEN (CHOOSE e \in C : e.kind = kind).current ELSE old
           Up == {n \in Names : \/ Interfaces!Event("up", n, Interfaces!None) \in C
                                \/ /\ n \in belief.up
                                   /\ \A e \in C : ~(e.kind = "down" /\ e.name = n)}
<1>1. Interfaces!Reads(belief, C) =
        [up |-> Up, route |-> now("route", belief.route), vpn |-> now("vpn", belief.vpn),
         dns |-> now("dns", belief.dns), wifi |-> now("wifi", belief.wifi)]
  BY DEF Interfaces!Reads
<1>2. now("route", prior.route) = snap.route BY ChangesOfAKind, OneOfAKind
<1>3. now("vpn", Interfaces!VPN(prior)) = Interfaces!VPN(snap) BY ChangesOfAKind, OneOfAKind
<1>4. now("dns", prior.dns) = snap.dns BY ChangesOfAKind, OneOfAKind
<1>5. now("wifi", prior.wifi) = snap.wifi BY ChangesOfAKind, OneOfAKind
<1>6. ASSUME NEW n \in Up PROVE snap.links[n] \in {"up", "idle"}
  <2>1. n \in Names /\ snap.links[n] \in Interfaces!Links /\ prior.links[n] \in Interfaces!Links
    BY DEF Interfaces!Hosts
  <2>2. CASE Interfaces!Event("up", n, Interfaces!None) \in C
    <3>1. PICK m \in Names : Interfaces!Event("up", n, Interfaces!None)
                               \in Interfaces!LinkChanges(m, prior.links[m], snap.links[m])
      <4>1. Interfaces!Event("up", n, Interfaces!None).kind = "up" BY DEF Interfaces!Event
      <4>2. QED BY <2>2, <4>1, ChangesAre, ChangedIs DEF C
    <3>2. m = n BY <3>1, LinkKinds DEF Interfaces!Event
    <3>3. QED BY <3>1, <3>2 DEF Interfaces!LinkChanges, Interfaces!Event, Interfaces!Up
  <2>3. CASE n \in belief.up /\ \A e \in C : ~(e.kind = "down" /\ e.name = n)
    <3>1. Interfaces!Event("down", n, Interfaces!None) \notin C
      BY <2>3 DEF Interfaces!Event
    <3>2. Interfaces!Event("down", n, Interfaces!None)
            \notin Interfaces!LinkChanges(n, prior.links[n], snap.links[n])
      BY <2>1, <3>1, ChangesAre DEF C
    <3>3. prior.links[n] \in {"up", "idle"} BY <2>3
    <3>4. QED
      BY <2>1, <3>2, <3>3 DEF Interfaces!LinkChanges, Interfaces!Links, Interfaces!Up
  <2>4. QED BY <2>2, <2>3
<1>7. Up \in SUBSET Names OBVIOUS
<1> HIDE DEF now, Up, C
<1>8. QED BY <1>1, <1>2, <1>3, <1>4, <1>5, <1>6, <1>7 DEF C

\* A snapshot without a change tells what the one before it told.
LEMMA NothingChanged ==
  ASSUME NEW prior \in Interfaces!Hosts, NEW snap \in Interfaces!Hosts,
         Interfaces!Changes(prior, snap) = {}
  PROVE  /\ prior.route = snap.route /\ Interfaces!VPN(prior) = Interfaces!VPN(snap)
         /\ prior.dns = snap.dns /\ prior.wifi = snap.wifi
         /\ \A n \in Names : prior.links[n] \in {"up", "idle"} => snap.links[n] \in {"up", "idle"}
<1>1. /\ prior.route = snap.route /\ Interfaces!VPN(prior) = Interfaces!VPN(snap)
      /\ prior.dns = snap.dns /\ prior.wifi = snap.wifi
  <2>1. /\ Interfaces!Changed("route", prior.route, snap.route) = {}
        /\ Interfaces!Changed("vpn", Interfaces!VPN(prior), Interfaces!VPN(snap)) = {}
        /\ Interfaces!Changed("dns", prior.dns, snap.dns) = {}
        /\ Interfaces!Changed("wifi", prior.wifi, snap.wifi) = {}
    BY ChangesAre
  <2>2. \A kind, old, new : Interfaces!Changed(kind, old, new) = {} => old = new
    BY DEF Interfaces!Changed
  <2>3. QED BY <2>1, <2>2
<1>2. ASSUME NEW n \in Names, prior.links[n] \in {"up", "idle"}
      PROVE  snap.links[n] \in {"up", "idle"}
  <2>1. Interfaces!LinkChanges(n, prior.links[n], snap.links[n]) = {}
    BY ChangesAre
  <2>2. snap.links[n] \in Interfaces!Links BY DEF Interfaces!Hosts
  <2>3. QED BY <1>2, <2>1, <2>2 DEF Interfaces!LinkChanges, Interfaces!Links, Interfaces!Up
<1>3. QED BY <1>1, <1>2

\* The first snapshot is told as it is.
LEMMA BeliefIsTrue ==
  ASSUME NEW snap \in Interfaces!Hosts
  PROVE  LET b == Interfaces!Belief(snap)
         IN /\ b.route = snap.route /\ b.vpn = Interfaces!VPN(snap)
            /\ b.dns = snap.dns /\ b.wifi = snap.wifi
            /\ b.up \in SUBSET Names
            /\ \A n \in b.up : snap.links[n] \in {"up", "idle"}
BY DEF Interfaces!Belief

\* Whatever the host has become, its events tell it.
LEMMA InterfacesSteps == ASSUME InterfacesInv, Interfaces!Next PROVE InterfacesInv'
<1> USE DEF InterfacesInv
<1>1. CASE Interfaces!Collect
  <2>1. PICK snap \in Interfaces!Hosts :
          /\ interfacesPrev' = snap /\ missed' = missed
          /\ told' = IF missed THEN told
                     ELSE IF interfacesPrev = Interfaces!NoSnapshot THEN Interfaces!Belief(snap)
                     ELSE Interfaces!Reads(told, Interfaces!Changes(interfacesPrev, snap))
    BY <1>1 DEF Interfaces!Collect
  <2>2. CASE missed
    BY <2>1, <2>2 DEF InterfacesType, EventsTellTheHost, Interfaces!EventsTellTheHost
  <2>3. CASE ~missed /\ interfacesPrev = Interfaces!NoSnapshot
    <3>1. told' = Interfaces!Belief(snap) BY <2>1, <2>3
    <3>2. QED BY <2>1, <3>1, BeliefIsTrue
            DEF InterfacesType, EventsTellTheHost, Interfaces!EventsTellTheHost
  <2>4. CASE ~missed /\ interfacesPrev # Interfaces!NoSnapshot
    <3>1. told' = Interfaces!Reads(told, Interfaces!Changes(interfacesPrev, snap))
      BY <2>1, <2>4
    <3>2. /\ interfacesPrev \in Interfaces!Hosts
          /\ told.route = interfacesPrev.route /\ told.vpn = Interfaces!VPN(interfacesPrev)
          /\ told.dns = interfacesPrev.dns /\ told.wifi = interfacesPrev.wifi
          /\ \A n \in told.up : interfacesPrev.links[n] \in {"up", "idle"}
      BY <2>4 DEF InterfacesType, EventsTellTheHost, Interfaces!EventsTellTheHost
    <3>3. /\ told'.route = snap.route /\ told'.vpn = Interfaces!VPN(snap)
          /\ told'.dns = snap.dns /\ told'.wifi = snap.wifi
          /\ told'.up \in SUBSET Names
          /\ \A n \in told'.up : snap.links[n] \in {"up", "idle"}
      BY <3>1, <3>2, ReaderIsTold
    <3>4. QED
      BY <2>1, <3>3 DEF InterfacesType, EventsTellTheHost, Interfaces!EventsTellTheHost
  <2>5. QED BY <2>2, <2>3, <2>4
<1>2. CASE Interfaces!FailToStore
  <2>1. PICK snap \in Interfaces!Hosts :
          /\ interfacesPrev' = snap
          /\ missed' = (missed \/ (/\ interfacesPrev # Interfaces!NoSnapshot
                                  /\ Interfaces!Changes(interfacesPrev, snap) # {}))
          /\ told' = IF missed' \/ interfacesPrev = Interfaces!NoSnapshot
                     THEN Interfaces!Belief(snap) ELSE told
    BY <1>2 DEF Interfaces!FailToStore
  <2>2. CASE missed' \/ interfacesPrev = Interfaces!NoSnapshot
    <3>1. told' = Interfaces!Belief(snap) BY <2>1, <2>2
    <3>2. QED BY <2>1, <3>1, BeliefIsTrue
            DEF InterfacesType, EventsTellTheHost, Interfaces!EventsTellTheHost
  <2>3. CASE ~missed' /\ interfacesPrev # Interfaces!NoSnapshot
    <3>1. told' = told /\ Interfaces!Changes(interfacesPrev, snap) = {} /\ ~missed
      BY <2>1, <2>3
    <3>2. interfacesPrev \in Interfaces!Hosts BY <2>3 DEF InterfacesType
    <3>3. /\ interfacesPrev.route = snap.route
          /\ Interfaces!VPN(interfacesPrev) = Interfaces!VPN(snap)
          /\ interfacesPrev.dns = snap.dns /\ interfacesPrev.wifi = snap.wifi
          /\ \A n \in Names : interfacesPrev.links[n] \in {"up", "idle"}
                             => snap.links[n] \in {"up", "idle"}
      BY <3>1, <3>2, NothingChanged
    <3>4. QED BY <2>1, <2>3, <3>1, <3>3
            DEF InterfacesType, EventsTellTheHost, Interfaces!EventsTellTheHost
  <2>4. QED BY <2>2, <2>3
<1>3. QED BY <1>1, <1>2 DEF Interfaces!Next

\* The other components leave the interfaces alone.
LEMMA InterfacesStep == InterfacesInv /\ [Next]_vars => InterfacesInv'
<1> SUFFICES ASSUME InterfacesInv, [Next]_vars PROVE InterfacesInv' OBVIOUS
<1>1. CASE UNCHANGED interfacesVars
  BY <1>1 DEF interfacesVars, InterfacesInv, InterfacesType, EventsTellTheHost,
    Interfaces!EventsTellTheHost
<1>2. CASE Interfaces!Next
  BY <1>2, InterfacesSteps
<1>3. QED BY <1>1, <1>2 DEF Next, vars

\* There is no snapshot at first.
LEMMA InterfacesStart == Init => InterfacesInv
<1> SUFFICES ASSUME Init PROVE InterfacesInv OBVIOUS
<1>1. /\ interfacesPrev = Interfaces!NoSnapshot /\ missed = FALSE
      /\ told = Interfaces!Belief(Interfaces!NoSnapshot)
  BY DEF Init, Interfaces!Init
<1>2. told.up \in SUBSET Names BY <1>1 DEF Interfaces!Belief
<1>3. InterfacesType BY <1>1, <1>2 DEF InterfacesType
<1>4. EventsTellTheHost BY <1>1 DEF EventsTellTheHost, Interfaces!EventsTellTheHost
<1>5. QED BY <1>3, <1>4 DEF InterfacesInv

\* The events of the interface collector tell the configuration of the host: for any
\* links, tunnels, resolvers and networks, a reader that takes every event holds the
\* configuration of the last snapshot, whichever changes came together, unless an
\* insert has failed (Tracker.Observe of interfaces.go).
THEOREM SpecEventsTellTheHost == Spec => []EventsTellTheHost
<1>1. InterfacesInv => EventsTellTheHost BY DEF InterfacesInv
<1>2. QED BY <1>1, InterfacesStart, InterfacesStep, PTL DEF Spec

-----------------------------------------------------------------------------
(***************************************************************************)
(* The routes.  A path shows the routers of the way it was traced along    *)
(* and then the destination, but for the hops that were silent, and ends   *)
(* where the destination answers; the row of a destination is such a path  *)
(* of the way there was, and a task compares with one that was the row.    *)
(***************************************************************************)
Hops == Routers \cup {"silent", "destination"}

Paths == [hops : Seq(Hops), complete : BOOLEAN]

\* The hops of a path are those of the way, or silent.
Shows(path, way) ==
  /\ \A i \in 1..Len(path.hops) :
       path.hops[i] \in {"silent", IF i <= Len(way) THEN way[i] ELSE "destination"}
  /\ \A i \in 1..(Len(path.hops) - 1) : i > Len(way) => path.hops[i] = "silent"
  /\ path.complete => Len(path.hops) > Len(way)

Cycles == [step : {"idle", "traced", "compared", "stored"}, dest : Int, path : Paths,
           prev : Paths, way : Seq(Routers), from : Seq(Routers)]

RoutingType ==
  /\ network \in [Routing!Dests -> Seq(Routers)] /\ next \in Nat
  /\ work \in [Routing!Tasks -> Cycles]
  /\ routingRows \in [Routing!Dests -> Paths]
  /\ was \in [Routing!Dests -> Seq(Routers)]

RowsAreTraced ==
  \A d \in Routing!Dests : routingRows[d] # Routing!NoPath => Shows(routingRows[d], was[d])

\* Both paths of a cycle are those of their ways.
Fits(w) ==
  /\ w.step # "idle" => w.dest \in Routing!Dests /\ Shows(w.path, w.way)
  /\ w.prev # Routing!NoPath => Shows(w.prev, w.from)

CyclesAreTraced == \A k \in Routing!Tasks : Fits(work[k])

RoutingInv == RoutingType /\ RowsAreTraced /\ CyclesAreTraced

\* A way is a sequence of routers.
LEMMA WaysAreSequences == Routing!Ways \subseteq Seq(Routers)
BY RoutingAssumption DEF Routing!Ways

\* What a trace shows.
LEMMA TracesShow ==
  ASSUME NEW way \in Seq(Routers), NEW path \in Routing!Traces(way)
  PROVE  path \in Paths /\ Shows(path, way)
<1>1. PICK ns \in (1..MaxHops) \X SUBSET (1..MaxHops) :
        /\ ((Len(way) + 1)..(ns[1] - 1)) \subseteq ns[2]
        /\ path = Routing!Path(way, ns[1], ns[2])
  BY DEF Routing!Traces
<1> DEFINE n == ns[1]
           silent == ns[2]
           hops == [i \in 1..n |-> IF i \in silent THEN "silent" ELSE Routing!Hop(way, i)]
<1>2. n \in Nat /\ n >= 1 BY <1>1, RoutingAssumption
<1>3. path = [hops |-> hops, complete |-> n \notin silent /\ n > Len(way)]
  BY <1>1 DEF Routing!Path, Routing!Silent
<1>4. Len(way) \in Nat /\ DOMAIN way = 1..Len(way) /\ \A i \in 1..Len(way) : way[i] \in Routers
  OBVIOUS
<1>5. ((Len(way) + 1)..(n - 1)) \subseteq silent BY <1>1
<1> HIDE DEF n, silent
<1>6. ASSUME NEW i \in 1..n
      PROVE  /\ hops[i] \in Hops
             /\ hops[i] \in {"silent", IF i <= Len(way) THEN way[i] ELSE "destination"}
  BY <1>4 DEF Hops, Routing!Hop
<1>7. \A i \in 1..(n - 1) : i > Len(way) => hops[i] = "silent" BY <1>2, <1>4, <1>5
<1>8. hops \in Seq(Hops) /\ Len(hops) = n BY <1>2, <1>6
<1> HIDE DEF hops
<1>9. /\ path \in Paths /\ path.hops = hops
      /\ path.complete = (n \notin silent /\ n > Len(way))
  BY <1>3, <1>8 DEF Paths
<1>10. QED BY <1>6, <1>7, <1>8, <1>9 DEF Shows

\* Two paths of one way differ in no router.
LEMMA SameWay ==
  ASSUME NEW way \in Seq(Routers), NEW before \in Paths, NEW after \in Paths,
         Shows(before, way), Shows(after, way)
  PROVE  ~Routing!Changed(before, after)
<1>1. Routing!ChangedHops(before, after) = {}
  <2>1. /\ DOMAIN before.hops = 1..Len(before.hops) /\ DOMAIN after.hops = 1..Len(after.hops)
    BY DEF Paths
  <2>2. QED BY <2>1 DEF Routing!ChangedHops, Routing!Silent, Shows
<1>2. Routing!Cardinality(Routing!ChangedHops(before, after)) = 0
  BY <1>1, FS_EmptySet DEF Routing!Cardinality, Cardinality
<1>3. QED BY <1>2, RoutingAssumption DEF Routing!Changed

\* A path that was seen whole shows each router.
LEMMA WholePath ==
  ASSUME NEW way \in Seq(Routers), NEW path \in Paths, Shows(path, way), Routing!Seen(path)
  PROVE  /\ Len(way) \in Nat /\ DOMAIN path.hops = 1..Len(way) + 1
         /\ \A i \in 1..Len(way) : path.hops[i] = way[i] /\ way[i] \in Routers
         /\ path.hops[Len(way) + 1] = "destination"
         /\ \A i \in DOMAIN path.hops : path.hops[i] # "silent"
<1>1. Len(way) \in Nat OBVIOUS
<1>2. Len(path.hops) = Len(way) + 1
  <2>1. Len(path.hops) \in Nat /\ DOMAIN path.hops = 1..Len(path.hops) BY DEF Paths
  <2>2. path.complete /\ Len(path.hops) > Len(way) BY DEF Shows, Routing!Seen
  <2>3. ASSUME Len(path.hops) > Len(way) + 1 PROVE FALSE
    <3>1. Len(way) + 1 \in 1..(Len(path.hops) - 1) /\ Len(way) + 1 > Len(way)
      BY <1>1, <2>1, <2>3
    <3>2. path.hops[Len(way) + 1] = "silent" BY <3>1 DEF Shows
    <3>3. QED BY <2>1, <3>1, <3>2 DEF Routing!Seen, Routing!Silent
  <2>4. QED BY <1>1, <2>1, <2>2, <2>3
<1>3. DOMAIN path.hops = 1..Len(way) + 1 BY <1>2 DEF Paths
<1>4. \A i \in DOMAIN path.hops : path.hops[i] # "silent"
  BY DEF Routing!Seen, Routing!Silent
<1>5. \A i \in 1..Len(way) + 1 :
        path.hops[i] = IF i <= Len(way) THEN way[i] ELSE "destination"
  BY <1>2, <1>3, <1>4 DEF Shows
<1>6. ASSUME NEW i \in 1..Len(way) PROVE path.hops[i] = way[i] /\ way[i] \in Routers
  <2>1. i \in 1..Len(way) + 1 /\ i <= Len(way) BY <1>1
  <2>2. QED BY <1>5, <2>1
<1>7. path.hops[Len(way) + 1] = "destination"
  <2>1. Len(way) + 1 \in 1..Len(way) + 1 /\ ~(Len(way) + 1 <= Len(way)) BY <1>1
  <2>2. QED BY <1>5, <2>1
<1>8. QED BY <1>1, <1>3, <1>4, <1>6, <1>7

\* Two paths that were seen whole tell two ways apart.
LEMMA OtherWay ==
  ASSUME NEW a \in Seq(Routers), NEW b \in Seq(Routers), a # b,
         NEW before \in Paths, NEW after \in Paths, Shows(before, a), Shows(after, b),
         Routing!Seen(before), Routing!Seen(after), Tolerance = 0
  PROVE  Routing!Changed(before, after)
<1>1. /\ DOMAIN before.hops = 1..Len(a) + 1 /\ DOMAIN after.hops = 1..Len(b) + 1
      /\ Len(a) \in Nat /\ Len(b) \in Nat
  BY WholePath
<1>2. /\ \A i \in 1..Len(a) : before.hops[i] = a[i] /\ a[i] \in Routers
      /\ before.hops[Len(a) + 1] = "destination"
      /\ \A i \in 1..Len(b) : after.hops[i] = b[i] /\ b[i] \in Routers
      /\ after.hops[Len(b) + 1] = "destination"
      /\ \A i \in DOMAIN before.hops : before.hops[i] # "silent"
      /\ \A i \in DOMAIN after.hops : after.hops[i] # "silent"
  BY WholePath
<1>3. PICK i \in DOMAIN before.hops \cap DOMAIN after.hops : before.hops[i] # after.hops[i]
  <2>1. CASE Len(a) = Len(b)
    <3>1. PICK i \in 1..Len(a) : a[i] # b[i] BY <2>1
    <3>2. QED BY <1>1, <1>2, <2>1, <3>1
  <2>2. CASE Len(a) < Len(b)
    <3>1. Len(a) + 1 \in 1..Len(b) BY <1>1, <2>2
    <3>2. before.hops[Len(a) + 1] # after.hops[Len(a) + 1]
      BY <1>2, <3>1, RoutingAssumption
    <3>3. QED BY <1>1, <3>1, <3>2
  <2>3. CASE Len(b) < Len(a)
    <3>1. Len(b) + 1 \in 1..Len(a) BY <1>1, <2>3
    <3>2. before.hops[Len(b) + 1] # after.hops[Len(b) + 1]
      BY <1>2, <3>1, RoutingAssumption
    <3>3. QED BY <1>1, <3>1, <3>2
  <2>4. QED BY <1>1, <2>1, <2>2, <2>3
<1>4. i \in Routing!ChangedHops(before, after)
  BY <1>2, <1>3 DEF Routing!ChangedHops, Routing!Silent
<1>5. IsFiniteSet(Routing!ChangedHops(before, after))
  <2>1. Routing!ChangedHops(before, after) \subseteq 1..Len(a) + 1
    BY <1>1 DEF Routing!ChangedHops
  <2>2. 1 \in Int /\ Len(a) + 1 \in Int BY <1>1
  <2>3. IsFiniteSet(1..Len(a) + 1) BY <2>2, FS_Interval
  <2>4. QED BY <2>1, <2>3, FS_Subset
<1>6. Cardinality(Routing!ChangedHops(before, after)) > 0
  BY <1>4, <1>5, FS_CardinalityType, FS_EmptySet
<1>7. QED BY <1>6 DEF Routing!Changed, Routing!Cardinality, Cardinality

\* What a task is doing is a record.
LEMMA CycleTypes ==
  /\ Routing!NoPath \in Paths /\ Routing!Resting \in Cycles /\ Fits(Routing!Resting)
  /\ \A w \in Cycles, p \in Paths, way \in Seq(Routers) :
       [w EXCEPT !.step = "compared", !.prev = p, !.from = way] \in Cycles
  /\ \A w \in Cycles : [w EXCEPT !.step = "stored"] \in Cycles
<1>1. Routing!NoPath \in Paths BY DEF Routing!NoPath, Paths
<1>2. Routing!Resting \in Cycles /\ Fits(Routing!Resting)
  BY <1>1 DEF Routing!Resting, Cycles, Fits
<1>3. \A w \in Cycles, p \in Paths, way \in Seq(Routers) :
        [w EXCEPT !.step = "compared", !.prev = p, !.from = way] \in Cycles
  BY DEF Cycles
<1>4. \A w \in Cycles : [w EXCEPT !.step = "stored"] \in Cycles BY DEF Cycles
<1>5. QED BY <1>1, <1>2, <1>3, <1>4

\* A step that changes what one task is doing, and no row.
LEMMA CycleStep ==
  ASSUME RoutingInv, NEW k \in Routing!Tasks, NEW w \in Cycles,
         work' = [work EXCEPT ![k] = w], Fits(w),
         next' \in Nat, UNCHANGED <<network, routingRows, was>>
  PROVE  RoutingInv'
<1> USE DEF RoutingInv
<1>1. /\ work'[k] = w /\ \A j \in Routing!Tasks \ {k} : work'[j] = work[j]
      /\ work' \in [Routing!Tasks -> Cycles]
  BY DEF RoutingType
<1>2. RoutingType' BY <1>1 DEF RoutingType, Routing!Dests, Routing!Tasks
<1>3. RowsAreTraced' BY DEF RowsAreTraced
<1>4. CyclesAreTraced' BY <1>1 DEF CyclesAreTraced, Fits
<1>5. QED BY <1>2, <1>3, <1>4

\* The steps of the tasks and of the network.
LEMMA RoutingSteps == ASSUME RoutingInv, Routing!Next PROVE RoutingInv'
<1> USE DEF RoutingInv
<1>1. CASE Routing!Reroute
  <2>1. PICK d \in Routing!Dests, way \in Routing!Ways : network' = [network EXCEPT ![d] = way]
    BY <1>1 DEF Routing!Reroute
  <2>2. UNCHANGED <<next, work, routingRows, was>> BY <1>1 DEF Routing!Reroute
  <2>3. way \in Seq(Routers) BY WaysAreSequences
  <2>4. RoutingType' BY <2>1, <2>2, <2>3 DEF RoutingType
  <2>5. RowsAreTraced' /\ CyclesAreTraced' BY <2>2 DEF RowsAreTraced, CyclesAreTraced, Fits
  <2>6. QED BY <2>4, <2>5
<1>2. ASSUME NEW k \in Routing!Tasks, Routing!Start(k) PROVE RoutingInv'
  <2> DEFINE d == next % Destinations
  <2>1. d \in Routing!Dests
    BY RoutingAssumption DEF Routing!Dests, RoutingType
  <2>2. network[d] \in Seq(Routers) BY <2>1 DEF RoutingType
  <2>3. PICK path \in Routing!Traces(network[d]) :
          work' = [work EXCEPT ![k] = [step |-> "traced", dest |-> d, path |-> path,
                                       prev |-> Routing!NoPath, way |-> network[d],
                                       from |-> <<>>]]
    BY <1>2 DEF Routing!Start
  <2>4. path \in Paths /\ Shows(path, network[d]) BY <2>2, TracesShow
  <2> DEFINE w == [step |-> "traced", dest |-> d, path |-> path,
                   prev |-> Routing!NoPath, way |-> network[d], from |-> <<>>]
  <2>5. d \in Int
    <3>1. \A x \in Routing!Dests : x \in Int BY DEF Routing!Dests
    <3>2. QED BY ONLY <2>1, <3>1
  <2> HIDE DEF d
  <2>6. w \in Cycles
    <3>1. \A x \in Int, p, q \in Paths, way, from \in Seq(Routers) :
            [step |-> "traced", dest |-> x, path |-> p, prev |-> q,
             way |-> way, from |-> from] \in Cycles
      BY DEF Cycles
    <3>2. << >> \in Seq(Routers) OBVIOUS
    <3>3. Routing!NoPath \in Paths BY CycleTypes
    <3>4. QED BY <2>2, <2>4, <2>5, <3>1, <3>2, <3>3
  <2>7. Fits(w) BY <2>1, <2>4 DEF Fits
  <2>8. work' = [work EXCEPT ![k] = w] BY <2>3
  <2> HIDE DEF w
  <2>9. next' = next + 1 /\ UNCHANGED <<network, routingRows, was>>
    BY <1>2 DEF Routing!Start
  <2>10. next' \in Nat BY <2>9 DEF RoutingType
  <2>11. QED BY <2>6, <2>7, <2>8, <2>9, <2>10, CycleStep
<1>3. ASSUME NEW k \in Routing!Tasks, Routing!ReadPrevious(k) PROVE RoutingInv'
  <2>1. /\ work[k] \in Cycles /\ work[k].step = "traced" /\ work[k].dest \in Routing!Dests
        /\ Fits(work[k])
    BY <1>3 DEF Routing!ReadPrevious, RoutingType, CyclesAreTraced, Fits
  <2> DEFINE p == routingRows[work[k].dest]
             way == was[work[k].dest]
             w == [work[k] EXCEPT !.step = "compared", !.prev = p, !.from = way]
  <2>2. p \in Paths /\ way \in Seq(Routers) BY <2>1 DEF RoutingType
  <2>3. work' = [work EXCEPT ![k] = w]
    BY <1>3 DEF Routing!ReadPrevious, RoutingType
  <2>4. p # Routing!NoPath => Shows(p, way) BY <2>1 DEF RowsAreTraced
  <2> HIDE DEF p, way
  <2>5. w \in Cycles BY <2>1, <2>2, CycleTypes
  <2>6. Fits(w) BY <2>1, <2>4 DEF Fits, Cycles
  <2> HIDE DEF w
  <2>7. UNCHANGED <<network, next, routingRows, was>> BY <1>3 DEF Routing!ReadPrevious
  <2>8. next' \in Nat BY <2>7 DEF RoutingType
  <2>9. QED BY <2>3, <2>5, <2>6, <2>7, <2>8, CycleStep
<1>4. ASSUME NEW k \in Routing!Tasks, Routing!Store(k) PROVE RoutingInv'
  <2>1. /\ work[k] \in Cycles /\ work[k].dest \in Routing!Dests /\ Fits(work[k])
        /\ Shows(work[k].path, work[k].way)
    BY <1>4 DEF Routing!Store, RoutingType, CyclesAreTraced, Fits
  <2> DEFINE w == [work[k] EXCEPT !.step = "stored"]
  <2>2. /\ routingRows' = [routingRows EXCEPT ![work[k].dest] = work[k].path]
        /\ was' = [was EXCEPT ![work[k].dest] = work[k].way]
        /\ work' = [work EXCEPT ![k] = w]
        /\ UNCHANGED <<network, next>>
    BY <1>4 DEF Routing!Store, RoutingType
  <2>3. w \in Cycles /\ Fits(w) BY <2>1, CycleTypes DEF Fits, Cycles
  <2> HIDE DEF w
  <2>4. /\ work'[k] = w /\ \A j \in Routing!Tasks \ {k} : work'[j] = work[j]
        /\ work' \in [Routing!Tasks -> Cycles]
    BY <2>2, <2>3 DEF RoutingType
  <2>5. work[k].path \in Paths /\ work[k].way \in Seq(Routers) BY <2>1 DEF Cycles
  <2>6. RoutingType' BY <2>1, <2>2, <2>4, <2>5 DEF RoutingType
  <2>7. RowsAreTraced' BY <2>1, <2>2 DEF RowsAreTraced, RoutingType
  <2>8. CyclesAreTraced' BY <2>3, <2>4 DEF CyclesAreTraced, Fits
  <2>9. QED BY <2>6, <2>7, <2>8
<1>5. ASSUME NEW k \in Routing!Tasks, Routing!Report(k) \/ Routing!Fail(k) PROVE RoutingInv'
  <2>1. /\ work' = [work EXCEPT ![k] = Routing!Resting]
        /\ UNCHANGED <<network, next, routingRows, was>>
    BY <1>5 DEF Routing!Report, Routing!Fail
  <2>2. next' \in Nat BY <2>1 DEF RoutingType
  <2>3. QED BY <2>1, <2>2, CycleTypes, CycleStep
<1>6. QED BY <1>1, <1>2, <1>3, <1>4, <1>5 DEF Routing!Next

\* The other components leave the routes alone.
LEMMA RoutingStep == RoutingInv /\ [Next]_vars => RoutingInv'
<1> SUFFICES ASSUME RoutingInv, [Next]_vars PROVE RoutingInv' OBVIOUS
<1>1. CASE UNCHANGED routingVars
  <2>1. UNCHANGED <<network, next, work, routingRows, was>>
    BY <1>1 DEF routingVars
  <2>2. QED
    BY <2>1 DEF RoutingInv, RoutingType, RowsAreTraced, CyclesAreTraced, Fits
<1>2. CASE Routing!Next
  BY <1>2, RoutingSteps
<1>3. QED BY <1>1, <1>2 DEF Next, vars

\* There is no row at first, and no task at work.
LEMMA RoutingStarts == Init => RoutingInv
<1> SUFFICES ASSUME Init PROVE RoutingInv OBVIOUS
<1>1. /\ network \in [Routing!Dests -> Routing!Ways] /\ next = 0
      /\ work = [k \in Routing!Tasks |-> Routing!Resting]
      /\ routingRows = [d \in Routing!Dests |-> Routing!NoPath]
      /\ was = [d \in Routing!Dests |-> <<>>]
  BY DEF Init, Routing!Init
<1>2. network \in [Routing!Dests -> Seq(Routers)] BY <1>1, WaysAreSequences
<1>3. RoutingType
  <2>1. work \in [Routing!Tasks -> Cycles] BY <1>1, CycleTypes
  <2>2. routingRows \in [Routing!Dests -> Paths] BY <1>1, CycleTypes
  <2>3. was \in [Routing!Dests -> Seq(Routers)] BY <1>1
  <2>4. next \in Nat BY <1>1
  <2>5. QED BY <1>2, <2>1, <2>2, <2>3, <2>4 DEF RoutingType
<1>4. RowsAreTraced BY <1>1 DEF RowsAreTraced
<1>5. CyclesAreTraced BY <1>1, CycleTypes DEF CyclesAreTraced
<1>6. QED BY <1>3, <1>4, <1>5 DEF RoutingInv

\* What a report says of the two paths.
RealReport(k) ==
  LET seen == Routing!Seen(work[k].prev) /\ Routing!Seen(work[k].path)
  IN /\ report'.route => Routing!Moved(k)
     /\ report'.count /\ seen => Routing!Moved(k)
     /\ Tolerance = 0 /\ Routing!Moved(k) /\ seen => report'.route

\* It says so of the paths of the cycle that makes it.
LEMMA ReportIsReal ==
  ASSUME RoutingInv, NEW k \in Routing!Tasks, Routing!Next, report'.dest >= 0,
         work[k] # work'[k], work[k].prev # Routing!NoPath
  PROVE  RealReport(k)
<1> USE DEF RoutingInv
<1>1. Routing!Report(k)
  <2>1. report' # Routing!NoReport BY DEF Routing!NoReport
  <2>2. PICK j \in Routing!Tasks : Routing!Report(j)
    BY <2>1
      DEF Routing!Next, Routing!Reroute, Routing!Start, Routing!ReadPrevious, Routing!Store,
        Routing!Fail
  <2>3. work' = [work EXCEPT ![j] = Routing!Resting] BY <2>2 DEF Routing!Report
  <2>4. j = k BY <2>3 DEF RoutingType
  <2>5. QED BY <2>2, <2>4
<1> DEFINE w == work[k]
<1>2. w \in Cycles /\ w.step = "stored" /\ Shows(w.path, w.way) /\ Shows(w.prev, w.from)
  BY <1>1 DEF Routing!Report, RoutingType, CyclesAreTraced, Fits
<1>3. /\ w.path \in Paths /\ w.prev \in Paths
      /\ w.way \in Seq(Routers) /\ w.from \in Seq(Routers)
  BY <1>2 DEF Cycles
<1>4. report' = [dest |-> w.dest,
                 route |-> w.prev # Routing!NoPath /\ Routing!Changed(w.prev, w.path),
                 count |-> /\ w.prev # Routing!NoPath /\ w.path.complete
                           /\ Routing!HopCount(w.prev) # Routing!HopCount(w.path)]
  BY <1>1 DEF Routing!Report
<1>5. /\ report'.route = Routing!Changed(w.prev, w.path)
      /\ report'.count => Len(w.prev.hops) # Len(w.path.hops)
  BY <1>4 DEF Routing!HopCount, Routing!Changed
<1>6. Routing!Moved(k) <=> w.way # w.from BY DEF Routing!Moved
<1> HIDE DEF w
<1>7. report'.route => w.way # w.from BY <1>2, <1>3, <1>5, SameWay
<1>8. ASSUME Routing!Seen(w.prev), Routing!Seen(w.path)
      PROVE  /\ report'.count => w.way # w.from
             /\ Tolerance = 0 /\ w.way # w.from => report'.route
  <2>1. /\ DOMAIN w.prev.hops = 1..Len(w.from) + 1 /\ DOMAIN w.path.hops = 1..Len(w.way) + 1
        /\ Len(w.from) \in Nat /\ Len(w.way) \in Nat
    BY <1>2, <1>3, <1>8, WholePath
  <2>2. Len(w.prev.hops) = Len(w.from) + 1 /\ Len(w.path.hops) = Len(w.way) + 1
    BY <1>3, <2>1 DEF Paths
  <2>3. report'.count => w.way # w.from BY <1>5, <2>2
  <2>4. Tolerance = 0 /\ w.way # w.from => report'.route
    BY <1>2, <1>3, <1>5, <1>8, OtherWay
  <2>5. QED BY <2>3, <2>4
<1>9. QED BY <1>6, <1>7, <1>8 DEF w, RealReport

\* A change of route is reported only when the routers did change between the traces that
\* are compared, for any routers, any number of destinations and hops and any tolerance,
\* whichever hops were silent and however the cycles overlap and fail; and without a
\* tolerance every change between paths that were seen whole is.  (Compare, routeMonitor.run)
THEOREM SpecRouteReportsAreReal == Spec => RouteReportsAreReal
<1>1. RoutingInv /\ [Next]_vars =>
        [\A k \in Routing!Tasks :
           report'.dest >= 0 /\ work[k] # work'[k] /\ work[k].prev # Routing!NoPath =>
             LET seen == Routing!Seen(work[k].prev) /\ Routing!Seen(work[k].path)
             IN /\ report'.route => Routing!Moved(k)
                /\ report'.count /\ seen => Routing!Moved(k)
                /\ Tolerance = 0 /\ Routing!Moved(k) /\ seen => report'.route]_(Routing!vars)
  <2> SUFFICES ASSUME RoutingInv, [Next]_vars, Routing!vars' # Routing!vars,
                      NEW k \in Routing!Tasks, report'.dest >= 0, work[k] # work'[k],
                      work[k].prev # Routing!NoPath
      PROVE  RealReport(k)
    BY DEF RealReport
  <2>1. CASE UNCHANGED routingVars
    BY <2>1 DEF routingVars, Routing!vars
  <2>2. CASE Routing!Next
    BY <2>2, ReportIsReal
  <2>3. QED BY <2>1, <2>2 DEF Next, vars
<1>2. QED
  BY <1>1, RoutingStarts, RoutingStep, PTL
    DEF Spec, RouteReportsAreReal, Routing!RouteReportsAreReal

-----------------------------------------------------------------------------
(***************************************************************************)
(* The speed tests.  Since the last sample the counter has grown by what   *)
(* the other hosts and the tests received; a test that was running since   *)
(* is still running, or not yet recorded, or recorded, or it has failed.   *)
(***************************************************************************)
TaskStates == [step : {"idle", "checked", "testing", "finished"}, start : Nat, end : Nat,
               bytes : Nat]

TransferRecords == [start : Nat, end : Nat, bytes : Nat]

SpeedType ==
  /\ speedNow \in Nat /\ counter \in Nat /\ others \in Nat /\ ours \in Nat
  /\ resets \in Nat
  /\ running \in BOOLEAN /\ failed \in Int /\ failed <= speedNow
  /\ speedPrev.at \in Int /\ speedPrev.count \in Nat /\ speedPrev.at <= speedNow
  /\ task \in [TestTasks -> TaskStates]
  /\ windows \in SUBSET TransferRecords /\ IsFiniteSet(windows)

OneTestRuns ==
  /\ running => \E k \in TestTasks : task[k].step = "testing"
  /\ \A k \in TestTasks : task[k].step = "testing" => running
  /\ \A j, k \in TestTasks : task[j].step = "testing" /\ task[k].step = "testing" => j = k

TestsTakeTime ==
  /\ \A k \in TestTasks : task[k].step = "testing" =>
       task[k].start <= speedNow /\ (task[k].bytes # 0 => task[k].start < speedNow)
  /\ \A k \in TestTasks : task[k].step = "finished" =>
       task[k].end = speedNow /\ (task[k].bytes # 0 => task[k].start < speedNow)
  /\ \A w \in windows : w.start < w.end /\ w.end <= speedNow

\* A test was running since the last sample.
Tested ==
  \/ \E k \in TestTasks :
       task[k].step = "testing" /\ task[k].start < speedNow /\ speedPrev.at < speedNow
  \/ \E k \in TestTasks :
       task[k].step = "finished" /\ task[k].end > speedPrev.at /\ task[k].end > task[k].start
  \/ failed > speedPrev.at
  \/ \E w \in windows : w.end > speedPrev.at

OthersAreCounted ==
  speedPrev # SpeedTest!Never =>
    /\ counter <= speedPrev.count + others + ours
    /\ resets = 0 => counter = speedPrev.count + others + ours
    /\ ours > 0 => Tested

SpeedInv == SpeedType /\ OneTestRuns /\ TestsTakeTime /\ OthersAreCounted

\* The larger and the smaller of two numbers.
LEMMA TwoNumbers ==
  ASSUME NEW x \in Int, NEW y \in Int
  PROVE  /\ SpeedTest!Max({x, y}) = IF x >= y THEN x ELSE y
         /\ SpeedTest!Min({x, y}) = IF x <= y THEN x ELSE y
<1>1. \E m \in {x, y} : \A n \in {x, y} : m >= n OBVIOUS
<1>2. \E m \in {x, y} : \A n \in {x, y} : m <= n OBVIOUS
<1>3. SpeedTest!Max({x, y}) = IF x >= y THEN x ELSE y BY <1>1 DEF SpeedTest!Max
<1>4. SpeedTest!Min({x, y}) = IF x <= y THEN x ELSE y BY <1>2 DEF SpeedTest!Min
<1>5. QED BY <1>3, <1>4

\* How long two intervals of time overlap.
LEMMA OverlapFacts ==
  ASSUME NEW from \in Int, NEW to \in Int, NEW begin \in Int, NEW end \in Int
  PROVE  /\ SpeedTest!Overlap(from, to, begin, end) \in Nat
         /\ begin < end /\ end <= to /\ from < end => SpeedTest!Overlap(from, to, begin, end) > 0
<1> DEFINE l == SpeedTest!Min({to, end})
           m == SpeedTest!Max({from, begin})
<1>1. l = (IF to <= end THEN to ELSE end) /\ m = IF from >= begin THEN from ELSE begin
  BY TwoNumbers
<1>2. SpeedTest!Overlap(from, to, begin, end) = SpeedTest!Max({0, l - m})
  BY DEF SpeedTest!Overlap
<1> HIDE DEF l, m
<1>3. l - m \in Int /\ 0 \in Int BY <1>1
<1>4. SpeedTest!Max({0, l - m}) = IF 0 >= l - m THEN 0 ELSE l - m BY <1>3, TwoNumbers
<1>5. QED BY <1>1, <1>2, <1>4

\* A set of numbers that is not empty has a least one.
LEMMA Least ==
  ASSUME NEW S \in SUBSET Nat, S # {}
  PROVE  \E m \in S : \A n \in S : m <= n
<1> DEFINE R == OpToRel(<, Nat)
<1>1. IsWellFoundedOn(R, Nat) BY NatLessThanWellFounded
<1>2. \E m \in S : \A n \in S : <<n, m>> \notin R
  <2> HIDE DEF R
  <2>1. QED BY <1>1, WFMin
<1>3. \A m, n \in Nat : <<n, m>> \notin R => m <= n BY DEF OpToRel
<1>4. QED BY <1>2, <1>3

\* Transfers without a share have none together.
LEMMA NoShare ==
  ASSUME IsFiniteSet(windows), NEW from, NEW to,
         \A w \in windows : SpeedTest!Share(w, from, to) = 0
  PROVE  SpeedTest!SelfBytes(from, to) = 0
<1> DEFINE one(s) == CHOOSE w \in s : TRUE
           sums(g) == [s \in SUBSET windows |->
                         IF s = {} THEN 0
                         ELSE SpeedTest!Share(one(s), from, to) + g[s \ {one(s)}]]
           sum == CHOOSE g : g = sums(g)
           zero == [s \in SUBSET windows |-> 0]
<1>1. SpeedTest!SelfBytes(from, to) = sum[windows]
  BY DEF SpeedTest!SelfBytes, SpeedTest!MapThenSumSet, SpeedTest!MapThenFoldSet
<1>2. \A s \in SUBSET windows : s # {} =>
        /\ one(s) \in s /\ SpeedTest!Share(one(s), from, to) = 0
        /\ s \ {one(s)} \in SUBSET windows
  OBVIOUS
<1>3. zero = sums(zero)
  <2> HIDE DEF one
  <2>1. \A s \in SUBSET windows : sums(zero)[s] = 0 BY <1>2
  <2>2. QED BY <2>1
<1>4. sum = sums(sum)
  <2> HIDE DEF zero, sums
  <2>1. \E g : g = sums(g) BY <1>3
  <2>2. QED BY <2>1
<1> HIDE DEF sum, one
<1>5. \A s \in SUBSET windows :
        sum[s] = IF s = {} THEN 0
                 ELSE SpeedTest!Share(one(s), from, to) + sum[s \ {one(s)}]
  BY <1>4
<1> DEFINE wrong == {s \in SUBSET windows : sum[s] # 0}
           sizes == {Cardinality(s) : s \in wrong}
<1>6. \A s \in SUBSET windows : IsFiniteSet(s) /\ Cardinality(s) \in Nat
  BY FS_Subset, FS_CardinalityType
<1>7. ASSUME wrong # {} PROVE FALSE
  <2>1. sizes \in SUBSET Nat /\ sizes # {} BY <1>6, <1>7
  <2>2. PICK s \in wrong : \A t \in wrong : Cardinality(s) <= Cardinality(t)
    <3>1. PICK m \in sizes : \A n \in sizes : m <= n BY <2>1, Least
    <3>2. QED BY <3>1
  <2>3. s \in SUBSET windows /\ sum[s] # 0 OBVIOUS
  <2>4. s # {} BY <1>5, <2>3
  <2>5. /\ one(s) \in s /\ SpeedTest!Share(one(s), from, to) = 0
        /\ s \ {one(s)} \in SUBSET windows
    BY <1>2, <2>3, <2>4
  <2>6. Cardinality(s \ {one(s)}) = Cardinality(s) - 1
    BY <1>6, <2>3, <2>5, FS_RemoveElement
  <2>7. sum[s \ {one(s)}] = 0 BY <1>6, <2>2, <2>3, <2>5, <2>6
  <2>8. sum[s] = 0 + 0 BY <1>5, <2>3, <2>4, <2>5, <2>7
  <2>9. QED BY <2>3, <2>8
<1>8. windows \in SUBSET windows OBVIOUS
<1>9. QED BY <1>1, <1>7, <1>8

\* A step that changes what one task is doing, and neither samples nor records.
LEMMA TaskStep ==
  ASSUME SpeedInv, NEW k \in TestTasks, NEW t \in TaskStates,
         task' = [task EXCEPT ![k] = t], running' \in BOOLEAN,
         UNCHANGED <<speedNow, counter, speedPrev, windows, others, ours, failed, resets>>,
         OneTestRuns',
         t.step = "testing" => t.start = speedNow /\ t.bytes = 0,
         t.step = "finished" => t.end = speedNow /\ (t.bytes # 0 => t.start < speedNow),
         task[k].step # "finished",
         task[k].step = "testing" => t.step = "finished" /\ t.start = task[k].start
  PROVE  SpeedInv'
<1> USE DEF SpeedInv
<1>1. task'[k] = t /\ \A j \in TestTasks \ {k} : task'[j] = task[j] BY DEF SpeedType
<1>2. SpeedType' BY DEF SpeedType
<1>3. TestsTakeTime'
  <2>1. speedNow \in Nat /\ t.start \in Nat BY DEF SpeedType, TaskStates
  <2>2. QED BY <1>1, <2>1 DEF TestsTakeTime
<1>4. Tested => Tested'
  <2>1. CASE \E j \in TestTasks :
               /\ task[j].step = "testing" /\ task[j].start < speedNow
               /\ speedPrev.at < speedNow
    BY <1>1, <2>1 DEF Tested
  <2>2. CASE \E j \in TestTasks :
               /\ task[j].step = "finished" /\ task[j].end > speedPrev.at
               /\ task[j].end > task[j].start
    BY <1>1, <2>2 DEF Tested
  <2>3. CASE failed > speedPrev.at \/ \E w \in windows : w.end > speedPrev.at
    BY <2>3 DEF Tested
  <2>4. QED BY <2>1, <2>2, <2>3 DEF Tested
<1>5. OthersAreCounted' BY <1>4 DEF OthersAreCounted
<1>6. QED BY <1>2, <1>3, <1>5

\* The steps of a task before its transfer is recorded.
LEMMA TaskSteps ==
  ASSUME SpeedInv, NEW k \in TestTasks,
         \/ SpeedTest!Check(k) \/ SpeedTest!Refuse(k) \/ SpeedTest!Run(k) \/ SpeedTest!Finish(k)
  PROVE  SpeedInv'
<1> USE DEF SpeedInv
<1>1. task[k] \in TaskStates /\ task \in [TestTasks -> TaskStates] /\ speedNow \in Nat
  BY DEF SpeedType
<1>2. UNCHANGED <<speedNow, counter, speedPrev, windows, others, ours, failed, resets>>
  BY
    DEF SpeedTest!Check, SpeedTest!Refuse, SpeedTest!Run, SpeedTest!Finish, SpeedTest!sampling
<1>3. CASE SpeedTest!Check(k)
  <2> DEFINE t == [task[k] EXCEPT !.step = "checked"]
  <2>1. t \in TaskStates /\ t.step = "checked" BY <1>1 DEF TaskStates
  <2>2. /\ task' = [task EXCEPT ![k] = t] /\ task[k].step = "idle" /\ running' = running
    BY <1>1, <1>3 DEF SpeedTest!Check
  <2> HIDE DEF t
  <2>3. OneTestRuns' BY <1>1, <2>1, <2>2 DEF OneTestRuns
  <2>4. running' \in BOOLEAN BY <2>2 DEF SpeedType
  <2>5. QED BY <1>2, <2>1, <2>2, <2>3, <2>4, TaskStep
<1>4. CASE SpeedTest!Refuse(k)
  <2> DEFINE t == SpeedTest!Resting
  <2>1. t \in TaskStates /\ t.step = "idle" BY DEF TaskStates, SpeedTest!Resting
  <2>2. /\ task' = [task EXCEPT ![k] = t] /\ task[k].step = "checked" /\ running' = running
    BY <1>4 DEF SpeedTest!Refuse
  <2> HIDE DEF t
  <2>3. OneTestRuns' BY <1>1, <2>1, <2>2 DEF OneTestRuns
  <2>4. running' \in BOOLEAN BY <2>2 DEF SpeedType
  <2>5. QED BY <1>2, <2>1, <2>2, <2>3, <2>4, TaskStep
<1>5. CASE SpeedTest!Run(k)
  <2> DEFINE t == [step |-> "testing", start |-> speedNow, end |-> speedNow, bytes |-> 0]
  <2>1. t \in TaskStates /\ t.step = "testing" /\ t.start = speedNow /\ t.bytes = 0
    BY <1>1 DEF TaskStates
  <2>2. /\ task' = [task EXCEPT ![k] = t] /\ task[k].step = "checked" /\ ~running
        /\ running' = TRUE
    BY <1>5 DEF SpeedTest!Run
  <2> HIDE DEF t
  <2>3. OneTestRuns' BY <1>1, <2>1, <2>2 DEF OneTestRuns
  <2>4. QED BY <1>2, <2>1, <2>2, <2>3, TaskStep
<1>6. CASE SpeedTest!Finish(k)
  <2> DEFINE t == [task[k] EXCEPT !.step = "finished", !.end = speedNow]
  <2>1. /\ t \in TaskStates /\ t.step = "finished" /\ t.end = speedNow
        /\ t.start = task[k].start /\ t.bytes = task[k].bytes
    BY <1>1 DEF TaskStates
  <2>2. task' = [task EXCEPT ![k] = t] /\ task[k].step = "testing" /\ running' = FALSE
    BY <1>1, <1>6 DEF SpeedTest!Finish
  <2> HIDE DEF t
  <2>3. OneTestRuns' BY <1>1, <2>1, <2>2 DEF OneTestRuns
  <2>4. t.bytes # 0 => t.start < speedNow BY <2>1, <2>2 DEF TestsTakeTime
  <2>5. QED BY <1>2, <2>1, <2>2, <2>3, <2>4, TaskStep
<1>7. QED BY <1>3, <1>4, <1>5, <1>6

\* A transfer is recorded, or a failure that has none.  What is dropped for its age ended
\* before the one that is recorded.
LEMMA RecordStep ==
  ASSUME SpeedInv, NEW k \in TestTasks, SpeedTest!Record(k) PROVE SpeedInv'
<1> USE DEF SpeedInv
<1> DEFINE new == [start |-> task[k].start, end |-> task[k].end, bytes |-> task[k].bytes]
<1>1. /\ task[k] \in TaskStates /\ task \in [TestTasks -> TaskStates] /\ speedNow \in Nat
      /\ task[k].step = "finished" /\ task[k].end = speedNow
      /\ task[k].bytes # 0 => task[k].start < speedNow
  BY DEF SpeedType, TestsTakeTime, SpeedTest!Record
<1>2. /\ windows' = SpeedTest!Recorded(task[k].start, task[k].end, task[k].bytes)
      /\ task' = [task EXCEPT ![k] = SpeedTest!Resting]
      /\ failed' = (IF task[k].bytes = 0 /\ task[k].end > task[k].start
                    THEN task[k].end ELSE failed)
      /\ UNCHANGED <<speedNow, counter, speedPrev, running, others, ours, resets>>
  BY DEF SpeedTest!Record
<1>3. SpeedTest!Resting \in TaskStates /\ SpeedTest!Resting.step = "idle"
  BY DEF TaskStates, SpeedTest!Resting
<1>4. /\ task'[k].step = "idle" /\ \A j \in TestTasks \ {k} : task'[j] = task[j]
      /\ task' \in [TestTasks -> TaskStates]
  BY <1>1, <1>2, <1>3
<1>5. /\ new \in TransferRecords /\ new.start = task[k].start /\ new.end = speedNow
  BY <1>1 DEF TransferRecords, TaskStates
<1>6. /\ task[k].bytes = 0 => windows' = windows
      /\ task[k].bytes # 0 =>
           windows' = {w \in windows \cup {new} : w.end > speedNow - Retain}
  BY <1>2 DEF SpeedTest!Recorded
<1> HIDE DEF new
<1>7. windows' \subseteq windows \cup {new} BY <1>6
<1>8. task[k].bytes # 0 => new \in windows'
  <2>1. speedNow > speedNow - Retain BY <1>1, SpeedAssumption
  <2>2. QED BY <1>5, <1>6, <2>1
<1>9. SpeedType'
  <2>1. IsFiniteSet(windows')
    <3>1. IsFiniteSet(windows \cup {new}) BY FS_AddElement DEF SpeedType
    <3>2. QED BY <1>7, <3>1, FS_Subset
  <2>2. windows' \in SUBSET TransferRecords BY <1>5, <1>7 DEF SpeedType
  <2>3. failed' \in Int /\ failed' <= speedNow BY <1>1, <1>2 DEF SpeedType
  <2>4. QED BY <1>2, <1>4, <2>1, <2>2, <2>3 DEF SpeedType
<1>10. OneTestRuns' BY <1>1, <1>2, <1>4 DEF OneTestRuns
<1>11. TestsTakeTime'
  <2>1. \A w \in windows' : w.start < w.end /\ w.end <= speedNow
    <3>1. CASE task[k].bytes = 0
      BY <1>6, <3>1 DEF TestsTakeTime
    <3>2. CASE task[k].bytes # 0
      BY <1>1, <1>5, <1>7, <3>2 DEF TestsTakeTime
    <3>3. QED BY <3>1, <3>2
  <2>2. QED BY <1>2, <1>4, <2>1 DEF TestsTakeTime
<1>12. Tested => Tested'
  <2>1. /\ speedPrev.at \in Int /\ failed \in Int /\ failed <= speedNow
        /\ \A w \in windows : w.end \in Int /\ w.end <= speedNow
    BY DEF SpeedType, TestsTakeTime, TransferRecords
  <2>2. CASE \E j \in TestTasks :
               /\ task[j].step = "testing" /\ task[j].start < speedNow
               /\ speedPrev.at < speedNow
    BY <1>1, <1>2, <1>4, <2>2 DEF Tested
  <2>3. CASE \E j \in TestTasks \ {k} :
               /\ task[j].step = "finished" /\ task[j].end > speedPrev.at
               /\ task[j].end > task[j].start
    BY <1>2, <1>4, <2>3 DEF Tested
  <2>4. CASE task[k].end > speedPrev.at /\ task[k].end > task[k].start
    <3>1. CASE task[k].bytes = 0
      BY <1>2, <2>4, <3>1 DEF Tested
    <3>2. CASE task[k].bytes # 0
      BY <1>1, <1>2, <1>5, <1>8, <2>4, <3>2 DEF Tested
    <3>3. QED BY <3>1, <3>2
  <2>5. CASE failed > speedPrev.at
    BY <1>1, <1>2, <2>1, <2>5 DEF Tested
  <2>6. CASE \E w \in windows : w.end > speedPrev.at
    <3>1. CASE task[k].bytes = 0
      BY <1>2, <1>6, <2>6, <3>1 DEF Tested
    <3>2. CASE task[k].bytes # 0
      <4>1. speedNow > speedPrev.at BY <1>1, <2>1, <2>6
      <4>2. QED BY <1>2, <1>5, <1>8, <3>2, <4>1 DEF Tested
    <3>3. QED BY <3>1, <3>2
  <2>7. QED BY <2>2, <2>3, <2>4, <2>5, <2>6 DEF Tested
<1>13. OthersAreCounted' BY <1>2, <1>12 DEF OthersAreCounted
<1>14. QED BY <1>9, <1>10, <1>11, <1>13

\* Time passes: what a running test receives is not the others'.
LEMMA TickStep == ASSUME SpeedInv, SpeedTest!Tick PROVE SpeedInv'
<1> USE DEF SpeedInv
<1>1. /\ speedNow' = speedNow + 1 /\ \A k \in TestTasks : task[k].step # "finished"
      /\ UNCHANGED <<speedPrev, windows, running, failed, resets>>
  BY DEF SpeedTest!Tick, SpeedTest!sampling
<1>2. PICK received \in {0, 1}, tested \in {IF running THEN TestRate ELSE 0} :
        /\ others' = others + received /\ ours' = ours + tested
        /\ counter' = counter + received + tested
  BY DEF SpeedTest!Tick
<1>3. task' = [k \in TestTasks |->
                 IF task[k].step = "testing" /\ speedNow >= task[k].start + TestWarmup
                 THEN [task[k] EXCEPT !.bytes = @ + TestRate] ELSE task[k]]
  BY DEF SpeedTest!Tick
<1>4. speedNow \in Nat /\ speedNow' \in Nat /\ TestRate \in Nat
  BY <1>1, SpeedAssumption DEF SpeedType
<1>5. ASSUME NEW k \in TestTasks
      PROVE  /\ task'[k] \in TaskStates /\ task'[k].step = task[k].step
             /\ task'[k].start = task[k].start /\ task'[k].end = task[k].end
             /\ task[k].start \in Nat
  <2>1. task[k] \in TaskStates BY DEF SpeedType
  <2>2. task[k].bytes + TestRate \in Nat BY <1>4, <2>1 DEF TaskStates
  <2>3. \A n \in Nat :
          /\ [task[k] EXCEPT !.bytes = n] \in TaskStates
          /\ [task[k] EXCEPT !.bytes = n].step = task[k].step
          /\ [task[k] EXCEPT !.bytes = n].start = task[k].start
          /\ [task[k] EXCEPT !.bytes = n].end = task[k].end
    BY <2>1 DEF TaskStates
  <2>4. task'[k] = [task[k] EXCEPT !.bytes = task[k].bytes + TestRate] \/ task'[k] = task[k]
    BY <1>3
  <2>5. task[k].start \in Nat BY <2>1 DEF TaskStates
  <2>6. QED BY <2>1, <2>2, <2>3, <2>4, <2>5
<1>6. DOMAIN task' = TestTasks /\ task' \in [TestTasks -> TaskStates] BY <1>3, <1>5
<1>7. SpeedType'
  <2>1. counter' \in Nat /\ others' \in Nat /\ ours' \in Nat BY <1>2, <1>4 DEF SpeedType
  <2>2. failed <= speedNow' /\ speedPrev.at <= speedNow' BY <1>1, <1>4 DEF SpeedType
  <2>3. QED BY <1>1, <1>4, <1>6, <2>1, <2>2 DEF SpeedType
<1>8. OneTestRuns' BY <1>1, <1>5 DEF OneTestRuns
<1>9. TestsTakeTime'
  <2>1. \A w \in windows : w.end \in Int BY DEF SpeedType, TransferRecords
  <2>2. \A w \in windows : w.start < w.end /\ w.end <= speedNow'
    BY <1>1, <1>4, <2>1 DEF TestsTakeTime
  <2>3. \A k \in TestTasks : task[k].step = "testing" => task[k].start < speedNow'
    BY <1>1, <1>4, <1>5 DEF TestsTakeTime
  <2>4. QED BY <1>1, <1>5, <2>2, <2>3, <1>4 DEF TestsTakeTime
<1>10. CASE running
  <2>1. PICK k \in TestTasks : task[k].step = "testing" BY <1>10 DEF OneTestRuns
  <2>2. task'[k].step = "testing" /\ task'[k].start < speedNow'
    BY <1>1, <1>4, <1>5, <2>1 DEF TestsTakeTime
  <2>3. speedPrev'.at < speedNow' BY <1>1, <1>4 DEF SpeedType
  <2>4. Tested' BY <2>2, <2>3 DEF Tested
  <2>5. /\ counter \in Nat /\ others \in Nat /\ ours \in Nat /\ speedPrev.count \in Nat
        /\ received \in Nat /\ tested \in Nat
    BY <1>4 DEF SpeedType
  <2>6. OthersAreCounted' BY <1>1, <1>2, <2>4, <2>5 DEF OthersAreCounted
  <2>7. QED BY <1>7, <1>8, <1>9, <2>6
<1>11. CASE ~running
  <2>1. counter' = counter + received /\ others' = others + received /\ ours' = ours
    BY <1>2, <1>11 DEF SpeedType
  <2>2. Tested => Tested'
    <3>1. \A k \in TestTasks : task[k].step \notin {"testing", "finished"}
      BY <1>1, <1>11 DEF OneTestRuns
    <3>2. QED BY <1>1, <3>1 DEF Tested
  <2>3. counter \in Nat /\ others \in Nat /\ ours \in Nat /\ speedPrev.count \in Nat
    BY DEF SpeedType
  <2>4. OthersAreCounted' BY <1>1, <2>1, <2>2, <2>3 DEF OthersAreCounted
  <2>5. QED BY <1>7, <1>8, <1>9, <2>4
<1>12. QED BY <1>10, <1>11

\* The counter is reset, and only smaller for that.
LEMMA ResetStep == ASSUME SpeedInv, SpeedTest!Reset PROVE SpeedInv'
<1> USE DEF SpeedInv
<1>1. /\ counter' = 0 /\ resets' = resets + 1
      /\ UNCHANGED <<speedNow, speedPrev, windows, task, running, others, ours, failed>>
  BY DEF SpeedTest!Reset, SpeedTest!sampling
<1>2. resets' \in Nat /\ resets' # 0 BY <1>1 DEF SpeedType
<1>3. SpeedType' BY <1>1, <1>2 DEF SpeedType
<1>4. OneTestRuns' /\ TestsTakeTime' BY <1>1 DEF OneTestRuns, TestsTakeTime
<1>5. Tested => Tested' BY <1>1 DEF Tested
<1>6. counter' \in Nat /\ others \in Nat /\ ours \in Nat /\ speedPrev.count \in Nat
  BY <1>3 DEF SpeedType
<1>7. counter' <= speedPrev.count + others + ours BY <1>1, <1>6
<1>8. speedPrev # SpeedTest!Never /\ ours > 0 => Tested BY DEF OthersAreCounted
<1>9. OthersAreCounted' BY <1>1, <1>2, <1>5, <1>7, <1>8 DEF OthersAreCounted
<1>10. QED BY <1>3, <1>4, <1>9

\* A sample begins to count anew.
LEMMA SampleStep == ASSUME SpeedInv, SpeedTest!Sample PROVE SpeedInv'
<1> USE DEF SpeedInv
<1>1. /\ speedPrev' = [at |-> speedNow, count |-> counter] /\ others' = 0
      /\ ours' = 0 /\ windows' \subseteq windows
      /\ UNCHANGED <<speedNow, counter, task, running, failed, resets>>
  BY DEF SpeedTest!Sample
<1>2. speedPrev'.at = speedNow /\ speedPrev'.count = counter BY <1>1
<1>3. IsFiniteSet(windows') BY <1>1, FS_Subset DEF SpeedType
<1>4. SpeedType' BY <1>1, <1>2, <1>3 DEF SpeedType
<1>5. OneTestRuns' BY <1>1 DEF OneTestRuns
<1>6. TestsTakeTime' BY <1>1 DEF TestsTakeTime
<1>7. OthersAreCounted' BY <1>1, <1>2 DEF OthersAreCounted, SpeedType
<1>8. QED BY <1>4, <1>5, <1>6, <1>7

\* The other components leave the speed tests alone.
LEMMA SpeedStep == SpeedInv /\ [Next]_vars => SpeedInv'
<1> SUFFICES ASSUME SpeedInv, [Next]_vars PROVE SpeedInv' OBVIOUS
<1>1. CASE UNCHANGED speedVars
  <2>1. UNCHANGED <<speedNow, counter, speedPrev, task, running, windows, others, ours,
                    failed, resets>>
    BY <1>1 DEF speedVars
  <2>2. QED
    BY <2>1 DEF SpeedInv, SpeedType, OneTestRuns, TestsTakeTime, OthersAreCounted, Tested
<1>2. CASE SpeedTest!Next
  BY <1>2, TickStep, ResetStep, SampleStep, TaskSteps, RecordStep DEF SpeedTest!Next
<1>3. QED BY <1>1, <1>2 DEF Next, vars

\* There was no sample at first, and no test.
LEMMA SpeedStarts == Init => SpeedInv
<1> SUFFICES ASSUME Init PROVE SpeedInv OBVIOUS
<1>1. /\ speedNow = 0 /\ counter = 0 /\ speedPrev = SpeedTest!Never /\ running = FALSE
      /\ task = [k \in TestTasks |-> SpeedTest!Resting]
      /\ windows = {} /\ others = 0 /\ ours = 0 /\ failed = 0 /\ resets = 0
  BY DEF Init, SpeedTest!Init
<1>2. SpeedTest!Resting \in TaskStates /\ SpeedTest!Resting.step = "idle"
  BY DEF TaskStates, SpeedTest!Resting
<1>3. speedPrev.at = -1 /\ speedPrev.count = 0 BY <1>1 DEF SpeedTest!Never
<1>4. IsFiniteSet(windows) BY <1>1, FS_EmptySet
<1>5. SpeedType
  <2>1. task \in [TestTasks -> TaskStates] BY <1>1, <1>2
  <2>2. windows \in SUBSET TransferRecords BY <1>1
  <2>3. counter \in Nat
    BY <1>1 DEF Init, SpeedTest!Init
  <2>6. running \in BOOLEAN BY <1>1
  <2>7. others \in Nat /\ ours \in Nat /\ resets \in Nat /\ failed \in Int /\ speedNow \in Nat
    BY <1>1
  <2>8. failed <= speedNow BY <1>1
  <2>4. speedPrev.at \in Int /\ speedPrev.count \in Nat /\ speedPrev.at <= speedNow
    BY <1>1, <1>3
  <2>5. QED BY <1>4, <2>1, <2>2, <2>3, <2>4, <2>6, <2>7, <2>8 DEF SpeedType
<1>6. OneTestRuns BY <1>1, <1>2 DEF OneTestRuns
<1>7. TestsTakeTime BY <1>1, <1>2 DEF TestsTakeTime
<1>8. OthersAreCounted BY <1>1 DEF OthersAreCounted
<1>9. QED BY <1>5, <1>6, <1>7, <1>8 DEF SpeedInv

\* What a sample publishes is what arrived, and of tests only what is not recorded.
LEMMA SampleIsTrue ==
  ASSUME SpeedInv, SpeedTest!Next, published' # SpeedTest!None
  PROVE  /\ published' <= others + ours
         /\ resets = 0 => published' = others + ours
         /\ ours > 0 => SpeedTest!Unrecorded(speedPrev.at) \/ failed > speedPrev.at
<1> USE DEF SpeedInv
<1>1. SpeedTest!Sample
  BY DEF SpeedTest!Next, SpeedTest!Tick, SpeedTest!Reset, SpeedTest!Check, SpeedTest!Refuse,
    SpeedTest!Run, SpeedTest!Finish, SpeedTest!Record, SpeedTest!None
<1> DEFINE own == SpeedTest!SelfBytes(speedPrev.at, speedNow)
<1>2. /\ speedPrev # SpeedTest!Never /\ speedNow # speedPrev.at /\ counter >= speedPrev.count
      /\ ~SpeedTest!SelfActive(speedPrev.at, speedNow)
      /\ published' = SpeedTest!Max({0, counter - speedPrev.count - own})
  BY <1>1 DEF SpeedTest!Sample, SpeedTest!None
<1>3. /\ speedNow \in Int /\ speedPrev.at \in Int /\ counter \in Int /\ speedPrev.count \in Int
      /\ others \in Int /\ ours \in Int
  BY DEF SpeedType
<1>4. ASSUME NEW w \in windows
      PROVE  ~(w.end > speedPrev.at) /\ SpeedTest!Share(w, speedPrev.at, speedNow) = 0
  <2>1. /\ w.start \in Int /\ w.end \in Int /\ w.bytes \in Int /\ w.start < w.end
        /\ w.end <= speedNow
    BY DEF SpeedType, TransferRecords, TestsTakeTime
  <2>2. ~(SpeedTest!Overlap(speedPrev.at, speedNow, w.start, w.end) > 0)
    BY <1>2 DEF SpeedTest!SelfActive
  <2>3. SpeedTest!Overlap(speedPrev.at, speedNow, w.start, w.end) \in Nat
    BY <1>3, <2>1, OverlapFacts
  <2>4. SpeedTest!Overlap(speedPrev.at, speedNow, w.start, w.end) = 0 BY <2>2, <2>3
  <2>5. ~(w.end > speedPrev.at) BY <1>3, <2>1, <2>2, OverlapFacts
  <2>6. /\ w.bytes * 0 = 0 /\ \A d \in Nat \ {0} : 0 \div d = 0
        /\ w.end - w.start \in Nat \ {0}
    BY <2>1
  <2>7. SpeedTest!Share(w, speedPrev.at, speedNow) = 0
    BY <2>4, <2>6 DEF SpeedTest!Share
  <2>8. QED BY <2>5, <2>7
<1>5. own = 0 BY <1>4, NoShare DEF SpeedType
<1> HIDE DEF own
<1>6. ASSUME ours > 0 PROVE SpeedTest!Unrecorded(speedPrev.at) \/ failed > speedPrev.at
  <2>1. Tested BY <1>2, <1>6 DEF OthersAreCounted
  <2>2. QED BY <1>4, <2>1 DEF Tested, SpeedTest!Unrecorded
<1>7. /\ counter <= speedPrev.count + others + ours
      /\ resets = 0 => counter = speedPrev.count + others + ours
  BY <1>2 DEF OthersAreCounted
<1>8. published' = counter - speedPrev.count
  <2>1. counter - speedPrev.count - own = counter - speedPrev.count
        /\ counter - speedPrev.count \in Int /\ 0 \in Int
    BY <1>3, <1>5
  <2>2. SpeedTest!Max({0, counter - speedPrev.count})
          = IF 0 >= counter - speedPrev.count THEN 0 ELSE counter - speedPrev.count
    BY <2>1, TwoNumbers
  <2>3. QED BY <1>2, <1>3, <2>1, <2>2
<1>9. QED BY <1>3, <1>6, <1>7, <1>8

\* A rate published for anomaly detection is what arrived in its interval, and what a test
\* received shows in it only while the test is under way or not yet recorded, or when it
\* failed with nothing to record: for any tasks that test, any rate, warm-up and retention.
\* (SelfTraffic, trafficMonitor.run, speedMonitor.run)
THEOREM SpecOnlyUnrecordedTestsShow == Spec => OnlyUnrecordedTestsShow
<1>1. SpeedInv /\ [Next]_vars =>
        [published' # SpeedTest!None =>
           /\ published' <= others + ours
           /\ resets = 0 => published' = others + ours
           /\ ours > 0 => \/ SpeedTest!Unrecorded(speedPrev.at)
                          \/ failed > speedPrev.at]_(SpeedTest!vars)
  <2> SUFFICES ASSUME SpeedInv, [Next]_vars
      PROVE  [published' # SpeedTest!None =>
                /\ published' <= others + ours
                /\ resets = 0 => published' = others + ours
                /\ ours > 0 => \/ SpeedTest!Unrecorded(speedPrev.at)
                               \/ failed > speedPrev.at]_(SpeedTest!vars)
    OBVIOUS
  <2>1. CASE UNCHANGED speedVars
    BY <2>1 DEF speedVars, SpeedTest!vars, SpeedTest!sampling
  <2>2. CASE SpeedTest!Next
    BY <2>2, SampleIsTrue
  <2>3. QED BY <2>1, <2>2 DEF Next, vars
<1>2. QED
  BY <1>1, SpeedStarts, SpeedStep, PTL
    DEF Spec, OnlyUnrecordedTestsShow, SpeedTest!OnlyUnrecordedTestsShow

-----------------------------------------------------------------------------
(***************************************************************************)
(* A transfer.  While it is measured, what is counted and what is being    *)
(* added are together what was transferred since the measurement began,    *)
(* but for the buffers that were being added then.  And from the moment    *)
(* the cap is met the clock stands still, so that each stream moves one    *)
(* buffer more at most.                                                    *)
(***************************************************************************)
StreamStates ==
  [step : {"requesting", "moving", "adding", "answering", "waiting", "ended"},
   left : Int, retries : Int, full : BOOLEAN, error : BOOLEAN]

Adding == {i \in Streams : stream[i].step = "adding"}

TransferType ==
  /\ transferPhase \in {"warmup", "measuring", "stopped", "returned"}
  /\ stream \in [Streams -> StreamStates]
  /\ moved \subseteq Streams
  /\ transferNow \in Nat /\ start \in Int
  /\ total \in Int /\ counted \in Int /\ atStart \in Int /\ atEnd \in Int
  /\ capHit \in BOOLEAN
  /\ DOMAIN result = {"bytes", "duration", "capped", "failed"} /\ result.bytes \in Int

Counting ==
  /\ transferPhase = "warmup" => start = -1
  /\ transferPhase = "measuring" =>
       /\ counted + Cardinality(Adding) >= total - atStart
       /\ counted + Cardinality(Adding) <= total - atStart + Cardinality(Streams)

ResultIsTrue ==
  transferPhase \in {"stopped", "returned"} /\ start # -1 =>
    /\ result.bytes <= atEnd - atStart + Cardinality(Streams)
    /\ result.bytes >= atEnd - atStart - Cardinality(Streams)

CapIsKept ==
  MaxBytes > 0 =>
    /\ total <= MaxBytes + Cardinality(moved)
    /\ total >= MaxBytes => capHit \/ \E i \in Adding : stream[i].full

TransferInv == TransferType /\ Counting /\ ResultIsTrue /\ CapIsKept

\* How many of the streams a set has.
LEMMA StreamsAreFinite ==
  ASSUME NEW S \in SUBSET Streams
  PROVE  /\ IsFiniteSet(S) /\ Cardinality(S) \in Nat /\ Cardinality(Streams) \in Nat
         /\ Cardinality(S) <= Cardinality(Streams)
BY TransferAssumption, FS_Subset, FS_CardinalityType

\* A step of a stream that adds nothing before it and after.
LEMMA QuietStream ==
  ASSUME TransferInv, NEW i \in Streams, NEW s \in StreamStates,
         stream[i].step # "adding", s.step # "adding",
         stream' = [stream EXCEPT ![i] = s],
         moved' = moved \/ moved' = moved \cup {i},
         UNCHANGED <<transferNow, start, transferPhase, total, counted, capHit, result,
                     atStart, atEnd>>
  PROVE  TransferInv'
<1> USE DEF TransferInv
<1>1. TransferType' BY DEF TransferType
<1>2. Adding' = Adding /\ \A j \in Adding : stream'[j] = stream[j]
  BY DEF Adding, TransferType
<1>3. Counting' /\ ResultIsTrue' BY <1>2 DEF Counting, ResultIsTrue
<1>4. Cardinality(moved) <= Cardinality(moved')
  <2>1. moved' \in SUBSET Streams /\ moved \in SUBSET moved' BY DEF TransferType
  <2>2. IsFiniteSet(moved') BY <2>1, StreamsAreFinite
  <2>3. QED BY <2>1, <2>2, FS_Subset
<1>5. CapIsKept'
  <2>1. /\ Cardinality(moved) \in Nat /\ Cardinality(moved') \in Nat
        /\ MaxBytes \in Nat /\ total \in Int /\ total' = total /\ capHit' = capHit
    BY <1>1, StreamsAreFinite, TransferAssumption DEF TransferType
  <2>2. MaxBytes > 0 => total' <= MaxBytes + Cardinality(moved')
    BY <1>4, <2>1 DEF CapIsKept
  <2>3. MaxBytes > 0 /\ total' >= MaxBytes => capHit' \/ \E j \in Adding' : stream'[j].full
    BY <1>2, <2>1 DEF CapIsKept
  <2>4. QED BY <2>2, <2>3 DEF CapIsKept
<1>6. QED BY <1>1, <1>3, <1>5

\* The steps of a stream but for those of the meter.
LEMMA StreamSteps ==
  ASSUME TransferInv, NEW i \in Streams,
         Transfer!Request(i) \/ Transfer!Answer(i) \/ Transfer!Retry(i) \/ Transfer!Break(i)
  PROVE  TransferInv'
<1>1. stream[i] \in StreamStates /\ Chunk \in Int
  BY TransferAssumption DEF TransferInv, TransferType
<1> DEFINE going(t) == [stream[i] EXCEPT !.step = t]
<1>2. \A t \in {"requesting", "answering"} : going(t) \in StreamStates /\ going(t).step # "adding"
  BY <1>1 DEF StreamStates
<1>3. /\ [stream[i] EXCEPT !.step = "moving", !.left = Chunk] \in StreamStates
      /\ [stream[i] EXCEPT !.step = "moving", !.left = Chunk].step = "moving"
  BY <1>1 DEF StreamStates
<1>4. /\ [stream[i] EXCEPT !.step = "waiting", !.retries = @ + 1] \in StreamStates
      /\ [stream[i] EXCEPT !.step = "waiting", !.retries = @ + 1].step = "waiting"
  <2>1. stream[i].retries + 1 \in Int BY <1>1 DEF StreamStates
  <2>2. \A n \in Int : /\ [stream[i] EXCEPT !.step = "waiting", !.retries = n] \in StreamStates
                       /\ [stream[i] EXCEPT !.step = "waiting", !.retries = n].step = "waiting"
    BY <1>1 DEF StreamStates
  <2>3. QED BY <2>1, <2>2
<1>5. \A e \in BOOLEAN :
         /\ [stream[i] EXCEPT !.step = "ended", !.error = e] \in StreamStates
         /\ [stream[i] EXCEPT !.step = "ended", !.error = e].step = "ended"
  BY <1>1 DEF StreamStates
<1>6. CASE Transfer!Request(i)
  <2>1. \E s \in StreamStates : s.step # "adding" /\ stream' = [stream EXCEPT ![i] = s]
    BY <1>2, <1>3, <1>6 DEF Transfer!Request, Transfer!Step, Transfer!Go
  <2>2. QED BY <1>6, <2>1, QuietStream DEF Transfer!Request, Transfer!meter
<1>7. CASE Transfer!Answer(i)
  <2>1. \E s \in StreamStates : s.step # "adding" /\ stream' = [stream EXCEPT ![i] = s]
    BY <1>2, <1>3, <1>4, <1>5, <1>7
      DEF Transfer!Answer, Transfer!Step, Transfer!Go, Transfer!End
  <2>2. QED BY <1>7, <2>1, QuietStream DEF Transfer!Answer, Transfer!meter
<1>8. CASE Transfer!Retry(i)
  <2>1. \E s \in StreamStates : s.step # "adding" /\ stream' = [stream EXCEPT ![i] = s]
    BY <1>2, <1>8 DEF Transfer!Retry, Transfer!Step, Transfer!Go
  <2>2. QED BY <1>8, <2>1, QuietStream DEF Transfer!Retry, Transfer!meter
<1>9. CASE Transfer!Break(i)
  <2>1. \E s \in StreamStates : s.step # "adding" /\ stream' = [stream EXCEPT ![i] = s]
    BY <1>5, <1>9 DEF Transfer!Break, Transfer!Step, Transfer!End
  <2>2. QED BY <1>9, <2>1, QuietStream DEF Transfer!Break, Transfer!meter
<1>10. QED BY <1>6, <1>7, <1>8, <1>9

\* The first half of an addition: the total, and one stream more that adds.
LEMMA MoveStep == ASSUME TransferInv, NEW i \in Streams, Transfer!Move(i) PROVE TransferInv'
<1> USE DEF TransferInv
<1> DEFINE s == [stream[i] EXCEPT !.step = "adding", !.left = @ - 1,
                                  !.full = (MaxBytes > 0 /\ total' >= MaxBytes)]
<1>1. /\ stream[i] \in StreamStates /\ i \notin moved /\ moved' = moved \cup {i}
      /\ total' = total + 1 /\ stream' = [stream EXCEPT ![i] = s]
      /\ stream[i].step = "moving"
      /\ transferPhase # "stopped"
      /\ UNCHANGED <<transferNow, start, transferPhase, counted, capHit, result, atStart, atEnd>>
  BY DEF Transfer!Move, Transfer!Step, Transfer!Cancelled, TransferType
<1>2. s \in StreamStates /\ s.step = "adding" /\ s.full = (MaxBytes > 0 /\ total' >= MaxBytes)
  <2> DEFINE b == (MaxBytes > 0 /\ total' >= MaxBytes)
  <2>1. b \in BOOLEAN OBVIOUS
  <2> HIDE DEF b
  <2>2. [stream[i] EXCEPT !.step = "adding", !.left = @ - 1, !.full = b] \in StreamStates
    <3>1. stream[i].left - 1 \in Int BY <1>1 DEF StreamStates
    <3>2. \A n \in Int :
            [stream[i] EXCEPT !.step = "adding", !.left = n, !.full = b] \in StreamStates
      BY <1>1, <2>1 DEF StreamStates
    <3>3. QED BY <3>1, <3>2
  <2>3. [stream[i] EXCEPT !.step = "adding", !.left = @ - 1, !.full = b].step = "adding"
    BY <1>1 DEF StreamStates
  <2>4. [stream[i] EXCEPT !.step = "adding", !.left = @ - 1, !.full = b].full = b
    BY <1>1 DEF StreamStates
  <2>5. QED BY <2>2, <2>3, <2>4 DEF b
<1> HIDE DEF s
<1>3. TransferType' BY <1>1, <1>2 DEF TransferType
<1>4. Adding' = Adding \cup {i} /\ i \notin Adding /\ stream'[i] = s
  BY <1>1, <1>2 DEF Adding, TransferType
<1>5. /\ Cardinality(Adding') = Cardinality(Adding) + 1 /\ Cardinality(Adding) \in Nat
      /\ Cardinality(moved') = Cardinality(moved) + 1 /\ Cardinality(moved) \in Nat
  <2>1. Adding \in SUBSET Streams /\ moved \in SUBSET Streams BY DEF Adding, TransferType
  <2>2. /\ IsFiniteSet(Adding) /\ IsFiniteSet(moved)
        /\ Cardinality(Adding) \in Nat /\ Cardinality(moved) \in Nat
    BY <2>1, StreamsAreFinite
  <2>3. Cardinality(Adding \cup {i}) = Cardinality(Adding) + 1
    BY <1>4, <2>2, FS_AddElement
  <2>4. Cardinality(moved \cup {i}) = Cardinality(moved) + 1
    BY <1>1, <2>2, FS_AddElement
  <2>5. QED BY <1>1, <1>4, <2>2, <2>3, <2>4
<1>6. Counting'
  <2>1. Cardinality(Streams) \in Nat BY StreamsAreFinite
  <2>2. counted \in Int /\ total \in Int /\ atStart \in Int BY DEF TransferType
  <2>3. CASE transferPhase = "measuring"
    BY <1>1, <1>5, <2>1, <2>2, <2>3 DEF Counting
  <2>4. CASE transferPhase # "measuring"
    BY <1>1, <2>4 DEF Counting
  <2>5. QED BY <2>3, <2>4
<1>7. ResultIsTrue' BY <1>1 DEF ResultIsTrue
<1>8. CapIsKept'
  <2>1. MaxBytes \in Nat /\ total \in Int BY TransferAssumption DEF TransferType
  <2>2. MaxBytes > 0 => total' <= MaxBytes + Cardinality(moved')
    BY <1>1, <1>5, <2>1 DEF CapIsKept
  <2>3. MaxBytes > 0 /\ total' >= MaxBytes => i \in Adding' /\ stream'[i].full
    BY <1>2, <1>4
  <2>4. QED BY <2>2, <2>3 DEF CapIsKept
<1>9. QED BY <1>3, <1>6, <1>7, <1>8

\* The second half: what is counted, and the cap.
LEMMA AddStep == ASSUME TransferInv, NEW i \in Streams, Transfer!Add(i) PROVE TransferInv'
<1> USE DEF TransferInv
<1>1. PICK t \in {"moving", "answering", "requesting"} :
        stream' = [stream EXCEPT ![i] = [stream[i] EXCEPT !.step = t]]
  BY DEF Transfer!Add, Transfer!Step, Transfer!Go
<1>2. /\ stream[i] \in StreamStates /\ stream[i].step = "adding"
      /\ counted' = (IF transferPhase = "measuring" THEN counted + 1 ELSE counted)
      /\ capHit' = (capHit \/ stream[i].full)
      /\ UNCHANGED <<transferNow, start, transferPhase, moved, total, result, atStart, atEnd>>
  BY DEF Transfer!Add, TransferType
<1> DEFINE s == [stream[i] EXCEPT !.step = t]
<1>3. s \in StreamStates /\ s.step = t /\ s.full = stream[i].full BY <1>2 DEF StreamStates
<1>4. stream' = [stream EXCEPT ![i] = s] BY <1>1
<1> HIDE DEF s
<1>5. TransferType' BY <1>2, <1>3, <1>4 DEF TransferType, StreamStates
<1>6. Adding' = Adding \ {i} /\ i \in Adding /\ \A j \in Adding' : stream'[j] = stream[j]
  BY <1>2, <1>3, <1>4 DEF Adding, TransferType
<1>7. Cardinality(Adding') = Cardinality(Adding) - 1 /\ Cardinality(Adding) \in Nat
  <2>1. Adding \in SUBSET Streams BY DEF Adding
  <2>2. IsFiniteSet(Adding) /\ Cardinality(Adding) \in Nat BY <2>1, StreamsAreFinite
  <2>3. QED BY <1>6, <2>2, FS_RemoveElement
<1>8. Counting'
  <2>1. Cardinality(Streams) \in Nat BY StreamsAreFinite
  <2>2. counted \in Int /\ total \in Int /\ atStart \in Int BY DEF TransferType
  <2>3. CASE transferPhase = "measuring"
    BY <1>2, <1>7, <2>1, <2>2, <2>3 DEF Counting
  <2>4. CASE transferPhase # "measuring"
    BY <1>2, <2>4 DEF Counting
  <2>5. QED BY <2>3, <2>4
<1>9. ResultIsTrue' BY <1>2 DEF ResultIsTrue
<1>10. CapIsKept'
  <2>1. ASSUME MaxBytes > 0, total >= MaxBytes, ~capHit'
        PROVE  \E j \in Adding' : stream'[j].full
    <3>1. ~capHit /\ ~stream[i].full BY <1>2, <2>1
    <3>2. PICK j \in Adding : stream[j].full BY <2>1, <3>1 DEF CapIsKept
    <3>3. j \in Adding' BY <1>6, <3>1, <3>2
    <3>4. QED BY <1>6, <3>2, <3>3
  <2>2. QED BY <1>2, <2>1 DEF CapIsKept
<1>11. QED BY <1>5, <1>8, <1>9, <1>10

\* The measurement ends, with a result.
LEMMA StopStep ==
  ASSUME TransferInv, NEW r, DOMAIN r = {"bytes", "duration", "capped", "failed"},
         r.bytes \in Int, Transfer!Stop(r),
         start # -1 => /\ r.bytes <= total - atStart + Cardinality(Streams)
                       /\ r.bytes >= total - atStart - Cardinality(Streams)
  PROVE  TransferInv'
<1> USE DEF TransferInv
<1>1. /\ transferPhase' = "stopped" /\ result' = r /\ atEnd' = total
      /\ UNCHANGED <<transferNow, stream, moved, total, counted, capHit, start, atStart>>
  BY DEF Transfer!Stop, Transfer!meter
<1>2. TransferType' BY <1>1 DEF TransferType
<1>3. Counting' BY <1>1 DEF Counting
<1>4. ResultIsTrue' BY <1>1 DEF ResultIsTrue
<1>5. CapIsKept' BY <1>1 DEF CapIsKept, Adding
<1>6. QED BY <1>2, <1>3, <1>4, <1>5

\* The steps of the clock.
LEMMA ClockSteps ==
  ASSUME TransferInv,
         \/ Transfer!StopInWarmUp \/ Transfer!EndWarmUp \/ Transfer!StopMeasuring
         \/ Transfer!Tick \/ Transfer!Return
  PROVE  TransferInv'
<1> USE DEF TransferInv
<1>1. /\ Adding \in SUBSET Streams /\ Cardinality(Adding) \in Nat /\ Cardinality(Streams) \in Nat
      /\ Cardinality(Adding) <= Cardinality(Streams)
  <2>1. Adding \in SUBSET Streams BY DEF Adding
  <2>2. QED BY <2>1, StreamsAreFinite
<1>2. CASE Transfer!StopInWarmUp
  <2>1. start = -1 BY <1>2 DEF Transfer!StopInWarmUp, Counting
  <2>2. CASE Transfer!Stop(Transfer!NoResult)
    BY <2>1, <2>2, StopStep DEF Transfer!NoResult
  <2>3. CASE Transfer!Stop(Transfer!WarmUpCapped)
    BY <2>1, <2>3, StopStep DEF Transfer!WarmUpCapped, TransferType
  <2>4. QED BY <1>2, <2>2, <2>3 DEF Transfer!StopInWarmUp
<1>3. CASE Transfer!EndWarmUp
  <2>1. /\ transferPhase' = "measuring" /\ start' = transferNow /\ counted' = 0
        /\ atStart' = total
        /\ UNCHANGED <<transferNow, stream, moved, total, capHit, result, atEnd>>
    BY <1>3 DEF Transfer!EndWarmUp
  <2>2. TransferType' BY <2>1 DEF TransferType
  <2>3. Adding' = Adding BY <2>1 DEF Adding
  <2>4. total \in Int BY DEF TransferType
  <2>5. Counting' BY <1>1, <2>1, <2>3, <2>4 DEF Counting
  <2>6. ResultIsTrue' BY <2>1 DEF ResultIsTrue
  <2>7. CapIsKept' BY <2>1, <2>3 DEF CapIsKept
  <2>8. QED BY <2>2, <2>5, <2>6, <2>7
<1>4. CASE Transfer!StopMeasuring
  <2>1. /\ counted \in Int /\ total \in Int /\ atStart \in Int
        /\ counted + Cardinality(Adding) >= total - atStart
        /\ counted + Cardinality(Adding) <= total - atStart + Cardinality(Streams)
    BY <1>4 DEF Transfer!StopMeasuring, TransferType, Counting
  <2>2. /\ counted <= total - atStart + Cardinality(Streams)
        /\ counted >= total - atStart - Cardinality(Streams)
    BY <1>1, <2>1
  <2>3. PICK r : Transfer!Stop(r) /\ DOMAIN r = {"bytes", "duration", "capped", "failed"}
                 /\ r.bytes = counted
    BY <1>4 DEF Transfer!StopMeasuring, Transfer!Measured
  <2>4. QED BY <2>1, <2>2, <2>3, StopStep
<1>5. CASE Transfer!Tick
  <2>1. /\ transferNow' = transferNow + 1 /\ moved' = {} /\ ~capHit /\ Adding = {}
        /\ UNCHANGED <<start, transferPhase, stream, total, counted, capHit, result,
                       atStart, atEnd>>
    BY <1>5 DEF Transfer!Tick, Transfer!Over, Transfer!meter, Adding
  <2>2. TransferType' BY <2>1 DEF TransferType
  <2>3. Adding' = Adding BY <2>1 DEF Adding
  <2>4. Counting' /\ ResultIsTrue' BY <2>1, <2>3 DEF Counting, ResultIsTrue
  <2>5. Cardinality(moved') = 0 BY <2>1, FS_EmptySet
  <2>6. MaxBytes \in Nat /\ total \in Int BY TransferAssumption DEF TransferType
  <2>7. MaxBytes > 0 => total < MaxBytes BY <2>1, <2>6 DEF CapIsKept
  <2>8. CapIsKept' BY <2>1, <2>3, <2>5, <2>6, <2>7 DEF CapIsKept
  <2>9. QED BY <2>2, <2>4, <2>8
<1>6. CASE Transfer!Return
  <2>1. /\ transferPhase = "stopped" /\ transferPhase' = "returned"
        /\ result' = [result EXCEPT !.failed = (result.bytes = 0)]
        /\ UNCHANGED <<transferNow, start, stream, moved, total, counted, capHit,
                       atStart, atEnd>>
    BY <1>6 DEF Transfer!Return, Transfer!meter
  <2>2. DOMAIN result' = DOMAIN result /\ result'.bytes = result.bytes
    BY <2>1 DEF TransferType
  <2>3. TransferType' BY <2>1, <2>2 DEF TransferType
  <2>4. Counting' BY <2>1 DEF Counting
  <2>5. ResultIsTrue' BY <2>1, <2>2 DEF ResultIsTrue
  <2>6. CapIsKept' BY <2>1 DEF CapIsKept, Adding
  <2>7. QED BY <2>3, <2>4, <2>5, <2>6
<1>7. QED BY <1>2, <1>3, <1>4, <1>5, <1>6

\* Nothing was transferred at first.
LEMMA TransferStarts == Init => TransferInv
<1> SUFFICES ASSUME Init PROVE TransferInv OBVIOUS
<1>1. /\ transferNow = 0 /\ moved = {} /\ total = 0 /\ counted = 0 /\ capHit = FALSE
      /\ atStart = 0 /\ atEnd = 0 /\ transferPhase \in {"warmup", "measuring"}
      /\ (transferPhase = "warmup" => start = -1) /\ start \in {-1, 0}
      /\ stream = [i \in Streams |-> [step |-> "requesting", left |-> 0, retries |-> 0,
                                      full |-> FALSE, error |-> FALSE]]
      /\ result = [bytes |-> 0, duration |-> 0, capped |-> FALSE, failed |-> FALSE]
  BY DEF Init, Transfer!Init, Transfer!NoResult, Transfer!NewStream, Transfer!Never
<1>2. TransferType
  <2>1. stream \in [Streams -> StreamStates] BY <1>1 DEF StreamStates
  <2>2. result.bytes = 0 /\ DOMAIN result = {"bytes", "duration", "capped", "failed"}
    BY <1>1
  <2>3. moved \subseteq Streams BY <1>1
  <2>4. start \in Int BY <1>1
  <2>5. capHit \in BOOLEAN BY <1>1
  <2>6. /\ transferNow \in Nat /\ total \in Int /\ counted \in Int /\ atStart \in Int
        /\ atEnd \in Int /\ transferPhase \in {"warmup", "measuring", "stopped", "returned"}
    BY <1>1
  <2>7. QED BY <2>1, <2>2, <2>3, <2>4, <2>5, <2>6 DEF TransferType
<1>3. Adding = {} BY <1>1 DEF Adding
<1>4. /\ Cardinality(Adding) = 0 /\ Cardinality(moved) = 0 /\ Cardinality(Streams) \in Nat
      /\ MaxBytes \in Nat
  BY <1>1, <1>3, FS_EmptySet, StreamsAreFinite, TransferAssumption
<1>5. Counting BY <1>1, <1>4 DEF Counting
<1>6. ResultIsTrue BY <1>1 DEF ResultIsTrue
<1>7. CapIsKept BY <1>1, <1>4 DEF CapIsKept
<1>8. QED BY <1>2, <1>5, <1>6, <1>7 DEF TransferInv

\* The other components leave the transfer alone.
LEMMA TransferStep == TransferInv /\ [Next]_vars => TransferInv'
<1> SUFFICES ASSUME TransferInv, [Next]_vars PROVE TransferInv' OBVIOUS
<1>1. CASE UNCHANGED transferVars
  BY <1>1
    DEF transferVars, TransferInv, TransferType, Counting, ResultIsTrue, CapIsKept, Adding
<1>2. CASE Transfer!Next
  BY <1>2, StreamSteps, MoveStep, AddStep, ClockSteps DEF Transfer!Next
<1>3. QED BY <1>1, <1>2 DEF Next, vars

\* What the property says of the state.
LEMMA TransferInvIsEnough == TransferInv => MeasurementsAreTrue
<1> SUFFICES ASSUME TransferInv PROVE MeasurementsAreTrue OBVIOUS
<1>1. Transfer!Cardinality(Streams) = Cardinality(Streams)
  BY DEF Transfer!Cardinality, Cardinality
<1>2. MaxBytes > 0 => total <= MaxBytes + Cardinality(Streams)
  <2>1. moved \in SUBSET Streams /\ total \in Int BY DEF TransferInv, TransferType
  <2>2. /\ Cardinality(moved) \in Nat /\ Cardinality(Streams) \in Nat /\ MaxBytes \in Nat
        /\ Cardinality(moved) <= Cardinality(Streams)
    BY <2>1, StreamsAreFinite, TransferAssumption
  <2>3. QED BY <2>1, <2>2 DEF TransferInv, CapIsKept
<1>3. QED
  BY <1>1, <1>2 DEF MeasurementsAreTrue, Transfer!MeasurementsAreTrue, Transfer!Never,
    TransferInv, ResultIsTrue

\* A measurement reports what was transferred while it ran, and a transfer stays
\* within its cap and a buffer per stream, for any number of streams, cap, warmup and
\* size of a request (meter.run, countingReader.Read).
THEOREM SpecMeasurementsAreTrue == Spec => []MeasurementsAreTrue
BY TransferStarts, TransferStep, TransferInvIsEnough, PTL DEF Spec

-----------------------------------------------------------------------------
(***************************************************************************)
(* The connections.  Who holds a socket is remembered from the moment a    *)
(* cycle starts, a row that was attributed names such a holder, and the    *)
(* time a key was first seen is after each sample it was not in.           *)
(***************************************************************************)
RowFields == {"first", "last", "samples", "inodes", "process"}

ConnectionsType ==
  /\ connectionsNow \in Nat
  /\ \A i \in DOMAIN sockets : /\ DOMAIN sockets[i] = {"endpoint", "opener", "holders"}
                               /\ sockets[i].holders \subseteq 1..NumPids
  /\ \A r \in raw : DOMAIN r = {"inode", "pid"} /\ r.inode \in DOMAIN sockets
  /\ \A k \in DOMAIN connectionsRows : /\ DOMAIN connectionsRows[k] = RowFields
                                       /\ connectionsRows[k].first \in Int
  /\ \A k \in DOMAIN firstSeen : firstSeen[k] \in Int
  /\ \A s \in collected : s.time \in Int

HoldersAreHeld == \A i \in DOMAIN sockets : \A p \in sockets[i].holders : <<i, p>> \in held

RawIsHeld == \A r \in raw : r.pid # 0 => <<r.inode, r.pid>> \in held

LatestIsHeld ==
  connectionsPhase = "store" =>
    \A c \in latest.conns : c.key[2] # 0 => <<c.inode, c.key[2]>> \in held

SamplesArePast ==
  \A s \in collected :
    /\ s.time <= connectionsNow
    /\ connectionsPhase \in {"tcp", "tcp6", "scan", "collect"} => s.time < connectionsNow

AgesAreSeen ==
  /\ \A k \in DOMAIN firstSeen :
       /\ firstSeen[k] <= connectionsNow
       /\ \A s \in collected : firstSeen[k] <= s.time => k \in s.keys
  /\ \A c \in latest.conns : c.key \in DOMAIN firstSeen /\ c.first = firstSeen[c.key]

RowsAreOlder ==
  /\ \A k \in DOMAIN connectionsRows :
       /\ connectionsRows[k].first <= connectionsNow
       /\ k \in DOMAIN firstSeen => connectionsRows[k].first <= firstSeen[k]
  /\ connectionsPhase = "deliver" =>
       \A c \in latest.conns : c.key \in DOMAIN connectionsRows

ConnectionsInv ==
  /\ ConnectionsType /\ HoldersAreHeld /\ RawIsHeld /\ LatestIsHeld
  /\ SamplesArePast /\ AgesAreSeen /\ RowsAreOlder

\* What is kept between the samples, when it is left as it is.
LEMMA KeptStays ==
  ASSUME ConnectionsInv,
         UNCHANGED <<firstSeen, latest, connectionsRows, collected, connectionsNow>>,
         connectionsPhase' # "deliver" \/ connectionsPhase' = connectionsPhase,
         connectionsPhase' \in {"tcp", "tcp6", "scan", "collect"} =>
           \A s \in collected : s.time < connectionsNow
  PROVE  SamplesArePast' /\ AgesAreSeen' /\ RowsAreOlder'
<1> USE DEF ConnectionsInv
<1>1. SamplesArePast' BY DEF SamplesArePast
<1>2. AgesAreSeen' BY DEF AgesAreSeen
<1>3. RowsAreOlder' BY DEF RowsAreOlder
<1>4. QED BY <1>1, <1>2, <1>3

\* Sockets come, and each holder is remembered.
HoldersGrow ==
  /\ DOMAIN sockets \subseteq DOMAIN sockets'
  /\ \A j \in DOMAIN sockets' :
       /\ DOMAIN sockets'[j] = {"endpoint", "opener", "holders"}
       /\ sockets'[j].holders \subseteq 1..NumPids
       /\ \A p \in sockets'[j].holders : <<j, p>> \in held'
  /\ held \subseteq held'

\* The host changes: who comes to hold a socket is remembered.
LEMMA HostSteps ==
  ASSUME ConnectionsInv,
         \/ \E e \in Endpoints, p \in Connections!Pids : Connections!OpenSocket(e, p)
         \/ \E i \in Connections!Open, p \in Connections!Pids :
              Connections!Inherit(i, p) \/ Connections!Release(i, p)
  PROVE  ConnectionsInv'
<1> USE DEF ConnectionsInv
<1>1. /\ UNCHANGED <<connectionsPhase, pid, raw, firstSeen, latest, connectionsRows, collected,
                     connectionsNow>>
  BY DEF Connections!OpenSocket, Connections!Inherit, Connections!Release, Connections!Hold,
    Connections!cycle, Connections!kept
<1>2. HoldersGrow
  <2>1. ASSUME NEW e \in Endpoints, NEW p \in Connections!Pids, Connections!OpenSocket(e, p)
        PROVE  HoldersGrow
    <3>1. PICK i : /\ sockets' = [j \in DOMAIN sockets \cup {i} |->
                                    IF j = i THEN [endpoint |-> e, opener |-> p, holders |-> {p}]
                                    ELSE sockets[j]]
                   /\ held' = held \cup {<<i, p>>}
      BY <2>1 DEF Connections!OpenSocket, Connections!Inodes
    <3>2. p \in 1..NumPids BY DEF Connections!Pids
    <3>3. QED BY <3>1, <3>2 DEF ConnectionsType, HoldersAreHeld, HoldersGrow
  <2>2. ASSUME NEW i \in DOMAIN sockets, NEW ps \in SUBSET (1..NumPids), Connections!Hold(i, ps)
        PROVE  HoldersGrow
    <3>1. /\ sockets' = [sockets EXCEPT ![i].holders = ps]
          /\ held' = held \cup ({i} \X ps)
      BY <2>2 DEF Connections!Hold
    <3>2. /\ DOMAIN sockets' = DOMAIN sockets
          /\ sockets'[i].holders = ps /\ DOMAIN sockets'[i] = DOMAIN sockets[i]
          /\ \A j \in DOMAIN sockets \ {i} : sockets'[j] = sockets[j]
      BY <3>1 DEF ConnectionsType
    <3>3. \A p \in ps : <<i, p>> \in held' BY <3>1
    <3>4. QED BY <3>1, <3>2, <3>3 DEF ConnectionsType, HoldersAreHeld, HoldersGrow
  <2>3. ASSUME NEW i \in Connections!Open, NEW p \in Connections!Pids,
               Connections!Inherit(i, p) \/ Connections!Release(i, p)
        PROVE  HoldersGrow
    <3>1. i \in DOMAIN sockets /\ p \in 1..NumPids
      BY DEF Connections!Open, Connections!Inodes, Connections!Pids
    <3>2. /\ sockets[i].holders \cup {p} \in SUBSET (1..NumPids)
          /\ sockets[i].holders \ {p} \in SUBSET (1..NumPids)
      BY <3>1 DEF ConnectionsType
    <3>3. QED BY <2>2, <2>3, <3>1, <3>2 DEF Connections!Inherit, Connections!Release
  <2>4. QED BY <2>1, <2>3
<1>3. ConnectionsType' BY <1>1, <1>2 DEF ConnectionsType, HoldersGrow
<1>4. HoldersAreHeld' BY <1>2 DEF HoldersAreHeld, HoldersGrow
<1>5. RawIsHeld' BY <1>1, <1>2 DEF RawIsHeld, HoldersGrow
<1>6. LatestIsHeld' BY <1>1, <1>2 DEF LatestIsHeld, HoldersGrow
<1>7. SamplesArePast' /\ AgesAreSeen' /\ RowsAreOlder' BY <1>1, KeptStays DEF SamplesArePast
<1>8. QED BY <1>3, <1>4, <1>5, <1>6, <1>7

\* A cycle reads the sockets and attributes them.
LEMMA ReadSteps ==
  ASSUME ConnectionsInv,
         \/ Connections!Start \/ Connections!Scan
         \/ \E ok \in BOOLEAN : Connections!ReadFile(ok)
  PROVE  ConnectionsInv'
<1> USE DEF ConnectionsInv
<1>1. UNCHANGED <<sockets, firstSeen, latest, connectionsRows, collected, connectionsNow>>
  BY DEF Connections!Start, Connections!Scan, Connections!ReadFile, Connections!kernel,
    Connections!kept
<1>2. CASE Connections!Start
  <2>1. /\ raw' = {} /\ held' = Connections!Holds /\ connectionsPhase' = "tcp"
        /\ \A s \in collected : s.time < connectionsNow
    BY <1>2 DEF Connections!Start
  <2>2. ConnectionsType' BY <1>1, <2>1 DEF ConnectionsType
  <2>3. HoldersAreHeld'
    BY <1>1, <2>1
      DEF HoldersAreHeld, ConnectionsType, Connections!Holds, Connections!Inodes,
      Connections!Pids
  <2>4. RawIsHeld' /\ LatestIsHeld' BY <2>1 DEF RawIsHeld, LatestIsHeld
  <2>5. SamplesArePast' /\ AgesAreSeen' /\ RowsAreOlder' BY <1>1, <2>1, KeptStays
  <2>6. QED BY <2>2, <2>3, <2>4, <2>5
<1>3. CASE Connections!Scan
  <2>1. /\ raw' = {IF pid \notin Hidden /\ Connections!FoundIn(r.inode, pid)
                   THEN [r EXCEPT !.pid = pid] ELSE r : r \in raw}
        /\ held' = held /\ connectionsPhase = "scan"
        /\ connectionsPhase' \in {"scan", "collect"}
    BY <1>3 DEF Connections!Scan, Connections!kernel
  <2>2. ASSUME NEW q \in raw'
        PROVE  /\ DOMAIN q = {"inode", "pid"} /\ q.inode \in DOMAIN sockets
               /\ q.pid # 0 => <<q.inode, q.pid>> \in held
    <3>1. PICK r \in raw : q = IF pid \notin Hidden /\ Connections!FoundIn(r.inode, pid)
                               THEN [r EXCEPT !.pid = pid] ELSE r
      BY <2>1
    <3>2. CASE q = r
      BY <3>2 DEF ConnectionsType, RawIsHeld
    <3>3. CASE q = [r EXCEPT !.pid = pid] /\ pid \in sockets[r.inode].holders
      BY <3>3 DEF ConnectionsType, HoldersAreHeld
    <3>4. QED BY <3>1, <3>2, <3>3 DEF Connections!FoundIn
  <2>3. ConnectionsType' BY <1>1, <2>2 DEF ConnectionsType
  <2>4. HoldersAreHeld' BY <1>1, <2>1 DEF HoldersAreHeld
  <2>5. RawIsHeld' BY <2>1, <2>2 DEF RawIsHeld
  <2>6. LatestIsHeld' BY <2>1 DEF LatestIsHeld
  <2>7. SamplesArePast' /\ AgesAreSeen' /\ RowsAreOlder'
    BY <1>1, <2>1, KeptStays DEF SamplesArePast
  <2>8. QED BY <2>3, <2>4, <2>5, <2>6, <2>7
<1>4. ASSUME NEW ok \in BOOLEAN, Connections!ReadFile(ok) PROVE ConnectionsInv'
  <2>1. /\ connectionsPhase \in {"tcp", "tcp6"} /\ held' = held
        /\ connectionsPhase' \in {"tcp6", "idle", "scan"}
    BY <1>4 DEF Connections!ReadFile, Connections!kernel
  <2>2. \A q \in raw' : \/ q \in raw
                        \/ /\ DOMAIN q = {"inode", "pid"} /\ q.pid = 0
                           /\ q.inode \in DOMAIN sockets
    BY <1>4 DEF Connections!ReadFile, Connections!Open, Connections!Inodes
  <2>3. ConnectionsType' BY <1>1, <2>2 DEF ConnectionsType
  <2>4. HoldersAreHeld' BY <1>1, <2>1 DEF HoldersAreHeld
  <2>5. RawIsHeld' BY <2>1, <2>2 DEF RawIsHeld
  <2>6. LatestIsHeld' BY <2>1 DEF LatestIsHeld
  <2>7. SamplesArePast' /\ AgesAreSeen' /\ RowsAreOlder'
    BY <1>1, <2>1, KeptStays DEF SamplesArePast
  <2>8. QED BY <2>3, <2>4, <2>5, <2>6, <2>7
<1>5. QED BY <1>2, <1>3, <1>4

\* The clock goes on, and a cycle ends without a row or delivers it.
LEMMA RestSteps ==
  ASSUME ConnectionsInv,
         Connections!Tick \/ Connections!StoreFails \/ Connections!Deliver
  PROVE  ConnectionsInv'
<1> USE DEF ConnectionsInv
<1>1. /\ UNCHANGED <<sockets, held, raw, firstSeen, latest, connectionsRows, collected>>
      /\ connectionsPhase' = "idle"
      /\ connectionsNow' \in {connectionsNow, connectionsNow + 1}
  BY DEF Connections!Tick, Connections!StoreFails, Connections!Deliver, Connections!kernel,
    Connections!kept, Connections!cycle
<1>2. ConnectionsType' BY <1>1 DEF ConnectionsType
<1>3. HoldersAreHeld' /\ RawIsHeld' /\ LatestIsHeld'
  BY <1>1 DEF HoldersAreHeld, RawIsHeld, LatestIsHeld
<1>4. connectionsNow \in Nat /\ connectionsNow' \in Nat /\ connectionsNow <= connectionsNow'
  BY <1>1 DEF ConnectionsType
<1>5. SamplesArePast' BY <1>1, <1>4 DEF SamplesArePast, ConnectionsType
<1>6. AgesAreSeen' BY <1>1, <1>4 DEF AgesAreSeen, ConnectionsType
<1>7. RowsAreOlder' BY <1>1, <1>4 DEF RowsAreOlder, ConnectionsType
<1>8. QED BY <1>2, <1>3, <1>5, <1>6, <1>7

\* A sample becomes a snapshot: its new keys are first seen now, and those that are not in
\* it are forgotten.
LEMMA CollectStep ==
  ASSUME ConnectionsInv, NEW sample \in Connections!Kept, NEW exited,
         Connections!Collect(sample, exited)
  PROVE  ConnectionsInv'
<1> USE DEF ConnectionsInv
<1> DEFINE shown == {r \in sample : Connections!Named(r, exited) \notin IgnoreProcesses}
           keys == {Connections!Key(r) : r \in shown}
<1>1. /\ connectionsPhase = "collect" /\ connectionsPhase' = "store"
      /\ firstSeen' = Connections!Remembered(keys)
      /\ latest' = [time |-> connectionsNow,
                    conns |-> {[key |-> Connections!Key(r), inode |-> r.inode,
                                first |-> firstSeen'[Connections!Key(r)],
                                process |-> Connections!Named(r, exited)] : r \in shown}]
      /\ collected' = collected \cup {[time |-> connectionsNow, keys |-> keys]}
      /\ UNCHANGED <<sockets, held, raw, connectionsRows, connectionsNow>>
  BY DEF Connections!Collect, Connections!kernel
<1>2. \A r \in shown : r \in raw /\ Connections!Key(r) \in keys
  BY DEF Connections!Kept
<1>3. \A c \in latest'.conns : \E r \in raw :
        /\ c.key = Connections!Key(r) /\ c.inode = r.inode
        /\ c.key \in keys /\ c.first = firstSeen'[c.key]
  <2> SUFFICES ASSUME NEW c \in latest'.conns
      PROVE  \E r \in raw : /\ c.key = Connections!Key(r) /\ c.inode = r.inode
                           /\ c.key \in keys /\ c.first = firstSeen'[c.key]
    OBVIOUS
  <2> HIDE DEF shown, keys
  <2>1. PICK r \in shown :
          c = [key |-> Connections!Key(r), inode |-> r.inode,
               first |-> firstSeen'[Connections!Key(r)],
               process |-> Connections!Named(r, exited)]
    BY <1>1
  <2>2. c.key = Connections!Key(r) /\ c.inode = r.inode /\ c.first = firstSeen'[c.key]
    BY <2>1
  <2>3. QED BY <1>2, <2>1, <2>2
<1> HIDE DEF keys, shown
<1>4. /\ DOMAIN firstSeen' = keys
      /\ \A k \in keys : firstSeen'[k] = IF k \in DOMAIN firstSeen THEN firstSeen[k]
                                         ELSE connectionsNow
  BY <1>1 DEF Connections!Remembered
<1>5. connectionsNow \in Nat /\ \A s \in collected : s.time \in Int /\ s.time < connectionsNow
  BY <1>1 DEF ConnectionsType, SamplesArePast
<1>6. ConnectionsType' BY <1>1, <1>4, <1>5 DEF ConnectionsType
<1>7. HoldersAreHeld' /\ RawIsHeld' BY <1>1 DEF HoldersAreHeld, RawIsHeld
<1>8. LatestIsHeld'
  <2>1. \A r \in raw : Connections!Key(r)[2] = r.pid BY DEF Connections!Key
  <2>2. \A c \in latest'.conns : c.key[2] # 0 => <<c.inode, c.key[2]>> \in held
    BY <1>3, <2>1 DEF RawIsHeld
  <2>3. QED BY <1>1, <2>2 DEF LatestIsHeld
<1>9. SamplesArePast' BY <1>1, <1>5 DEF SamplesArePast
<1>10. AgesAreSeen'
  <2>1. \A c \in latest'.conns : c.key \in DOMAIN firstSeen' /\ c.first = firstSeen'[c.key]
    BY <1>3, <1>4
  <2>2. ASSUME NEW k \in keys
        PROVE  /\ firstSeen'[k] <= connectionsNow
               /\ \A s \in collected' : firstSeen'[k] <= s.time => k \in s.keys
    <3>1. CASE k \in DOMAIN firstSeen
      BY <1>1, <1>4, <3>1 DEF AgesAreSeen
    <3>2. CASE k \notin DOMAIN firstSeen
      BY <1>1, <1>4, <1>5, <3>2
    <3>3. QED BY <3>1, <3>2
  <2>3. QED BY <1>1, <1>4, <2>1, <2>2 DEF AgesAreSeen
<1>11. RowsAreOlder' BY <1>1, <1>4 DEF RowsAreOlder
<1>12. QED BY <1>6, <1>7, <1>8, <1>9, <1>10, <1>11

\* A row that is there keeps its first time, and one that is not gets that of the snapshot.
LEMMA StoreStep == ASSUME ConnectionsInv, Connections!Store PROVE ConnectionsInv'
<1> USE DEF ConnectionsInv
<1> DEFINE stored == {c.key : c \in latest.conns}
           row(k) == CHOOSE c \in latest.conns : c.key = k
<1>1. /\ connectionsPhase' = "deliver"
      /\ UNCHANGED <<sockets, held, raw, firstSeen, latest, collected, connectionsNow>>
      /\ connectionsRows' = [k \in DOMAIN connectionsRows \cup stored |->
                               IF \E c \in latest.conns : c.key = k
                               THEN Connections!Upserted(row(k)) ELSE connectionsRows[k]]
  BY DEF Connections!Store, Connections!kernel
<1>2. \A k \in stored : row(k) \in latest.conns /\ row(k).key = k OBVIOUS
<1>3. /\ \A k : k \in stored <=> \E c \in latest.conns : c.key = k
      /\ \A c \in latest.conns : c.key \in stored
  OBVIOUS
<1> HIDE DEF stored, row
<1>4. /\ DOMAIN connectionsRows' = DOMAIN connectionsRows \cup stored
      /\ \A k \in stored : connectionsRows'[k] = Connections!Upserted(row(k))
      /\ \A k \in DOMAIN connectionsRows \ stored : connectionsRows'[k] = connectionsRows[k]
  BY <1>1, <1>3
<1>5. ASSUME NEW k \in stored
      PROVE  /\ DOMAIN connectionsRows'[k] = RowFields
             /\ k \in DOMAIN connectionsRows => connectionsRows'[k].first = connectionsRows[k].first
             /\ k \notin DOMAIN connectionsRows => connectionsRows'[k].first = firstSeen[k]
             /\ k \in DOMAIN firstSeen
  <2>1. row(k).key = k /\ row(k).first = firstSeen[k] /\ k \in DOMAIN firstSeen
    BY <1>2 DEF AgesAreSeen
  <2>2. connectionsRows'[k] = Connections!Upserted(row(k)) BY <1>4
  <2>3. CASE k \in DOMAIN connectionsRows
    <3>1. DOMAIN connectionsRows[k] = RowFields BY <2>3 DEF ConnectionsType
    <3>2. QED BY <2>1, <2>2, <2>3, <3>1 DEF Connections!Upserted, RowFields
  <2>4. CASE k \notin DOMAIN connectionsRows
    BY <2>1, <2>2, <2>4 DEF Connections!Upserted, RowFields
  <2>5. QED BY <2>1, <2>3, <2>4
<1>6. ConnectionsType' BY <1>1, <1>4, <1>5 DEF ConnectionsType
<1>7. HoldersAreHeld' /\ RawIsHeld' /\ LatestIsHeld'
  BY <1>1 DEF HoldersAreHeld, RawIsHeld, LatestIsHeld
<1>8. SamplesArePast' BY <1>1 DEF SamplesArePast
<1>9. AgesAreSeen' BY <1>1 DEF AgesAreSeen
<1>10. RowsAreOlder'
  <2>1. ASSUME NEW k \in DOMAIN connectionsRows'
        PROVE  /\ connectionsRows'[k].first <= connectionsNow
               /\ k \in DOMAIN firstSeen => connectionsRows'[k].first <= firstSeen[k]
    <3>1. CASE k \in DOMAIN connectionsRows
      BY <1>4, <1>5, <3>1 DEF RowsAreOlder
    <3>2. CASE k \notin DOMAIN connectionsRows
      <4>1. k \in stored BY <1>4, <3>2
      <4>2. connectionsRows'[k].first = firstSeen[k] /\ k \in DOMAIN firstSeen
        BY <1>5, <3>2, <4>1
      <4>3. firstSeen[k] \in Int /\ firstSeen[k] <= connectionsNow
        BY <4>2 DEF ConnectionsType, AgesAreSeen
      <4>4. QED BY <4>2, <4>3
    <3>3. QED BY <3>1, <3>2
  <2>2. QED BY <1>1, <1>3, <1>4, <2>1 DEF RowsAreOlder
<1>11. QED BY <1>6, <1>7, <1>8, <1>9, <1>10

\* The other components leave the connections alone.
LEMMA ConnectionsStep == ConnectionsInv /\ [Next]_vars => ConnectionsInv'
<1> SUFFICES ASSUME ConnectionsInv, [Next]_vars PROVE ConnectionsInv' OBVIOUS
<1>1. CASE UNCHANGED connectionsVars
  <2>1. UNCHANGED <<sockets, connectionsPhase, raw, firstSeen, latest, connectionsRows,
                    connectionsNow, held, collected>>
    BY <1>1 DEF connectionsVars
  <2>2. QED
    BY <2>1 DEF ConnectionsInv, ConnectionsType, HoldersAreHeld, RawIsHeld, LatestIsHeld,
                        SamplesArePast, AgesAreSeen, RowsAreOlder
<1>2. CASE Connections!Next
  BY <1>2, HostSteps, ReadSteps, RestSteps, CollectStep, StoreStep DEF Connections!Next
<1>3. QED BY <1>1, <1>2 DEF Next, vars

\* There is no socket at first, and no sample.
LEMMA ConnectionsStart == Init => ConnectionsInv
<1> SUFFICES ASSUME Init PROVE ConnectionsInv OBVIOUS
<1>1. /\ sockets = <<>> /\ connectionsPhase = "idle" /\ raw = {} /\ firstSeen = <<>>
      /\ connectionsRows = <<>> /\ connectionsNow = 0 /\ held = {} /\ collected = {}
      /\ latest.conns = {}
  BY DEF Init, Connections!Init, Connections!NoSnapshot
<1>2. DOMAIN sockets = {} /\ DOMAIN firstSeen = {} /\ DOMAIN connectionsRows = {} BY <1>1
<1>3. QED
  BY <1>1, <1>2 DEF ConnectionsInv, ConnectionsType, HoldersAreHeld, RawIsHeld, LatestIsHeld,
                            SamplesArePast, AgesAreSeen, RowsAreOlder

\* What the property says of the state.
LEMMA ConnectionsInvIsEnough == ConnectionsInv => SnapshotIsTrue
<1> SUFFICES ASSUME ConnectionsInv, NEW c \in latest.conns
    PROVE  /\ (connectionsPhase = "store" /\ c.key[2] # 0) => <<c.inode, c.key[2]>> \in held
           /\ \A s \in collected :
                (c.first <= s.time /\ s.time <= latest.time) => c.key \in s.keys
           /\ connectionsPhase = "deliver" =>
                (c.key \in DOMAIN connectionsRows /\ connectionsRows[c.key].first <= c.first)
  BY DEF SnapshotIsTrue, Connections!SnapshotIsTrue
<1>1. c.key \in DOMAIN firstSeen /\ c.first = firstSeen[c.key]
  BY DEF ConnectionsInv, AgesAreSeen
<1>2. (connectionsPhase = "store" /\ c.key[2] # 0) => <<c.inode, c.key[2]>> \in held
  BY DEF ConnectionsInv, LatestIsHeld
<1>3. \A s \in collected : c.first <= s.time => c.key \in s.keys
  BY <1>1 DEF ConnectionsInv, AgesAreSeen
<1>4. connectionsPhase = "deliver" =>
        c.key \in DOMAIN connectionsRows /\ connectionsRows[c.key].first <= c.first
  BY <1>1 DEF ConnectionsInv, RowsAreOlder
<1>5. QED BY <1>2, <1>3, <1>4

\* A connection is attributed to a process that held its socket, its age spans only
\* samples it was in, and the detectors get what was stored, for any endpoints,
\* processes, bound on the connections and processes to ignore (Collector.Collect,
\* connectionMonitor.run).
THEOREM SpecSnapshotIsTrue == Spec => []SnapshotIsTrue
BY ConnectionsStart, ConnectionsStep, ConnectionsInvIsEnough, PTL DEF Spec

-----------------------------------------------------------------------------
(***************************************************************************)
(* Lateral movement.  The attempts are those of the sockets in the         *)
(* snapshots within the window, so that what is counted is what there is;  *)
(* and a finding that is marked was told at the time of its mark.          *)
(***************************************************************************)
Attempt(i, s) == [at |-> i, host |-> s.host, port |-> s.port, failed |-> s \in snapshots[i].failed]

LateralSnapshots ==
  [failed : SUBSET Sockets, open : SUBSET Sockets, told : SUBSET Lateral!Kinds]

LateralType ==
  /\ lateralNow \in Nat /\ snapshots \in Seq(LateralSnapshots) /\ Len(snapshots) = lateralNow

AttemptsAreRecent ==
  \A a \in attempts :
    /\ a.at \in 1..lateralNow /\ lateralNow - a.at < Window
    /\ \E s \in snapshots[a.at].failed \cup snapshots[a.at].open : a = Attempt(a.at, s)

RecentAreAttempts ==
  \A i \in 1..lateralNow : lateralNow - i < Window =>
    \A s \in snapshots[i].failed \cup snapshots[i].open : Attempt(i, s) \in attempts

MarksWereTold ==
  \A k \in DOMAIN reported : reported[k] \in 1..lateralNow /\ k \in snapshots[reported[k]].told

FindingsAreTold ==
  /\ lateralNow > 0 => snapshots[lateralNow].told \subseteq Lateral!Found(attempts)
  /\ \A k \in Lateral!Found(attempts) :
       \E i \in 1..lateralNow : lateralNow - i < Cooldown /\ k \in snapshots[i].told

LateralInv ==
  /\ LateralType /\ AttemptsAreRecent /\ RecentAreAttempts /\ MarksWereTold /\ FindingsAreTold

\* As many ports as sockets: a socket of a host is told by its port.
LEMMA PortsAndSockets ==
  ASSUME NEW h, NEW T \in SUBSET Sockets, \A s \in T : s.host = h
  PROVE  Cardinality({s.port : s \in T}) = Cardinality(T)
<1> DEFINE P == {s.port : s \in T}
           f == [s \in T |-> s.port]
<1>1. IsFiniteSet(T) BY LateralAssumption, FS_Subset
<1>2. \A s, t \in T : s.port = t.port => s = t BY LateralAssumption
<1>3. f \in Surjection(T, P) BY DEF Surjection
<1>4. f \in Injection(T, P) BY <1>2 DEF Injection, IsInjective
<1> HIDE DEF f, P
<1>5. Cardinality(P) = Cardinality(T) BY <1>1, <1>3, <1>4, FS_Surjection
<1>6. QED BY <1>5 DEF P

\* The attempts are those of the sockets that were there.
LEMMA AttemptsAreSockets ==
  ASSUME LateralInv
  PROVE  /\ Lateral!SeenRecently \in SUBSET Sockets
         /\ \A s \in Lateral!SeenRecently : \E a \in attempts : a.host = s.host /\ a.port = s.port
         /\ \A a \in attempts : \E s \in Lateral!SeenRecently : a.host = s.host /\ a.port = s.port
         /\ Lateral!Failed(attempts) # {} <=> Lateral!FailedRecently # {}
<1> USE DEF LateralInv
<1>1. /\ lateralNow \in Nat /\ DOMAIN snapshots = 1..lateralNow
      /\ \A i \in 1..lateralNow : /\ snapshots[i].failed \in SUBSET Sockets
                                  /\ snapshots[i].open \in SUBSET Sockets
  <2>1. lateralNow \in Nat /\ DOMAIN snapshots = 1..lateralNow BY DEF LateralType
  <2>2. \A i \in 1..lateralNow : snapshots[i] \in LateralSnapshots
    BY <2>1 DEF LateralType
  <2>3. QED BY <2>1, <2>2 DEF LateralSnapshots
<1>2. \A s : s \in Lateral!SeenRecently <=>
        \E i \in 1..lateralNow : /\ lateralNow - i < Window
                                 /\ s \in snapshots[i].failed \cup snapshots[i].open
  BY <1>1 DEF Lateral!SeenRecently, Lateral!Recent
<1>3. \A s : s \in Lateral!FailedRecently <=>
        \E i \in 1..lateralNow : lateralNow - i < Window /\ s \in snapshots[i].failed
  BY <1>1 DEF Lateral!FailedRecently, Lateral!Recent
<1>4. \A i, s : /\ Attempt(i, s).host = s.host /\ Attempt(i, s).port = s.port
                /\ Attempt(i, s).failed = (s \in snapshots[i].failed)
  BY DEF Attempt
<1>5. Lateral!SeenRecently \in SUBSET Sockets BY <1>1, <1>2
<1>6. ASSUME NEW s \in Lateral!SeenRecently
      PROVE  \E a \in attempts : a.host = s.host /\ a.port = s.port
  BY <1>2, <1>4 DEF RecentAreAttempts
<1>7. ASSUME NEW a \in attempts
      PROVE  \E s \in Lateral!SeenRecently : a.host = s.host /\ a.port = s.port
  BY <1>2, <1>4 DEF AttemptsAreRecent
<1>8. ASSUME NEW a \in attempts, a.failed PROVE Lateral!FailedRecently # {}
  <2>1. PICK s \in snapshots[a.at].failed \cup snapshots[a.at].open : a = Attempt(a.at, s)
    BY DEF AttemptsAreRecent
  <2>2. s \in snapshots[a.at].failed
    <3>1. a.failed = (s \in snapshots[a.at].failed) BY <1>4, <2>1
    <3>2. QED BY <1>8, <3>1
  <2>3. QED BY <1>3, <2>2 DEF AttemptsAreRecent
<1>9. ASSUME NEW s \in Lateral!FailedRecently PROVE \E a \in attempts : a.failed
  BY <1>3, <1>4 DEF RecentAreAttempts
<1>10. QED BY <1>5, <1>6, <1>7, <1>8, <1>9 DEF Lateral!Failed

\* What is found among the attempts is what there is among the sockets, but for failures.
LEMMA FoundIsThere ==
  ASSUME LateralInv
  PROVE  /\ Lateral!Found(attempts) \subseteq Lateral!There \cup {Lateral!Failures}
         /\ Lateral!There \subseteq Lateral!Found(attempts)
<1> DEFINE S == Lateral!SeenRecently
           T(h) == {s \in S : s.host = h}
<1>1. /\ S \in SUBSET Sockets
      /\ \A s \in S : \E a \in attempts : a.host = s.host /\ a.port = s.port
      /\ \A a \in attempts : \E s \in S : a.host = s.host /\ a.port = s.port
      /\ Lateral!Failed(attempts) # {} <=> Lateral!FailedRecently # {}
  BY AttemptsAreSockets
<1> HIDE DEF S
<1>2. Lateral!HostsOf(attempts) = {s.host : s \in S}
  BY <1>1 DEF Lateral!HostsOf
<1>3. Lateral!HostsOf(Lateral!Admin(attempts)) = {s.host : s \in {r \in S : r.port \in AdminPorts}}
  BY <1>1 DEF Lateral!HostsOf, Lateral!Admin
<1>4. ASSUME NEW h
      PROVE  Lateral!Cardinality(Lateral!PortsTo(attempts, h)) = Lateral!Cardinality(T(h))
  <2>1. Lateral!PortsTo(attempts, h) = {s.port : s \in T(h)}
    BY <1>1 DEF Lateral!PortsTo
  <2>2. T(h) \in SUBSET Sockets /\ \A s \in T(h) : s.host = h BY <1>1
  <2> HIDE DEF T
  <2>3. Cardinality({s.port : s \in T(h)}) = Cardinality(T(h)) BY <2>2, PortsAndSockets
  <2>4. QED BY <2>1, <2>3 DEF Lateral!Cardinality, Cardinality
<1>5. Lateral!Sweeps(attempts) <=>
        Lateral!Cardinality({s.host : s \in Lateral!SeenRecently}) >= HostSweepThreshold
  BY <1>2 DEF Lateral!Sweeps, S
<1>6. Lateral!AdminSweeps(attempts) <=>
        /\ Lateral!AdminHosts(Lateral!SeenRecently) >= AdminSweepHosts
        /\ \/ Lateral!FailedRecently # {}
           \/ Lateral!AdminHosts(Lateral!SeenRecently) >= 2 * AdminSweepHosts
  BY <1>1, <1>3 DEF Lateral!AdminSweeps, Lateral!AdminHosts, S
<1>7. \A h : Lateral!Scans(attempts, h) <=>
        Lateral!Cardinality({s \in Lateral!SeenRecently : s.host = h}) >= PortScanThreshold
  BY <1>4 DEF Lateral!Scans, S
<1>8. QED BY <1>5, <1>6, <1>7 DEF Lateral!Found, Lateral!There

\* Nothing is found among no attempts.
LEMMA NothingIsFound == Lateral!Found({}) = {}
<1>1. /\ Lateral!HostsOf({}) = {} /\ Lateral!Failed({}) = {} /\ Lateral!Admin({}) = {}
      /\ \A h : Lateral!PortsTo({}, h) = {}
  BY DEF Lateral!HostsOf, Lateral!Failed, Lateral!Admin, Lateral!PortsTo
<1>2. Lateral!Cardinality({}) = 0
  BY FS_EmptySet DEF Lateral!Cardinality, Cardinality
<1>3. /\ ~Lateral!Sweeps({}) /\ ~Lateral!AdminSweeps({})
      /\ \A h : ~Lateral!Scans({}, h)
      /\ ~(Lateral!Cardinality(Lateral!Failed({})) >= FailedThreshold)
  <2>1. \A t \in Nat \ {0} : ~(0 >= t) OBVIOUS
  <2>2. ~Lateral!Sweeps({}) BY <1>1, <1>2, <2>1, LateralAssumption DEF Lateral!Sweeps
  <2>3. ~Lateral!AdminSweeps({})
    BY <1>1, <1>2, <2>1, LateralAssumption DEF Lateral!AdminSweeps
  <2>4. \A h : ~Lateral!Scans({}, h)
    BY <1>1, <1>2, <2>1, LateralAssumption DEF Lateral!Scans
  <2>5. ~(Lateral!Cardinality(Lateral!Failed({})) >= FailedThreshold)
    BY <1>1, <1>2, <2>1, LateralAssumption
  <2>6. QED BY <2>2, <2>3, <2>4, <2>5
<1>4. QED BY <1>3 DEF Lateral!Found

\* A snapshot: its sockets are attempts, old ones are forgotten, and what is found is told
\* or was within the cooldown.
LEMMA ObserveStep ==
  ASSUME LateralInv, NEW S \in SUBSET Sockets, NEW F \in SUBSET S,
         Lateral!Connections(F, S \ F)
  PROVE  LateralInv'
<1> USE DEF LateralInv
<1> DEFINE n == lateralNow + 1
           seen == {[at |-> n, host |-> s.host, port |-> s.port, failed |-> s \in F] :
                      s \in F \cup (S \ F)}
           A == {a \in attempts \cup seen : n - a.at < Window}
           tells == Lateral!Found(A) \cap
                     {k \in Lateral!Kinds : k \in DOMAIN reported => n - reported[k] >= Cooldown}
           new == [failed |-> F, open |-> S \ F, told |-> tells]
<1>1. /\ lateralNow' = n /\ attempts' = A /\ snapshots' = Append(snapshots, new)
  BY DEF Lateral!Connections, Lateral!Due
<1>2. \A k \in DOMAIN reported' : \/ k \in tells /\ reported'[k] = n
                                  \/ k \in DOMAIN reported /\ reported'[k] = reported[k]
  BY <1>1 DEF Lateral!Connections, Lateral!Marked, Lateral!Due
<1>3. tells \in SUBSET Lateral!Kinds OBVIOUS
<1>4. new \in LateralSnapshots BY <1>3 DEF LateralSnapshots
<1>5. /\ lateralNow \in Nat /\ n \in Nat /\ n = lateralNow + 1
      /\ Len(snapshots) = lateralNow /\ Len(snapshots') = n
      /\ snapshots' \in Seq(LateralSnapshots) /\ snapshots'[n] = new
      /\ \A i \in 1..lateralNow : snapshots'[i] = snapshots[i]
  <2> HIDE DEF new
  <2>1. QED BY <1>1, <1>4 DEF LateralType
<1>6. new.failed = F /\ new.failed \cup new.open = S /\ new.told = tells OBVIOUS
<1>7. \A a : a \in seen <=> \E s \in S : a = [at |-> n, host |-> s.host, port |-> s.port,
                                            failed |-> s \in F]
  OBVIOUS
<1>8. \A a : a \in A <=> a \in attempts \cup seen /\ n - a.at < Window OBVIOUS
<1>9. \A k : k \in tells <=> /\ k \in Lateral!Found(A) /\ k \in Lateral!Kinds
                            /\ (k \in DOMAIN reported => n - reported[k] >= Cooldown)
  OBVIOUS
<1> HIDE DEF n, seen, A, tells, new
<1>10. LateralType' BY <1>1, <1>5 DEF LateralType
<1>11. AttemptsAreRecent'
  <2> SUFFICES ASSUME NEW a \in A
      PROVE  /\ a.at \in 1..n /\ n - a.at < Window
             /\ \E s \in snapshots'[a.at].failed \cup snapshots'[a.at].open :
                  a = [at |-> a.at, host |-> s.host, port |-> s.port,
                       failed |-> s \in snapshots'[a.at].failed]
    BY <1>1 DEF AttemptsAreRecent, Attempt
  <2>1. CASE a \in attempts
    <3>1. PICK s \in snapshots[a.at].failed \cup snapshots[a.at].open : a = Attempt(a.at, s)
      BY <2>1 DEF AttemptsAreRecent
    <3>2. a.at \in 1..lateralNow BY <2>1 DEF AttemptsAreRecent
    <3>3. snapshots'[a.at] = snapshots[a.at] BY <1>5, <3>2
    <3>4. a.at \in 1..n BY <1>5, <3>2
    <3>5. QED BY <1>8, <3>1, <3>3, <3>4 DEF Attempt
  <2>2. CASE a \in seen
    <3>1. PICK s \in S : a = [at |-> n, host |-> s.host, port |-> s.port, failed |-> s \in F]
      BY <1>7, <2>2
    <3>2. a.at = n /\ n \in 1..n BY <1>5, <3>1
    <3>3. QED BY <1>5, <1>6, <1>8, <3>1, <3>2
  <2>3. QED BY <1>8, <2>1, <2>2
<1>12. RecentAreAttempts'
  <2> SUFFICES ASSUME NEW i \in 1..n, n - i < Window,
                      NEW s \in snapshots'[i].failed \cup snapshots'[i].open
      PROVE  [at |-> i, host |-> s.host, port |-> s.port,
              failed |-> s \in snapshots'[i].failed] \in A
    BY <1>1 DEF RecentAreAttempts, Attempt
  <2> DEFINE a == [at |-> i, host |-> s.host, port |-> s.port,
                   failed |-> s \in snapshots'[i].failed]
  <2>1. a.at = i OBVIOUS
  <2>2. CASE i = n
    BY <1>5, <1>6, <1>7, <1>8, <2>1, <2>2
  <2>3. CASE i # n
    <3>1. i \in 1..lateralNow /\ lateralNow - i < Window BY <1>5, <2>3, LateralAssumption
    <3>2. snapshots'[i] = snapshots[i] BY <1>5, <3>1
    <3>3. Attempt(i, s) \in attempts BY <3>1, <3>2 DEF RecentAreAttempts
    <3>4. a \in attempts BY <3>2, <3>3 DEF Attempt
    <3>5. QED BY <1>8, <2>1, <3>4
  <2>4. QED BY <2>2, <2>3
<1>13. MarksWereTold'
  <2>1. ASSUME NEW k \in DOMAIN reported'
        PROVE  reported'[k] \in 1..n /\ k \in snapshots'[reported'[k]].told
    <3>1. CASE k \in tells /\ reported'[k] = n
      BY <1>5, <1>6, <3>1
    <3>2. CASE k \in DOMAIN reported /\ reported'[k] = reported[k]
      BY <1>5, <3>2 DEF MarksWereTold
    <3>3. QED BY <1>2, <3>1, <3>2
  <2>2. QED BY <1>1, <2>1 DEF MarksWereTold
<1>14. FindingsAreTold'
  <2>1. ASSUME NEW k \in Lateral!Found(A)
        PROVE  \E i \in 1..n : n - i < Cooldown /\ k \in snapshots'[i].told
    <3>1. k \in Lateral!Kinds BY DEF Lateral!Found
    <3>2. CASE k \in tells
      BY <1>5, <1>6, <3>2, LateralAssumption
    <3>3. CASE k \notin tells
      <4>1. k \in DOMAIN reported /\ ~(n - reported[k] >= Cooldown) BY <1>9, <3>1, <3>3
      <4>2. reported[k] \in 1..lateralNow /\ k \in snapshots[reported[k]].told
        BY <4>1 DEF MarksWereTold
      <4>3. reported[k] \in 1..n /\ n - reported[k] < Cooldown
        BY <1>5, <4>1, <4>2, LateralAssumption
      <4>4. QED BY <1>5, <4>2, <4>3
    <3>4. QED BY <3>2, <3>3
  <2>2. snapshots'[n].told \subseteq Lateral!Found(A) BY <1>5, <1>6, <1>9
  <2>3. QED BY <1>1, <2>1, <2>2 DEF FindingsAreTold
<1>15. QED BY <1>10, <1>11, <1>12, <1>13, <1>14

\* The other components leave the detector alone.
LEMMA LateralStep == LateralInv /\ [Next]_vars => LateralInv'
<1> SUFFICES ASSUME LateralInv, [Next]_vars PROVE LateralInv' OBVIOUS
<1>1. CASE UNCHANGED lateralVars
  <2>1. UNCHANGED <<attempts, reported, lateralNow, snapshots>> BY <1>1 DEF lateralVars
  <2>2. QED BY <2>1 DEF LateralInv, LateralType, AttemptsAreRecent, RecentAreAttempts,
                        MarksWereTold, FindingsAreTold, Attempt
<1>2. CASE Lateral!Next
  BY <1>2, ObserveStep DEF Lateral!Next
<1>3. QED BY <1>1, <1>2 DEF Next, vars

\* There are no attempts at first.
LEMMA LateralStarts == Init => LateralInv
<1> SUFFICES ASSUME Init PROVE LateralInv OBVIOUS
<1>1. attempts = {} /\ reported = <<>> /\ lateralNow = 0 /\ snapshots = <<>>
  BY DEF Init, Lateral!Init
<1>2. LateralType BY <1>1 DEF LateralType
<1>3. AttemptsAreRecent /\ RecentAreAttempts
  BY <1>1 DEF AttemptsAreRecent, RecentAreAttempts
<1>4. MarksWereTold BY <1>1 DEF MarksWereTold
<1>5. FindingsAreTold BY <1>1, NothingIsFound DEF FindingsAreTold
<1>6. QED BY <1>2, <1>3, <1>4, <1>5 DEF LateralInv

\* What the property says of the state.
LEMMA LateralInvIsEnough == LateralInv => ReportsFollowSockets
<1> SUFFICES ASSUME LateralInv PROVE ReportsFollowSockets OBVIOUS
<1>1. Lateral!Told \subseteq Lateral!Found(attempts)
  BY DEF Lateral!Told, LateralInv, LateralType, FindingsAreTold
<1>2. \A k \in Lateral!Found(attempts) :
        \E i \in 1..lateralNow : lateralNow - i < Cooldown /\ k \in snapshots[i].told
  BY DEF LateralInv, FindingsAreTold
<1>3. QED
  BY <1>1, <1>2, FoundIsThere DEF ReportsFollowSockets, Lateral!ReportsFollowSockets

\* The sweeps and scans that are reported are there, and those that last are reported,
\* for any sockets, thresholds, window and cooldown (Detector.Observe of lateral.go).
THEOREM SpecReportsFollowSockets == Spec => []ReportsFollowSockets
BY LateralStarts, LateralStep, LateralInvIsEnough, PTL DEF Spec

=============================================================================
