----------------------------- MODULE Interfaces -----------------------------
(***************************************************************************)
(* The interface collector: the tracker that diffs successive snapshots of *)
(* the host's configuration (internal/interfaces/tracker.go) and the task  *)
(* that stores, publishes and reports them (agent/monitor_interfaces.go).  *)
(*                                                                         *)
(* A snapshot is the state of each interface, the interface of the default *)
(* route, the resolvers and the wireless network; a gateway is that of its *)
(* route's interface, and addresses and speeds are left out.  Between two  *)
(* cycles the host changes in any way.  A source that cannot be read       *)
(* yields an empty part, like that of a host without routes, resolvers or  *)
(* wireless networks; without the list of interfaces there is no snapshot. *)
(***************************************************************************)
EXTENDS Naturals

CONSTANTS Names,      \* interfaces other than loopback
          Tunnels,    \* those of them that are tunnels
          Resolvers, Networks,
          MaxFaults   \* bound on failing statements

VARIABLES
    prev,      \* Tracker.prev, or NoSnapshot
    state,     \* interface and resolvers in the shared State
    told,      \* what a reader of the events takes the host to be, while none is missing
    missed,    \* history: a cycle ended between Observe and its events
    faults

vars == <<prev, state, told, missed, faults>>

None == "none"

\* up has its carrier, idle is up without one.
Links == {"absent", "down", "idle", "up"}
Up(link) == link \in {"idle", "up"}

Hosts == [links : [Names -> Links], route : Names \cup {None},
          dns : Resolvers \cup {None}, wifi : Networks \cup {None}]

NoSnapshot == [links |-> [n \in Names |-> "absent"], route |-> None, dns |-> None, wifi |-> "unseen"]

VPN(snap) == snap.route \in Tunnels

Belief(snap) == [up |-> {n \in Names : snap.links[n] = "up"}, route |-> snap.route,
                 vpn |-> VPN(snap), dns |-> snap.dns, wifi |-> snap.wifi]

Init ==
    /\ prev = NoSnapshot /\ told = Belief(NoSnapshot) /\ missed = FALSE /\ faults = 0
    /\ state = [route |-> None, dns |-> None, vpn |-> FALSE]

TypeOK ==
    /\ prev \in Hosts \cup {NoSnapshot} /\ missed \in BOOLEAN /\ faults \in 0..MaxFaults
    /\ state \in [route : Names \cup {None}, dns : Resolvers \cup {None}, vpn : BOOLEAN]

-----------------------------------------------------------------------------
Event(kind, name, current) == [kind |-> kind, name |-> name, current |-> current]

\* diffInterface and the cases around it.
\* Mutant: an interface that vanishes is taken for one that was never there.
LinkChanges_Vanished(name, was, is) ==
    (IF ~Up(was) /\ Up(is) THEN {Event("up", name, None)} ELSE {})
    \cup (IF Up(was) /\ is = "down" THEN {Event("down", name, None)} ELSE {})
    \cup (IF was = "up" /\ is = "idle" THEN {Event("down", name, "carrier")} ELSE {})

LinkChanges(name, was, is) ==
    (IF ~Up(was) /\ Up(is) THEN {Event("up", name, None)} ELSE {})
    \cup (IF Up(was) /\ is = "down" THEN {Event("down", name, None)} ELSE {})
    \cup (IF was # "absent" /\ is = "absent" THEN {Event("down", name, None)} ELSE {})
    \cup (IF was = "up" /\ is = "idle" THEN {Event("down", name, "carrier")} ELSE {})

Changed(kind, was, is) == IF was = is THEN {} ELSE {Event(kind, None, is)}

\* Observe, for a snapshot that is not the first.
Changes(was, is) ==
    (UNION {LinkChanges(n, was.links[n], is.links[n]) : n \in Names})
    \cup Changed("route", was.route, is.route)
    \cup Changed("vpn", VPN(was), VPN(is))
    \cup Changed("dns", was.dns, is.dns)
    \cup Changed("wifi", was.wifi, is.wifi)

\* What a reader of the events believes after them.
Reads(belief, changes) ==
    LET last(kind, old) == IF \E e \in changes : e.kind = kind
                           THEN (CHOOSE e \in changes : e.kind = kind).current ELSE old
    IN [up |-> {n \in Names : \/ Event("up", n, None) \in changes
                              \/ /\ n \in belief.up
                                 /\ \A e \in changes : ~(e.kind = "down" /\ e.name = n)},
        route |-> last("route", belief.route), vpn |-> last("vpn", belief.vpn),
        dns |-> last("dns", belief.dns), wifi |-> last("wifi", belief.wifi)]

\* The task's cycle: Observe, the inventory, the shared state, the events.
Collect ==
    \E snap \in Hosts :
        /\ prev' = snap
        /\ state' = [route |-> snap.route, dns |-> snap.dns, vpn |-> VPN(snap)]
        /\ told' = IF missed THEN told
                   ELSE IF prev = NoSnapshot THEN Belief(snap) ELSE Reads(told, Changes(prev, snap))
        /\ UNCHANGED <<missed, faults>>

\* A row of the inventory cannot be stored: the changes observed are not reported.
FailToStore ==
    /\ faults < MaxFaults
    /\ \E snap \in Hosts :
        /\ prev' = snap
        /\ missed' = (missed \/ (prev # NoSnapshot /\ Changes(prev, snap) # {}))
        /\ told' = IF missed' \/ prev = NoSnapshot THEN Belief(snap) ELSE told
    /\ faults' = faults + 1
    /\ UNCHANGED state

Next == Collect \/ FailToStore

Spec == Init /\ [][Next]_vars

-----------------------------------------------------------------------------
(***************************************************************************)
(* Whoever reads the events alone knows the default route, the tunnel, the *)
(* resolvers and the wireless network of the last snapshot, and takes no   *)
(* interface for up that is down or gone, whichever changes came together, *)
(* unless a cycle failed to store a row after it had seen a change.  (The  *)
(* converse fails: the return of a lost carrier is not reported.)          *)
(***************************************************************************)
EventsTellTheHost ==
    prev # NoSnapshot /\ ~missed =>
        /\ told.route = prev.route /\ told.vpn = VPN(prev)
        /\ told.dns = prev.dns /\ told.wifi = prev.wifi
        /\ \A n \in told.up : prev.links[n] \in {"up", "idle"}
=============================================================================
