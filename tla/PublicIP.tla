------------------------------ MODULE PublicIP ------------------------------
(***************************************************************************)
(* The public-address collector: providers asked in order                  *)
(* (internal/publicip/detect.go), the answer they agree on, and what is    *)
(* stored and reported of it (agent/monitor_publicip.go).                  *)
(*                                                                         *)
(* One family of addresses is modelled; the other runs the same code and   *)
(* differs in that its total failures are not reported.  Addresses are     *)
(* numbers, ordered as netip.Addr.Compare orders them.                     *)
(***************************************************************************)
EXTENDS GateState, FiniteSets

CONSTANTS Addresses,  \* set of numbers above 0
          Providers,  \* how many are configured
          Networks,   \* autonomous systems
          Confirm,    \* public_ip.confirm_changes
          Cooldown, MaxTime

VARIABLES
    latest,    \* the last row of public_ip_history, or NoRow
    failGate,
    now,
    online,    \* State.Online, set by the connectivity collector
    events,    \* those of the last cycle
    \* history
    wan,       \* the address and network the host really has
    known,     \* the address last recorded, whether its row is still there or not
    liars      \* how many providers answered the last cycle with another address

vars == <<latest, failGate, now, online, events, wan, known, liars>>

None == 0
NoRow == [ip |-> None, asn |-> None]
Hosts == [ip : Addresses, asn : Networks]

Init ==
    /\ latest = NoRow /\ failGate = NewState /\ now = 1 /\ online \in BOOLEAN
    /\ events = {} /\ wan \in Hosts /\ known = None /\ liars = 0

TypeOK ==
    /\ latest.ip \in Addresses \cup {None} /\ latest.asn \in Networks \cup {None}
    /\ failGate \in GateStates /\ now \in 1..MaxTime /\ wan \in Hosts

-----------------------------------------------------------------------------
\* Detect: an answer that agrees with the first one ends the loop.
Ends(answer, p) ==
    \E first \in 1..(p - 1) :
        /\ answer[first] = answer[p] /\ answer[p] # None
        /\ \A q \in 1..(first - 1) : answer[q] = None

\* The answers of the providers asked until then; asked is how many the context left
\* time for.
Answers(answer, asked) ==
    [p \in {q \in 1..asked : answer[q] # None /\ \A r \in 1..(q - 1) : ~Ends(answer, r)}
        |-> answer[p]]

Count(results, a) == Cardinality({k \in DOMAIN results : results[k] = a})

\* Agree: the address most providers gave, of those the lowest.
Agreed(results) ==
    CHOOSE a \in Addresses :
        /\ Count(results, a) > 0
        /\ \A b \in Addresses : \/ Count(results, a) > Count(results, b)
                                \/ Count(results, a) = Count(results, b) /\ a <= b

\* Mutant: it is enough that two providers answered.
Confirmed_ByAnswers(results, addr) ==
    Cardinality(DOMAIN results) >= 2 \/ ~Confirm \/ Providers = 1

Confirmed(results, addr) == Count(results, addr) >= 2 \/ ~Confirm \/ Providers = 1

\* check, up to the insert; the enricher may not know the network of the address.
Observe(results) ==
    LET addr == Agreed(results)
        had == latest # NoRow
    IN
    /\ failGate' = AfterClear(failGate)
    /\ IF had /\ (latest.ip = addr \/ ~Confirmed(results, addr))
       THEN UNCHANGED <<latest, known>> /\ events' = {}
       ELSE \/ \E asn \in {wan.asn, None} :
                 /\ latest' = [ip |-> addr, asn |-> asn]
                 /\ known' = addr
                 /\ events' = {"PUBLIC_IP_CHANGED"} \cup
                        (IF latest.asn # None /\ asn # None /\ latest.asn # asn
                         THEN {"ISP_ASN_CHANGED"} ELSE {})
            \/ UNCHANGED <<latest, known>> /\ events' = {}   \* the insert fails

\* One cycle.  Providers answer with the truth, with something else, or not at all.
Cycle ==
    /\ online /\ now < MaxTime /\ now' = now + 1
    /\ \E answer \in [1..Providers -> Addresses \cup {None}], asked \in 1..Providers :
        /\ LET results == Answers(answer, asked) IN
           IF DOMAIN results = {}
           THEN /\ failGate' = AfterBreach(failGate, now, Cooldown)
                /\ events' = IF Fires(failGate, now, Cooldown) THEN {"PUBLIC_IP_UNAVAILABLE"} ELSE {}
                /\ UNCHANGED <<latest, known>>
           ELSE Observe(results)
        /\ liars' = Cardinality({p \in 1..Providers : answer[p] \notin {None, wan.ip}})
    /\ UNCHANGED <<online, wan>>

\* The environment: a new address, an outage and its end, retention of old rows, a restart.
Environment ==
    /\ \/ wan' \in Hosts /\ UNCHANGED <<online, latest, failGate>>
       \/ online' = ~online /\ UNCHANGED <<wan, latest, failGate>>
       \/ latest' = NoRow /\ UNCHANGED <<wan, online, failGate>>
       \/ failGate' = NewState /\ UNCHANGED <<wan, online, latest>>
    /\ events' = {} /\ liars' = 0 /\ UNCHANGED <<now, known>>

Next == Cycle \/ Environment

Spec == Init /\ [][Next]_vars

-----------------------------------------------------------------------------
(***************************************************************************)
(* One misbehaving provider cannot change the address on record, wherever  *)
(* it stands in the list and whoever else is silent, while there is a row  *)
(* to compare with.                                                        *)
(***************************************************************************)
ChangesAreReal ==
    [][latest.ip # latest'.ip /\ None \notin {latest.ip, latest'.ip} /\ liars' <= 1
          => latest'.ip = wan.ip]_vars

(***************************************************************************)
(* config.go says that confirm_changes "requires two providers to agree    *)
(* before a change is recorded", which "avoids spurious changes from a     *)
(* single misbehaving provider", whether retention has deleted the row of  *)
(* an address that stayed for long or not.                                 *)
(***************************************************************************)
ChangesAreConfirmed ==
    [][known # known' /\ known # None /\ liars' <= 1 => known' = wan.ip]_vars
=============================================================================
