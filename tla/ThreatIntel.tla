----------------------------- MODULE ThreatIntel -----------------------------
(***************************************************************************)
(* Threat intelligence from one feed: the import task                      *)
(* (threatintel/importer.go, parse.go, agent/monitor_threatintel.go), the  *)
(* indicators and feed status it stores (database/store_threat.go), the    *)
(* expiry of indicators by retention, and the cached look-ups of the       *)
(* connections task (threatintel/matcher.go).                              *)
(*                                                                         *)
(* The server answers a conditional request with a document, a sequence of *)
(* entries of which some are not indicators.  A query of the database is   *)
(* short next to a tick of the clock; between its answer and the cache the *)
(* other tasks may run.                                                    *)
(***************************************************************************)
EXTENDS Integers, Sequences, SequencesExt

CONSTANTS Addresses, Documents,   \* documents: sequences of addresses and Junk
          MaxIndicators,          \* threat_intel.max_indicators
          ExpireAfter,            \* threat_intel.expire_after
          CacheTTL, NegativeTTL, Cooldown,
          MaxTime, MaxVersions, MaxFaults

Junk == "junk"
NoETag == 0
NoAddress == "none"

VARIABLES
    server,       \* the feed: its document and ETag
    status,       \* threat_feeds: the ETag, and how the last import ended
    indicators,   \* threat_indicators: address -> last_in_feed
    importing,    \* the import task: its step, document and ETag
    cache,        \* Matcher.cache: address -> [match, expires]
    looking,      \* the look-up between query and cache, or NotLooking
    reported,     \* threatMonitor.reported: address -> when
    answer,       \* the answer of the last look-up
    now, faults,
    changed       \* history: address -> when it last became or ceased to be an indicator

vars == <<server, status, indicators, importing, cache, looking, reported, answer, now, faults, changed>>

NotImporting == [step |-> "idle", doc |-> <<>>, etag |-> NoETag]
NotLooking == [addr |-> NoAddress, match |-> FALSE]
NoAnswer == NotLooking

Init ==
    /\ server \in [doc : Documents, etag : {1}]
    /\ status = [etag |-> NoETag, last |-> "never"]
    /\ indicators = <<>> /\ importing = NotImporting /\ cache = <<>> /\ looking = NotLooking
    /\ reported = <<>> /\ answer = NoAnswer
    /\ now = 0 /\ faults = 0 /\ changed = [a \in Addresses |-> 0]

TypeOK ==
    /\ DOMAIN indicators \cup DOMAIN cache \cup DOMAIN reported \subseteq Addresses
    /\ status.etag \in 0..MaxVersions /\ status.last \in {"never", "failed", "unchanged", "imported"}
    /\ importing.step \in {"idle", "importing", "invalidating"}
    /\ looking.addr \in Addresses \cup {NoAddress} /\ now \in 0..MaxTime /\ faults \in 0..MaxFaults

\* Parse: the usable entries, up to the limit.
Parsed(doc) ==
    LET usable == SelectSeq(doc, LAMBDA e : e # Junk)
    IN Range(SubSeq(usable, 1, IF Len(usable) < MaxIndicators THEN Len(usable) ELSE MaxIndicators))

\* SetFeedStatus keeps an ETag it is not given another for.
SetStatus(etag, last) ==
    status' = [etag |-> IF etag = NoETag THEN status.etag ELSE etag, last |-> last]

Fault == faults < MaxFaults /\ faults' = faults + 1

SetIndicators(ind) ==
    /\ indicators' = ind
    /\ changed' = [a \in Addresses |->
                     IF (a \in DOMAIN ind) # (a \in DOMAIN indicators) THEN now ELSE changed[a]]

-----------------------------------------------------------------------------
\* The feed publishes another document.
Publish(doc) ==
    /\ server.etag < MaxVersions
    /\ server' = [doc |-> doc, etag |-> server.etag + 1]
    /\ answer' = NoAnswer
    /\ UNCHANGED <<status, indicators, importing, cache, looking, reported, now, faults, changed>>

\* Importer.Import: the request fails, or is answered as not modified, or with a document;
\* one without a usable entry is an error, and leaves its ETag in the status.
Fetch ==
    /\ importing.step = "idle" /\ answer' = NoAnswer
    /\ \/ Fault /\ SetStatus(NoETag, "failed") /\ UNCHANGED importing
       \/ /\ status.etag = server.etag /\ SetStatus(status.etag, "unchanged")
          /\ UNCHANGED <<importing, faults>>
       \/ /\ status.etag # server.etag /\ Parsed(server.doc) = {}
          /\ SetStatus(server.etag, "failed") /\ UNCHANGED <<importing, faults>>
       \/ /\ status.etag # server.etag /\ Parsed(server.doc) # {}
          /\ importing' = [step |-> "importing", doc |-> server.doc, etag |-> server.etag]
          /\ UNCHANGED <<status, faults>>
    /\ UNCHANGED <<server, indicators, cache, looking, reported, now, changed>>

\* UpsertIndicators in one transaction; its failure is stored with the new ETag as well.
Upsert ==
    /\ importing.step = "importing" /\ answer' = NoAnswer
    /\ LET listed == Parsed(importing.doc)
       IN \/ /\ SetIndicators([a \in DOMAIN indicators \cup listed |->
                                 IF a \in listed THEN now ELSE indicators[a]])
             /\ SetStatus(importing.etag, "imported")
             /\ importing' = [importing EXCEPT !.step = "invalidating"]
             /\ UNCHANGED faults
          \/ /\ Fault /\ SetStatus(importing.etag, "failed") /\ importing' = NotImporting
             /\ UNCHANGED <<indicators, changed>>
    /\ UNCHANGED <<server, cache, looking, reported, now>>

\* Matcher.Invalidate, once every feed is imported; a task out of time returns before it.
Invalidate ==
    /\ importing.step = "invalidating" /\ importing' = NotImporting /\ answer' = NoAnswer
    /\ \/ cache' = <<>> /\ UNCHANGED faults
       \/ Fault /\ UNCHANGED cache
    /\ UNCHANGED <<server, status, indicators, looking, reported, now, changed>>

\* ExpireIndicators, from the retention task.
Expire ==
    /\ \E a \in DOMAIN indicators : now - indicators[a] > ExpireAfter
    /\ SetIndicators([a \in {b \in DOMAIN indicators : now - indicators[b] <= ExpireAfter} |-> indicators[a]])
    /\ answer' = NoAnswer
    /\ UNCHANGED <<server, status, importing, cache, looking, reported, now, faults>>

-----------------------------------------------------------------------------
Fresh(a) == a \in DOMAIN cache /\ now <= cache[a].expires

\* Report, unless it was reported within the cooldown.
Answer(a, match) ==
    /\ answer' = [addr |-> a, match |-> match]
    /\ reported' = IF match /\ (a \in DOMAIN reported => now - reported[a] >= Cooldown)
                   THEN [b \in DOMAIN reported \cup {a} |-> IF b = a THEN now ELSE reported[b]]
                   ELSE reported

Store(a, match) ==
    [b \in DOMAIN cache \cup {a} |->
       IF b # a THEN cache[b]
       ELSE [match |-> match, expires |-> now + IF match THEN CacheTTL ELSE NegativeTTL]]

\* Mutant: an answer from the cache stays there as long again.
AfterHit_Renewed(a) == Store(a, cache[a].match)

AfterHit(a) == cache

\* MatchAddr: the cache answers, or the database is asked.
LookUp(a) ==
    /\ looking = NotLooking
    /\ IF Fresh(a) THEN Answer(a, cache[a].match) /\ cache' = AfterHit(a) /\ UNCHANGED looking
       ELSE /\ looking' = [addr |-> a, match |-> a \in DOMAIN indicators]
            /\ answer' = NoAnswer /\ UNCHANGED <<cache, reported>>
    /\ UNCHANGED <<server, status, indicators, importing, now, faults, changed>>

Found ==
    /\ looking # NotLooking /\ looking' = NotLooking
    /\ cache' = Store(looking.addr, looking.match)
    /\ Answer(looking.addr, looking.match)
    /\ UNCHANGED <<server, status, indicators, importing, now, faults, changed>>

Clock ==
    /\ looking = NotLooking /\ now < MaxTime /\ now' = now + 1 /\ answer' = NoAnswer
    /\ UNCHANGED <<server, status, indicators, importing, cache, looking, reported, faults, changed>>

Next ==
    \/ \E doc \in Documents : Publish(doc)
    \/ Fetch \/ Upsert \/ Invalidate \/ Expire
    \/ \E a \in Addresses : LookUp(a)
    \/ Found \/ Clock

Spec == Init /\ [][Next]_vars

-----------------------------------------------------------------------------
(***************************************************************************)
(* Whatever the imports, the expiry and the invalidations do while it is   *)
(* being looked up, an address is answered as it was within the lifetime   *)
(* of a cached answer of its kind.                                         *)
(***************************************************************************)
AnswersAreRecent ==
    answer.addr # NoAddress /\ answer.match # (answer.addr \in DOMAIN indicators)
      => now - changed[answer.addr] <= IF answer.match THEN CacheTTL ELSE NegativeTTL

(***************************************************************************)
(* monitor_threatintel.go, of a feed that was not modified: "the           *)
(* indicators must not expire just because the feed is unchanged, so their *)
(* last-seen timestamps are refreshed".                                    *)
(***************************************************************************)
UnchangedFeedsDoNotExpire ==
    [][status.last = "unchanged" /\ importing.step = "idle" /\ server.etag = status.etag
         => (DOMAIN indicators \cap Parsed(server.doc)) \subseteq DOMAIN indicators']_vars

(***************************************************************************)
(* importer.go keeps the ETag "from the previous import, so an unchanged   *)
(* feed is not re-parsed": what is not modified has been imported.         *)
(***************************************************************************)
NotModifiedWasImported ==
    status.last = "unchanged" /\ ExpireAfter >= MaxTime =>
      \/ server.etag # status.etag
      \/ Parsed(server.doc) # {} /\ Parsed(server.doc) \subseteq DOMAIN indicators
=============================================================================
