--------------------------- MODULE ExternalTraffic ---------------------------
(***************************************************************************)
(* analysis/external.go: ExternalAnalysis files every interaction that     *)
(* crosses the border of the organisation three times over, under the      *)
(* internal actor, the external actor and the external domain, in six maps *)
(* that are updated one after the other.  Who is internal, and where an    *)
(* external actor belongs, is asked of the resolver anew for each          *)
(* interaction; another goroutine may load actors into it meanwhile.       *)
(***************************************************************************)
EXTENDS Traffic, Sequences

CONSTANTS
  Entry,          \* directory entries [internal, primary, emails]
  Directories,    \* what the resolver knows at first: actor -> Entry or Nobody
  Domain,         \* Domain[e]: the host of address e in lower case, or Unknown
  Loadable,       \* Loadable[a]: entries that may be loaded for a later on
  MaxLoads,       \* bound on such loads
  MinExternal,    \* 10 in the code
  MinDomains      \* 3 in the code

Unknown == "unknown"   \* the domain of who has no address
NoAddress == "none"

\* The resolver has no such actor.
Nobody == [internal |-> FALSE, primary |-> "nobody", emails |-> <<>>]

ASSUME ExternalAssumption ==
  /\ Nobody \notin Entry
  /\ \A e \in Entry : /\ e.internal \in BOOLEAN
                      /\ e.primary \in DOMAIN Domain \cup {NoAddress}
                      /\ e.emails \in Seq(DOMAIN Domain)
  /\ Directories \subseteq [Actor -> Entry \cup {Nobody}]
  /\ {MaxLoads, MinExternal, MinDomains} \subseteq Nat

VARIABLES
  directory,      \* the resolver's actors
  loads,          \* actors loaded since the walk began
  metrics,        \* internalMetrics: actor -> [internal, external, total]
  domainsOf,      \* internalToDomains: <<actor, domain>> -> count
  contacts,       \* externalActors: actor -> [domain, inbound, outbound, total]
  partners,       \* externalToInternal, as a set of pairs
  domainStats,    \* domain -> [inbound, outbound, total]
  domainPartners, \* domainToInternal, as a set of pairs
  counts,         \* [total, external, inbound, outbound] of the summary
  summary         \* <<>>, or a sequence of one: the results

externalVars == <<directory, loads, metrics, domainsOf, contacts, partners, domainStats,
                  domainPartners, counts, summary>>

NoMetrics == [internal |-> 0, external |-> 0, total |-> 0]
NoStats == [inbound |-> 0, outbound |-> 0, total |-> 0]

ExternalInit ==
  /\ directory \in Directories
  /\ loads = 0
  /\ metrics = NoEntries /\ domainsOf = NoEntries
  /\ contacts = NoEntries /\ partners = {}
  /\ domainStats = NoEntries /\ domainPartners = {}
  /\ counts = [total |-> 0, external |-> 0, inbound |-> 0, outbound |-> 0]
  /\ summary = <<>>
-----------------------------------------------------------------------------
Internal(a) == directory[a] # Nobody /\ directory[a].internal

(***************************************************************************)
(* The primary address decides, or else the first on the list.  An address *)
(* that is not of the form name@host has an unknown domain.                *)
(***************************************************************************)
extractDomain(a) ==
  IF directory[a] = Nobody THEN Unknown
  ELSE LET e == directory[a] IN
       IF e.primary # NoAddress THEN Domain[e.primary]
       ELSE IF e.emails # <<>> THEN Domain[Head(e.emails)]
       ELSE Unknown

\* An internal actor gets its accounts when it is met first, on either end.
Seen(insiders) == [a \in DOMAIN metrics \cup insiders |-> Lookup(metrics, a, NoMetrics)]

\* Fault: the directions are mixed up.
BookedBackwards(stats, outbound) ==
  [stats EXCEPT !.inbound = @ + (IF outbound THEN 1 ELSE 0),
                !.outbound = @ + (IF outbound THEN 0 ELSE 1),
                !.total = @ + 1]

Booked(stats, outbound) ==
  [stats EXCEPT !.inbound = @ + (IF outbound THEN 0 ELSE 1),
                !.outbound = @ + (IF outbound THEN 1 ELSE 0),
                !.total = @ + 1]

\* Fault: an external actor is entered when it is first met, and counted only then.
ContactOnce(a, outbound) ==
  IF a \in DOMAIN contacts THEN contacts[a]
  ELSE Booked([domain |-> extractDomain(a), inbound |-> 0, outbound |-> 0, total |-> 0], outbound)

\* The domain of a contact stays what it was when it was met first.
Contact(a, outbound) ==
  Booked(Lookup(contacts, a, [domain |-> extractDomain(a), inbound |-> 0,
                              outbound |-> 0, total |-> 0]), outbound)

\* trackExternalInteraction
Track(mine, other, outbound) ==
  LET domain == extractDomain(other) IN
  /\ metrics' = [Seen({mine}) EXCEPT ![mine].external = @ + 1, ![mine].total = @ + 1]
  /\ domainsOf' = With(domainsOf, <<mine, domain>>, Lookup(domainsOf, <<mine, domain>>, 0) + 1)
  /\ contacts' = With(contacts, other, Contact(other, outbound))
  /\ partners' = partners \cup {<<other, mine>>}
  /\ domainStats' =
       With(domainStats, domain, Booked(Lookup(domainStats, domain, NoStats), outbound))
  /\ domainPartners' = domainPartners \cup {<<domain, mine>>}

Counted(external, inbound, outbound) ==
  counts' = [total |-> counts.total + 1, external |-> counts.external + external,
             inbound |-> counts.inbound + inbound, outbound |-> counts.outbound + outbound]

Untracked == UNCHANGED <<domainsOf, contacts, partners, domainStats, domainPartners>>

Within(i) ==
  /\ Internal(traffic[i].from) /\ Internal(traffic[i].to)
  /\ metrics' = [Seen({traffic[i].from, traffic[i].to}) EXCEPT
                   ![traffic[i].from].internal = @ + 1, ![traffic[i].from].total = @ + 1]
  /\ Counted(0, 0, 0)
  /\ Untracked

Outbound(i) ==
  /\ Internal(traffic[i].from) /\ ~Internal(traffic[i].to)
  /\ Track(traffic[i].from, traffic[i].to, TRUE)
  /\ Counted(1, 0, 1)

Inbound(i) ==
  /\ ~Internal(traffic[i].from) /\ Internal(traffic[i].to)
  /\ Track(traffic[i].to, traffic[i].from, FALSE)
  /\ Counted(1, 1, 0)

\* Traffic that never touches the organisation is external all the same.
Outside(i) ==
  /\ ~Internal(traffic[i].from) /\ ~Internal(traffic[i].to)
  /\ UNCHANGED metrics
  /\ Counted(1, 0, 0)
  /\ Untracked

CountInteraction(i) ==
  /\ job = "external"
  /\ Take(i)
  /\ Within(i) \/ Outbound(i) \/ Inbound(i) \/ Outside(i)
  /\ UNCHANGED <<directory, loads, summary>>

(***************************************************************************)
(* The sender is looked up before the receiver.  A load in between is as   *)
(* good as one before or after both, unless it loads who writes to         *)
(* himself: as the sender he is not known yet, as the receiver internal.   *)
(***************************************************************************)
CountNewcomer(i) ==
  LET a == traffic[i].from IN
  /\ job = "external"
  /\ Take(i)
  /\ traffic[i].to = a
  /\ directory[a] = Nobody
  /\ loads < MaxLoads
  /\ \E e \in Loadable[a] : e.internal /\ directory' = [directory EXCEPT ![a] = e]
  /\ loads' = loads + 1
  /\ Track(a, a, FALSE)
  /\ Counted(1, 1, 0)
  /\ UNCHANGED summary

(***************************************************************************)
(* Another goroutine loads an actor.  One that is there keeps its flag and *)
(* its primary address and gets more addresses (SCIMResolver.LoadActor).   *)
(***************************************************************************)
LoadActor(a) ==
  /\ job = "external"
  /\ summary = <<>>
  /\ loads < MaxLoads
  /\ \E e \in Loadable[a] :
       directory' = [directory EXCEPT ![a] =
         IF @ = Nobody THEN e
         ELSE [@ EXCEPT !.emails =
                 @ \o SelectSeq(e.emails, LAMBDA x : x \notin Range(directory[a].emails))]]
  /\ loads' = loads + 1
  /\ UNCHANGED <<trafficVars, metrics, domainsOf, contacts, partners, domainStats,
                 domainPartners, counts, summary>>
-----------------------------------------------------------------------------
(***************************************************************************)
(* The results.  A ratio is the pair of its terms; sorting and the names   *)
(* of top domains are left out.                                            *)
(***************************************************************************)
Spans(m, domains) ==
  10 * m.external > 3 * m.total /\ domains >= MinDomains /\ m.external >= MinExternal

DomainsOf(a) == {p \in DOMAIN domainsOf : p[1] = a}

Results ==
  [counts |-> counts,
   contacts |-> [a \in DOMAIN contacts |->
     [contacts |-> contacts[a], uniqueInternal |-> Cardinality({p \in partners : p[1] = a})]],
   domains |-> [d \in DOMAIN domainStats |->
     [stats |-> domainStats[d],
      uniqueInternal |-> Cardinality({p \in domainPartners : p[1] = d}),
      totalContacts |-> Cardinality({a \in DOMAIN contacts : contacts[a].domain = d})]],
   internals |-> [a \in DOMAIN metrics |->
     [metrics |-> metrics[a], uniqueDomains |-> Cardinality(DomainsOf(a))]],
   spanners |-> {a \in DOMAIN metrics : Spans(metrics[a], Cardinality(DomainsOf(a)))}]

Summarise ==
  /\ job = "external"
  /\ left = {}
  /\ summary = <<>>
  /\ summary' = <<Results>>
  /\ UNCHANGED <<trafficVars, directory, loads, metrics, domainsOf, contacts, partners,
                 domainStats, domainPartners, counts>>

ExternalNext ==
  \/ \E i \in left : CountInteraction(i) \/ CountNewcomer(i)
  \/ \E a \in Actor : LoadActor(a)
  \/ Summarise
-----------------------------------------------------------------------------
(***************************************************************************)
(* Double entry: at every moment of the walk the external actors, the      *)
(* domains and the internal actors account for the same crossings, in and  *)
(* out, and the rest of the traffic is internal or outside.  It holds      *)
(* though actors may become known or internal in the middle of the walk    *)
(* (analysis/external.go:162-190).                                         *)
(***************************************************************************)
BooksBalance ==
  /\ TrafficTyped
  /\ job = "external" =>
     LET inbound(f) == SumOver(DOMAIN f, LAMBDA k : f[k].inbound)
         outbound(f) == SumOver(DOMAIN f, LAMBDA k : f[k].outbound)
         crossings == counts.inbound + counts.outbound
     IN  /\ inbound(contacts) = counts.inbound /\ outbound(contacts) = counts.outbound
         /\ inbound(domainStats) = counts.inbound /\ outbound(domainStats) = counts.outbound
         /\ SumOver(DOMAIN metrics, LAMBDA a : metrics[a].external) = crossings
         /\ SumOf(domainsOf, DOMAIN domainsOf) = crossings
         /\ SumOver(DOMAIN metrics, LAMBDA a : metrics[a].internal)
              = counts.total - counts.external
         /\ counts.total = Cardinality(DOMAIN traffic \ left)

(***************************************************************************)
(* The reference: the same numbers as sizes of sets of interactions.       *)
(***************************************************************************)
Crossing(a, b) == {i \in DOMAIN traffic : traffic[i].from = a /\ traffic[i].to = b}
In(a) == UNION {Crossing(a, b) : b \in {x \in Actor : Internal(x)}}
Out(a) == UNION {Crossing(b, a) : b \in {x \in Actor : Internal(x)}}
Outsiders == {a \in Participants : ~Internal(a) /\ In(a) \cup Out(a) # {}}

(***************************************************************************)
(* If nobody was loaded meanwhile, the results do not depend on the order  *)
(* in which the interactions came: they are the sizes of the sets that     *)
(* their names say, and the contacts of a domain add up to the domain.     *)
(***************************************************************************)
ResultsAreCounts ==
  loads = 0 /\ summary # <<>> =>
    LET r == summary[1]
        at(d) == {a \in Outsiders : extractDomain(a) = d}
        insiders(S) == {b \in Participants : Internal(b) /\
                          \E a \in S : Crossing(a, b) \cup Crossing(b, a) # {}}
    IN  /\ DOMAIN r.contacts = Outsiders
        /\ \A a \in Outsiders :
             LET c == r.contacts[a] IN
             /\ c.contacts.inbound = Cardinality(In(a))
             /\ c.contacts.outbound = Cardinality(Out(a))
             /\ c.uniqueInternal = Cardinality(insiders({a}))
        /\ DOMAIN r.domains = {extractDomain(a) : a \in Outsiders}
        /\ \A d \in DOMAIN r.domains :
             /\ r.domains[d].totalContacts = Cardinality(at(d))
             /\ r.domains[d].uniqueInternal = Cardinality(insiders(at(d)))
             /\ r.domains[d].stats.total =
                  SumOver(at(d), LAMBDA a : r.contacts[a].contacts.total)
        /\ DOMAIN r.internals = {a \in Participants : Internal(a)}
        /\ \A a \in DOMAIN r.internals :
             r.internals[a].uniqueDomains =
               Cardinality({extractDomain(b) : b \in {x \in Outsiders : a \in insiders({x})}})
=============================================================================
