--------------------------- MODULE RequestFilter --------------------------
(***************************************************************************)
(* What a static analysis of flokbn does with each request before the trie *)
(* is built (analysis/filter.go, analysis/static.go): time bounds, regular *)
(* expressions and User-Agent lists.  A result collects what one trie gets *)
(* out of a log.                                                           *)
(*                                                                         *)
(* A request has an address (0: none could be parsed), an instant and the  *)
(* time its own zone's clock showed then, an agent and a uri.  A trie's    *)
(* configuration has bounds and regular expressions, and carries the       *)
(* User-Agent lists, which are the same for all tries of an analysis.      *)
(*                                                                         *)
(* Definitions named Slip... are plausible mistakes in the definition that *)
(* follows them; nothing uses them.                                        *)
(***************************************************************************)
EXTENDS Naturals, Sequences, FiniteSets, Bags

NoBound == [set |-> FALSE, hasOffset |-> FALSE, at |-> 0]
Bound(hasOffset, at) == [set |-> TRUE, hasOffset |-> hasOffset, at |-> at]
NoRegex == [set |-> FALSE, matches |-> {}]
Regex(matches) == [set |-> TRUE, matches |-> matches]

(* A bound with a zone of its own is compared as an instant, one without   *)
(* as the time on the request's clock.                                     *)
Clock(bound, r) == IF bound.hasOffset THEN r.instant ELSE r.wall
Excluded(tc, r) ==
  \/ tc.start.set /\ Clock(tc.start, r) < tc.start.at
  \/ tc.end.set /\ Clock(tc.end, r) > tc.end.at

RegexGate(regex, value) == regex.set => value # "" /\ value \in regex.matches
ShouldIncludeRequest(tc, r) ==
  RegexGate(tc.agentRegex, r.agent) /\ RegexGate(tc.uriRegex, r.uri)
Passes(tc, r) == ~Excluded(tc, r) /\ ShouldIncludeRequest(tc, r)

(* An agent on both lists counts as whitelisted.                           *)
Whitelisted(tc, r) == r.agent \in tc.whiteAgents
Blacklisted(tc, r) == r.agent \in tc.blackAgents \ tc.whiteAgents

HasAgentLists(tc) == tc.whiteAgents \cup tc.blackAgents # {}
HasFilters(tc) ==
  HasAgentLists(tc) \/ tc.agentRegex.set \/ tc.uriRegex.set \/ tc.start.set
  \/ tc.end.set

----------------------------------------------------------------------------
(* Results.  invalid, excluded and filtered are counters.                  *)

NoResult ==
  [ips |-> EmptyBag, filtered |-> 0, invalid |-> 0, excluded |-> 0,
   white |-> {}, black |-> {}]

Invalid(res) == [res EXCEPT !.invalid = @ + 1]
Inserted(res, ip) ==
  [res EXCEPT !.ips = @ (+) SetToBag({ip}), !.filtered = @ + 1]

(* filterRequests: one pass over the requests.                             *)
FilterOne(tc, res, r) ==
  IF ~Passes(tc, r) THEN res
  ELSE IF r.ip = 0 THEN Invalid(res)
  ELSE IF Whitelisted(tc, r)
  THEN [res EXCEPT !.white = @ \cup {r.ip}, !.excluded = @ + 1]
  ELSE IF Blacklisted(tc, r)
  THEN [Inserted(res, r.ip) EXCEPT !.black = @ \cup {r.ip}]
  ELSE Inserted(res, r.ip)
FilterRequests(tc, log) ==
  LET after[n \in 0..Len(log)] ==
        IF n = 0 THEN NoResult ELSE FilterOne(tc, after[n - 1], log[n])
  IN  after[Len(log)]

(* The branch of processTrie for a trie without filters, and the same      *)
(* result from the addresses alone (processTrieFromSortedIPs).             *)
InsertOne(res, ip) == IF ip = 0 THEN Invalid(res) ELSE Inserted(res, ip)
Unfiltered(log) ==
  LET after[n \in 0..Len(log)] ==
        IF n = 0 THEN NoResult ELSE InsertOne(after[n - 1], log[n].ip)
  IN  after[Len(log)]

(* The parser gives the valid addresses, in any order, and their number.   *)
Valid(log) == {i \in DOMAIN log : log[i].ip # 0}
Addresses(log) ==
  [ip \in {log[i].ip : i \in Valid(log)} |->
     Cardinality({i \in Valid(log) : log[i].ip = ip})]
ParseFileIPs(log) ==
  [ips |-> Addresses(log), length |-> Cardinality(Valid(log)),
   invalid |-> Cardinality(DOMAIN log \ Valid(log))]
FromAddresses(parsed) ==
  [ips |-> parsed.ips, filtered |-> parsed.length, invalid |-> parsed.invalid,
   excluded |-> 0, white |-> {}, black |-> {}]

(* filterWorker judges a request; the collector counts what was judged.    *)
Judge(tc, r) ==
  [ip |-> r.ip, include |-> ~Whitelisted(tc, r),
   white |-> Whitelisted(tc, r), black |-> Blacklisted(tc, r)]

CollectLists(res, j) ==
  [res EXCEPT !.white = IF j.white THEN @ \cup {j.ip} ELSE @,
              !.black = IF j.black THEN @ \cup {j.ip} ELSE @]
CollectCounts(res, j) ==
  IF j.include THEN Inserted(res, j.ip)
  ELSE IF j.white THEN [res EXCEPT !.excluded = @ + 1]
  ELSE res
SlipInvalidLast(res, j) ==
  IF j.ip = 0 /\ ~j.white THEN Invalid(res)
  ELSE CollectLists(CollectCounts(res, j), j)
CollectOne(res, j) ==
  IF j.ip = 0 THEN Invalid(res)
  ELSE CollectLists(CollectCounts(res, j), j)
=============================================================================
