--------------------------- MODULE SlidingWindow ---------------------------
(***************************************************************************)
(* A sliding window of flokbn (sliding/sliding_window.go): the requests of *)
(* the last timeLimit, at most maxEntries of them, kept in order of        *)
(* arrival together with the trie and the per-address statistics that      *)
(* count them.  Evictions leave dead nodes behind in the trie's allocator  *)
(* until the trie is rebuilt.                                              *)
(*                                                                         *)
(* Update runs entry by entry, as the code does.  It reads the clock once. *)
(* Requests carry the timestamp of their log line, and may arrive late.    *)
(*                                                                         *)
(* Definitions named Slip... are plausible mistakes in the definition that *)
(* follows them; the specification uses none of them.                      *)
(***************************************************************************)
EXTENDS Trie, Slices

CONSTANTS
  Requesters,    (* Addresses that send requests.                          *)
  Delays,        (* How late a request can arrive.                         *)
  MaxBatch,      (* Bound: requests of one update.                         *)
  TimeLimit, MaxEntries,
  RebuildMinEvictions,
  ArgSets,       (* Cluster arguments of the detection.                    *)
  MaxTime        (* Bound of the clock.                                    *)

(* The live loop drops requests whose address did not parse: address 0.    *)
NoAddress == [i \in 1..W |-> 0]

ASSUME WindowAssumption ==
  /\ Requesters \subseteq Address \ {NoAddress}
  /\ Delays \subseteq Nat
  /\ MaxBatch \in Nat
  /\ TimeLimit \in Nat
  /\ MaxEntries \in Nat
  /\ RebuildMinEvictions \in Nat \ {0}
  /\ ArgSets \subseteq [size : Nat \ {0}, minDepth : 0..W, maxDepth : 1..W, threshold : Nat]
  /\ \A a \in ArgSets : a.minDepth <= a.maxDepth
  /\ MaxTime \in Nat

VARIABLES
  pc,         (* Phase of the update under way, or "idle".                 *)
  queue,      (* IPQueue.                                                  *)
  inserted,   (* Entries of queue that InsertNew has counted.              *)
  evicted,    (* Leading entries of queue that DropOld has uncounted.      *)
  trie,
  stats,      (* IPStats: last timestamp and count of each address.        *)
  dead,       (* evictedSinceRebuild.                                      *)
  allocated,  (* Nodes taken from the trie's allocator.                    *)
  now

vars == <<pc, queue, inserted, evicted, trie, stats, dead, allocated, now>>

TimedIP == [ip : Requesters, time : Nat]

Init ==
  /\ pc = "idle"
  /\ queue = <<>>
  /\ inserted = 0
  /\ evicted = 0
  /\ trie = Empty
  /\ stats = [ip \in {} |-> [last |-> 0, count |-> 0]]
  /\ dead = 0
  /\ allocated = 0
  /\ now = 0

----------------------------------------------------------------------------
(* InsertNew.                                                              *)

AddStat(s, e) ==
  [ip \in DOMAIN s \cup {e.ip} |->
     IF ip # e.ip THEN s[ip]
     ELSE [last |-> e.time, count |-> 1 + (IF ip \in DOMAIN s THEN s[ip].count ELSE 0)]]

RemoveStat(s, ip) ==
  IF ip \notin DOMAIN s THEN s
  ELSE IF s[ip].count <= 1 THEN Restrict(s, DOMAIN s \ {ip})
  ELSE [s EXCEPT ![ip] = [last |-> @.last, count |-> @.count - 1]]

Batches ==
  LET arriving == {[ip |-> a, time |-> now - d] : a \in Requesters, d \in {x \in Delays : x <= now}}
  IN  UNION {[1..n -> arriving] : n \in 0..MaxBatch}

Begin(batch) ==
  /\ pc = "idle"
  /\ queue' = queue \o batch
  /\ pc' = "insert"
  /\ UNCHANGED <<inserted, evicted, trie, stats, dead, allocated, now>>

InsertNext ==
  /\ pc = "insert"
  /\ inserted < Len(queue)
  /\ LET e == queue[inserted + 1]
     IN  /\ trie' = Insert(trie, e.ip)
         /\ allocated' = allocated + Cardinality(Path(e.ip) \ DOMAIN trie)
         /\ stats' = AddStat(stats, e)
  /\ inserted' = inserted + 1
  /\ UNCHANGED <<pc, queue, evicted, dead, now>>

EndInsert ==
  /\ pc = "insert"
  /\ inserted = Len(queue)
  /\ pc' = "expire"
  /\ UNCHANGED <<queue, inserted, evicted, trie, stats, dead, allocated, now>>

----------------------------------------------------------------------------
(* DropOld.                                                                *)

Expired(e) == e.time < now - TimeLimit

Evict ==
  /\ trie' = Delete(trie, queue[evicted + 1].ip)
  /\ stats' = RemoveStat(stats, queue[evicted + 1].ip)
  /\ evicted' = evicted + 1
  /\ UNCHANGED <<pc, queue, inserted, dead, allocated, now>>

(* The loop over the time limit stops at the first entry within it.        *)
ExpireNext ==
  /\ pc = "expire"
  /\ evicted < Len(queue)
  /\ Expired(queue[evicted + 1])
  /\ Evict

EndExpire ==
  /\ pc = "expire"
  /\ evicted < Len(queue) => ~ Expired(queue[evicted + 1])
  /\ pc' = "trim"
  /\ UNCHANGED <<queue, inserted, evicted, trie, stats, dead, allocated, now>>

TooMany == Len(queue) - evicted > MaxEntries

TrimNext == pc = "trim" /\ TooMany /\ Evict

SlipRebuildNever(gone, remaining) == FALSE
RebuildDue(gone, remaining) == gone >= RebuildMinEvictions /\ gone >= remaining

(* What a rebuild counts: the queue without address 0.                     *)
Survivors(q) ==
  LET kept == Compact(q, {i \in DOMAIN q : q[i].ip # NoAddress})
  IN  [i \in DOMAIN kept |-> kept[i].ip]

Cut ==
  /\ queue' = SubSeq(queue, evicted + 1, Len(queue))
  /\ inserted' = Len(queue) - evicted
  /\ evicted' = 0

(* The queue is cut, and the trie rebuilt if enough of it is dead.         *)
EndUpdate ==
  /\ pc = "trim"
  /\ ~ TooMany
  /\ Cut
  /\ LET gone == dead + evicted
     IN  \/ /\ RebuildDue(gone, Len(queue'))
            /\ trie' = BuildSorted(Survivors(queue'))
            /\ allocated' = Cardinality(DOMAIN trie')
            /\ dead' = 0
         \/ /\ ~ RebuildDue(gone, Len(queue'))
            /\ dead' = gone
            /\ UNCHANGED <<trie, allocated>>
  /\ pc' = "idle"
  /\ UNCHANGED <<stats, now>>

(* Within an update the time that passes goes unnoticed.                   *)
Tick ==
  /\ pc = "idle"
  /\ now < MaxTime
  /\ now' = now + 1
  /\ UNCHANGED <<pc, queue, inserted, evicted, trie, stats, dead, allocated>>

Next ==
  \/ \E batch \in Batches : Begin(batch)
  \/ InsertNext
  \/ EndInsert
  \/ ExpireNext
  \/ EndExpire
  \/ TrimNext
  \/ EndUpdate
  \/ Tick

Spec == Init /\ [][Next]_vars

----------------------------------------------------------------------------
(* Properties.                                                             *)

(* Indices of the queue that count at present.                             *)
Live == (evicted + 1)..inserted

(* The trie and the statistics are the queue, counted twice: at every step *)
(* of an update, through insertions, evictions and rebuilds, a node is     *)
(* there exactly if a live request is below it, and its count is the       *)
(* number of these requests; an address has statistics exactly if a live   *)
(* request is its, with their number and the latest arrival, which only    *)
(* first-in-first-out eviction keeps.                                      *)
CountsFollowQueue ==
  /\ DOMAIN trie = UNION {Path(queue[i].ip) : i \in Live}
  /\ \A n \in DOMAIN trie : trie[n] = Cardinality({i \in Live : n \in Path(queue[i].ip)})
  /\ DOMAIN stats = {queue[i].ip : i \in Live}
  /\ \A ip \in DOMAIN stats :
       LET of == {i \in Live : queue[i].ip = ip}
       IN  /\ stats[ip].count = Cardinality(of)
           /\ \E i \in of : stats[ip].last = queue[i].time /\ \A j \in of : j <= i

(* What an update leaves is bounded three times over: in number; in time,   *)
(* as the loop over the limit ended at a fresh request, unless the window   *)
(* is full (behind that request, a late one may stay); and in memory, as    *)
(* the nodes taken from the allocator follow the window's size, and not the *)
(* number of addresses ever seen.                                          *)
WindowBounded ==
  [][pc = "trim" /\ pc' = "idle" =>
       /\ Len(queue') <= MaxEntries
       /\ Len(queue') \in 1..(MaxEntries - 1) => ~ Expired(queue'[1])
       /\ allocated' <= W * (2 * Len(queue') + RebuildMinEvictions)]_vars

(* The requests of a range, as the queue has them.                         *)
InRange(range) == {i \in Live : Within(queue[i].ip, range)}

(* What the detection reports of a window, for any cluster arguments: the  *)
(* ranges are disjoint, within the depths asked for, and each has at least *)
(* the number of requests asked for.  The count reported with any range,   *)
(* the /0 included, is the number of its requests.                         *)
ClustersSound ==
  pc = "idle" =>
    /\ \A a \in ArgSets :
         LET found == CollectCIDRs(trie, a)
         IN  \A c \in found :
               /\ Cardinality(InRange(c)) >= a.size
               /\ Len(c) \in a.minDepth..a.maxDepth
               /\ \A d \in found : c # d => ~ Within(c, d)
    /\ \A range \in {Root} \cup Node :
         CountInRange(trie, range) = Cardinality(InRange(range))

(* Nothing heavy is missed, however the traffic is spread: a range of      *)
(* maxDepth bits with enough requests is in some reported range.           *)
HeavyHittersFound ==
  pc = "idle" => \A a \in ArgSets :
    LET found == CollectCIDRs(trie, a)
    IN  \A n \in {m \in Node : Len(m) = a.maxDepth} :
          Cardinality(InRange(n)) >= a.size => \E c \in found : Within(n, c)
=============================================================================
