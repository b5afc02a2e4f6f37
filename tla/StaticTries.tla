---------------------------- MODULE StaticTries ---------------------------
(***************************************************************************)
(* How a static analysis of flokbn fills its tries (analysis/static.go):   *)
(* trie workers take one trie each, and for a large log a trie worker has  *)
(* filter workers of its own, which share out the requests and send what   *)
(* they judge to a collector.  What the tries found is gathered under a    *)
(* mutex and handed to the jail phase (StaticJail), unless the user quit.  *)
(*                                                                         *)
(* A request is known by its place in the log, and a chunk, which is a     *)
(* slice of the log, by the places it holds.                               *)
(*                                                                         *)
(* Definitions named Slip... are plausible mistakes in the definition that *)
(* follows them; the specification uses none of them.                      *)
(***************************************************************************)
EXTENDS RequestFilter, Functions

CONSTANTS
  Logs,           (* Sequences of requests that parsing may give.          *)
  Configs,        (* The configurations of the tries: functions from trie  *)
                  (* names to a configuration or NoConfig.                 *)
  NoConfig,
  TrieWorkers,
  FilterWorkers,  (* Filter workers of one trie.                           *)
  ChunkSize,      (* Requests in a chunk; at least 5000 in the code.       *)
  ResultCap       (* Capacity of resultChan.                               *)

ASSUME StaticAssumption ==
  /\ {ChunkSize, ResultCap} \subseteq Nat \ {0}
  /\ \A l \in Logs : l \in Seq(Range(l))

VARIABLES
  log, config,
  caller,      (* "Static" or "StaticWithRequests".                        *)
  large,       (* More than 50000 requests.                                *)
  work,        (* trieWorkChan.                                            *)
  worker,      (* Trie that a trie worker has taken, as a set.             *)
  unsent,      (* Of each trie: requests not yet in a chunk,               *)
  requestChan, (*   chunks that no filter worker has taken,                *)
  chunk,       (*   the rest of each filter worker's chunk,                *)
  resultChan,  (*   judged requests,                                       *)
  result,      (*   the result,                                            *)
  filtering,   (*   whether filter workers run.                            *)
  results,     (* Under the mutex: results by trie,                        *)
  white,       (*   addresses of whitelisted agents,                       *)
  black,       (*   and of blacklisted ones.                               *)
  quit,        (* The context is cancelled.                                *)
  outcome

vars == <<log, config, caller, large, work, worker, unsent, requestChan, chunk,
          resultChan, result, filtering, results, white, black, quit, outcome>>
callVars == <<log, config, caller, large>>
filterVars == <<unsent, requestChan, chunk, resultChan, result, filtering>>
sharedVars == <<results, white, black>>

Tries == DOMAIN config

(* Static passes a log on without its requests if no trie needs them.      *)
NeedsNonIPFields ==
  \E t \in Tries : config[t] # NoConfig /\ HasFilters(config[t])
FastPath == caller = "Static" /\ ~NeedsNonIPFields

(* A heatmap and the terminal interface need the requests themselves.      *)
Callers == {"Static", "StaticWithRequests"}

Init ==
  /\ log \in Logs
  /\ config \in Configs
  /\ caller \in Callers
  /\ large \in BOOLEAN
  /\ work = Tries
  /\ worker = [w \in TrieWorkers |-> {}]
  /\ unsent = [t \in Tries |-> {}]
  /\ requestChan = [t \in Tries |-> <<>>]
  /\ chunk = [t \in Tries |-> [f \in FilterWorkers |-> {}]]
  /\ resultChan = [t \in Tries |-> <<>>]
  /\ result = [t \in Tries |-> NoResult]
  /\ filtering = {}
  /\ results = [t \in {} |-> NoResult]
  /\ white = {}
  /\ black = {}
  /\ quit = FALSE
  /\ outcome = "running"

----------------------------------------------------------------------------
(* Trie workers.                                                           *)

Take(w, t) ==
  /\ log # <<>>
  /\ worker[w] = {}
  /\ t \in work
  /\ work' = work \ {t}
  /\ worker' = [worker EXCEPT ![w] = {t}]
  /\ UNCHANGED <<callVars, sharedVars, quit, outcome>>

Concurrent(t) ==
  IF config[t] = NoConfig THEN FALSE
  ELSE ~FastPath /\ HasFilters(config[t]) /\ large

(* A trie without a configuration is skipped.  The other ways to its       *)
(* result are sequential: the addresses alone, all requests, or one pass   *)
(* of the filter.                                                          *)
SequentialResult(t) ==
  IF config[t] = NoConfig THEN NoResult
  ELSE IF FastPath THEN FromAddresses(ParseFileIPs(log))
  ELSE IF ~HasFilters(config[t]) THEN Unfiltered(log)
  ELSE FilterRequests(config[t], log)

ProcessTrie(w, t) ==
  /\ Take(w, t)
  /\ ~Concurrent(t)
  /\ result' = [result EXCEPT ![t] = SequentialResult(t)]
  /\ UNCHANGED <<unsent, requestChan, chunk, resultChan, filtering>>

StartFilter(w, t) ==
  /\ Take(w, t)
  /\ Concurrent(t)
  /\ filtering' = filtering \cup {t}
  /\ unsent' = [unsent EXCEPT ![t] = DOMAIN log]
  /\ UNCHANGED <<requestChan, chunk, resultChan, result>>

(* What a finished trie adds to the shared results.                        *)
Merge(w, t) ==
  /\ t \in worker[w] \ filtering
  /\ results' = [n \in DOMAIN results \cup {t} |->
                   IF n = t THEN result[t] ELSE results[n]]
  /\ white' = white \cup result[t].white
  /\ black' = black \cup result[t].black
  /\ worker' = [worker EXCEPT ![w] = {}]
  /\ UNCHANGED <<callVars, work, filterVars, quit, outcome>>

----------------------------------------------------------------------------
(* The filter of one trie.                                                 *)

Distribute(t) ==
  /\ Len(requestChan[t]) < Cardinality(FilterWorkers)
  /\ \E i \in unsent[t] :
       LET slice == {j \in unsent[t] : j < i + ChunkSize}
       IN  /\ \A j \in unsent[t] : i <= j
           /\ requestChan' = [requestChan EXCEPT ![t] = Append(@, slice)]
           /\ unsent' = [unsent EXCEPT ![t] = @ \ slice]
  /\ UNCHANGED <<callVars, work, worker, chunk, resultChan, result, filtering,
                 sharedVars, quit, outcome>>

TakeChunk(t, f) ==
  /\ chunk[t][f] = {}
  /\ requestChan[t] # <<>>
  /\ chunk' = [chunk EXCEPT ![t][f] = Head(requestChan[t])]
  /\ requestChan' = [requestChan EXCEPT ![t] = Tail(@)]
  /\ UNCHANGED <<callVars, work, worker, unsent, resultChan, result, filtering,
                 sharedVars, quit, outcome>>

(* A rejected request is not sent.                                         *)
JudgeNext(t, f) ==
  /\ \E i \in chunk[t][f] :
       /\ \A j \in chunk[t][f] : i <= j
       /\ \/ /\ Passes(config[t], log[i])
             /\ Len(resultChan[t]) < ResultCap
             /\ resultChan' = [resultChan EXCEPT ![t] =
                  Append(@, [at |-> i, judged |-> Judge(config[t], log[i])])]
          \/ /\ ~Passes(config[t], log[i])
             /\ UNCHANGED resultChan
       /\ chunk' = [chunk EXCEPT ![t][f] = @ \ {i}]
  /\ UNCHANGED <<callVars, work, worker, unsent, requestChan, result,
                 filtering, sharedVars, quit, outcome>>

WorkersDone(t) ==
  /\ unsent[t] = {} /\ requestChan[t] = <<>>
  /\ \A f \in FilterWorkers : chunk[t][f] = {}
SlipCollectAfter(t) == resultChan[t] # <<>> /\ WorkersDone(t)
CanCollect(t) == resultChan[t] # <<>>

CollectNext(t) ==
  /\ CanCollect(t)
  /\ result' = [result EXCEPT ![t] = CollectOne(@, Head(resultChan[t]).judged)]
  /\ resultChan' = [resultChan EXCEPT ![t] = Tail(@)]
  /\ UNCHANGED <<callVars, work, worker, unsent, requestChan, chunk, filtering,
                 sharedVars, quit, outcome>>

(* The trie worker waits for the filter workers, then for the collector.   *)
AllCollected(t) == WorkersDone(t) /\ resultChan[t] = <<>>

EndFilter(t) ==
  /\ t \in filtering
  /\ AllCollected(t)
  /\ filtering' = filtering \ {t}
  /\ UNCHANGED <<callVars, work, worker, unsent, requestChan, chunk,
                 resultChan, result, sharedVars, quit, outcome>>

----------------------------------------------------------------------------
(* The calling goroutine.                                                  *)

(* Only the TUI passes a context that can be cancelled, and it calls       *)
(* StaticWithRequestsCtx.                                                  *)
Quit ==
  /\ caller = "StaticWithRequests"
  /\ ~quit
  /\ outcome = "running"
  /\ quit' = TRUE
  /\ UNCHANGED <<callVars, work, worker, filterVars, sharedVars, outcome>>

SlipNoJoin == work = {}
Joined == work = {} /\ \A w \in TrieWorkers : worker[w] = {}

(* An empty log ends the analysis before the jail phase.                   *)
NoRequests ==
  /\ outcome = "running"
  /\ log = <<>>
  /\ outcome' = "empty"
  /\ UNCHANGED <<callVars, work, worker, filterVars, sharedVars, quit>>

(* StaticWithRequestsCtx looks at the context once more before it begins   *)
(* the jail phase.                                                         *)
Finish ==
  /\ outcome = "running"
  /\ log # <<>>
  /\ ~FastPath
  /\ Joined
  /\ outcome' = IF quit THEN "cancelled" ELSE "jail phase"
  /\ UNCHANGED <<callVars, work, worker, filterVars, sharedVars, quit>>

(* Static has trie workers of its own, for tries of the same addresses,    *)
(* and no context.                                                         *)
FinishStatic ==
  /\ outcome = "running"
  /\ log # <<>>
  /\ FastPath
  /\ Joined
  /\ outcome' = "jail phase"
  /\ UNCHANGED <<callVars, work, worker, filterVars, sharedVars, quit>>

Analyse ==
  \/ \E w \in TrieWorkers, t \in Tries :
       ProcessTrie(w, t) \/ StartFilter(w, t) \/ Merge(w, t)
  \/ \E t \in Tries :
       \/ Distribute(t)
       \/ \E f \in FilterWorkers : TakeChunk(t, f) \/ JudgeNext(t, f)
       \/ CollectNext(t)
       \/ EndFilter(t)
  \/ NoRequests
  \/ Finish
  \/ FinishStatic

Next == Analyse \/ Quit

Spec == Init /\ [][Next]_vars

(* Every goroutine is scheduled; nobody needs to quit.                     *)
FairSpec == Spec /\ WF_vars(Analyse)

----------------------------------------------------------------------------
(* Properties                                                              *)

(* What a trie should get out of the log, request by request.              *)
Wanted(t) == {i \in DOMAIN log : Passes(config[t], log[i])}
Counted(t) ==
  {i \in Wanted(t) : log[i].ip # 0 /\ ~Whitelisted(config[t], log[i])}
Dropped(t) ==
  {i \in Wanted(t) : log[i].ip # 0 /\ Whitelisted(config[t], log[i])}
Listed(t) == {i \in Counted(t) : Blacklisted(config[t], log[i])}
AddressesOf(is) == {log[i].ip : i \in is}
Expected(t) ==
  IF config[t] = NoConfig THEN NoResult
  ELSE [ips |-> [ip \in AddressesOf(Counted(t)) |->
                   Cardinality({i \in Counted(t) : log[i].ip = ip})],
        filtered |-> Cardinality(Counted(t)),
        invalid |-> Cardinality({i \in Wanted(t) : log[i].ip = 0}),
        excluded |-> Cardinality(Dropped(t)),
        white |-> AddressesOf(Dropped(t)),
        black |-> AddressesOf(Listed(t))]

(* Every way to a trie's result gives the same: from the addresses alone,  *)
(* without filters, in one pass, or shared out among filter workers in any *)
(* order (filterRequestsConcurrent and filterRequests, processTrie and     *)
(* processTrieFromSortedIPs).                                              *)
EveryPathAgrees == \A t \in DOMAIN results : results[t] = Expected(t)

(* The jail phase begins only when every trie has reported, with the       *)
(* addresses of all of them: a trie that is late would take its detections *)
(* and its whitelisted addresses with it (trieWG.Wait, triesMutex).        *)
JailPhaseIsComplete ==
  outcome = "jail phase" =>
    /\ DOMAIN results = Tries
    /\ white = UNION {Expected(t).white : t \in Tries}
    /\ black = UNION {Expected(t).black : t \in Tries}

(* The analysis ends, with resultChan full or empty and chunks waiting     *)
(* (the order of the waits in filterRequestsConcurrent).                   *)
AnalysisEnds == <>(outcome # "running")
=============================================================================
