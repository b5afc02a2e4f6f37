-------------------------------- MODULE Tui --------------------------------
(***************************************************************************)
(* The terminal interface of a static run (src/tui, started by             *)
(* cli/api.go executeTUI).  One goroutine, the tview event loop, runs the  *)
(* key handlers and, one at a time, the closures that other goroutines     *)
(* queue with QueueUpdateDraw; a goroutine that queues a closure waits     *)
(* until it has run.  Beside the loop run the analysis, the progress       *)
(* animation, two precaching goroutines, the goroutine that switches the   *)
(* trie and those that cache one trie after a miss.                        *)
(*                                                                         *)
(* tview is external: its queue of 100 closures never fills here, since    *)
(* every goroutine has at most one closure in it, and a stopped loop runs  *)
(* none.  A critical section of trieCache.mu queues nothing and shows      *)
(* nothing before it ends, so it is one step.  A text, a traffic matrix or *)
(* an overlay grid stands for the tries and sets it was made from.         *)
(* Layout, focus, scrolling and the wording of the status bar are left     *)
(* out.  The log holds at least one IPv4 request.                          *)
(***************************************************************************)
EXTENDS Integers, Sequences

CONSTANTS NTries,        \* number of tries of the result
          NSets,         \* NSets[t]: number of cluster sets of trie t
          ScaleModes,    \* number of brightness mappings
          MaxPrecachers, \* bound: goroutines caching one trie after a miss
          MaxRedraws     \* bound: presses of the keys that redraw the view

Trie == 0..(NTries - 1)
None == NTries           \* no trie

ASSUME TuiAssumption ==
  /\ NTries \in Nat \ {0} /\ NSets \in [Trie -> Nat]
  /\ ScaleModes \in Nat \ {0} /\ MaxPrecachers \in Nat /\ MaxRedraws \in Nat

VARIABLES
  loop,         \* the event loop: "up", or "stopped" by 'q'
  page,         \* the page in front
  progress,     \* what the progress page says: "working" or "error"
  complete,     \* analysisComplete
  currentTrie, jsonResult,    \* the trie shown and the output it is shown from
  panels,       \* the tries the summary and the other three panels show
  view,         \* the visualization view
  redraws,      \* the presses so far of the keys that redraw it
  requests,     \* whether the request data has been set
  cache,        \* trieCache
  queue,        \* the closures queued on the event loop
  analysis, precacher, builder,  \* where these goroutines stand
  switching,    \* switchingTrie
  switcher,     \* the goroutine of switchTrieAsync
  singles       \* the goroutines that cache one trie after a miss

uiVars == <<redraws, page, progress, currentTrie, jsonResult, panels, view>>
workers == <<analysis, precacher, builder, switching, switcher, singles>>
vars == <<uiVars, workers, loop, complete, requests, cache, queue>>

----------------------------------------------------------------------------
\* A map after m[k] = v.
Put(m, k, v) == [x \in DOMAIN m \cup {k} |-> IF x = k THEN v ELSE m[x]]

----------------------------------------------------------------------------
(* The visualization view                                                  *)

Blank == <<>>                    \* an overlay without a dot
Empty == [kind |-> "empty"]      \* a text view nothing was written to
Loading == [kind |-> "loading"]
Heatmap(of, overlay) == [kind |-> "heatmap", of |-> of, overlay |-> overlay]

NoView == [total |-> -1]

NewView(total) ==
  [total |-> total, set |-> 0, mode |-> 0, requests |-> FALSE,
   traffic |-> FALSE, grids |-> <<>>, renders |-> <<>>, text |-> Empty]

\* The view with the set it is at made to fit the result of trie r.
CurrentClusterSet(v, r) ==
  IF NSets[r] = 0 THEN v
  ELSE [v EXCEPT !.total = NSets[r], !.set = IF @ >= NSets[r] THEN 0 ELSE @]

\* The grid of the trie t and set the view is at, cached or made from the
\* result of trie r and the requests that the view has.
EnsureClusteredData(v, r, t) ==
  LET key == <<t, v.set>>
      w == CurrentClusterSet(v, r)
  IN  IF key \in DOMAIN v.grids THEN v
      ELSE [w EXCEPT !.grids =
              Put(@, key, IF v.requests /\ NSets[r] > 0 THEN <<r, w.set>> ELSE Blank)]

\* The view with a fresh text, made from the result of trie r under index t.
Render(v, r, t) ==
  LET w == IF v.set < v.total THEN CurrentClusterSet(v, r) ELSE v
      e == EnsureClusteredData(w, r, t)
  IN  IF ~w.traffic THEN [w EXCEPT !.text = Loading]
      ELSE [e EXCEPT !.text = Heatmap(<<r, w.set, w.mode>>, e.grids[<<t, w.set>>])]

RenderCacheKey(v, t) == <<t, v.set, v.mode>>

CacheRender(v, r, t) ==
  LET w == Render(v, r, t)
  IN  [w EXCEPT !.renders = Put(@, RenderCacheKey(v, t), w.text)]

RenderCached(v, r, t) ==
  IF RenderCacheKey(v, t) \in DOMAIN v.renders
  THEN [v EXCEPT !.text = v.renders[RenderCacheKey(v, t)]]
  ELSE CacheRender(v, r, t)

\* The precache renders set s of trie t under an override: from the output of
\* that trie, not from the one that the event loop shows.
SlipRendersShownTrie(v, t) == Render(v, jsonResult, t)
PreRender(v, t) == Render(v, t, t)

\* The view that the builder makes on its own: every set of every trie
\* rendered, then set back to trie 0, without the requests.
BuiltView ==
  LET sets == UNION {{t} \X (0..NSets[t] - 1) : t \in Trie}
      Filled(p) == PreRender([NewView(NSets[p[1]]) EXCEPT
                                !.set = p[2], !.requests = TRUE, !.traffic = TRUE], p[1])
  IN  [NewView(NSets[0]) EXCEPT
         !.traffic = TRUE,
         !.grids = [p \in sets |-> Filled(p).grids[p]],
         !.renders = [key \in {<<p[1], p[2], 0>> : p \in sets} |->
                        Filled(<<key[1], key[2]>>).text]]

UpdateMetadataOnly(v, r) == [v EXCEPT !.total = NSets[r], !.set = 0]

UpdateForCurrentTrie(v, r, t) ==
  RenderCached([v EXCEPT !.total = NSets[r], !.set = 0, !.traffic = @ \/ v.requests], r, t)

\* The switch of the view to trie t from the trie cache.
UpdateFromCache(v, r, t) ==
  LET w == UpdateMetadataOnly(v, r)
      grid == IF cache.overlays[t] THEN <<t, 0>> ELSE Blank
  IN  Render([w EXCEPT !.traffic = (cache.traffic = "full"),
                       !.grids = IF NSets[t] = 0 THEN @ ELSE Put(@, <<t, 0>>, grid)], r, t)

----------------------------------------------------------------------------
(* The trie cache: the tries whose output it has, the texts, whether the   *)
(* overlays were made with the requests, and the traffic of all requests,  *)
(* counted once.                                                           *)

NoCache == [outputs |-> {}, texts |-> <<>>, overlays |-> [t \in Trie |-> FALSE],
            traffic |-> "none"]

TextsOf(t, r) == [summary |-> t, rest |-> r]

CacheTries(S, given) ==
  [outputs |-> cache.outputs \cup S,
   texts |-> [t \in DOMAIN cache.texts \cup S |->
               IF t \in S THEN TextsOf(t, t) ELSE cache.texts[t]],
   overlays |-> [t \in Trie |-> IF t \in S THEN given ELSE cache.overlays[t]],
   traffic |-> IF cache.traffic # "none" THEN cache.traffic
               ELSE IF given THEN "full" ELSE "empty"]

\* displayResults with the trie t and the output r: cached texts, or new ones
\* that it caches.
Display(t, r) ==
  IF t \in DOMAIN cache.texts
  THEN panels' = cache.texts[t] /\ UNCHANGED cache
  ELSE /\ panels' = TextsOf(t, r)
       /\ cache' = [cache EXCEPT !.texts = Put(@, t, TextsOf(t, r))]

Closure(kind, t, by) == [kind |-> kind, trie |-> t, by |-> by, view |-> NoView]
Enqueue(kind, t, by) == queue' = Append(queue, Closure(kind, t, by))

\* The closure that goroutine "by" queued has run.
Ran(by) == \A i \in 1..Len(queue) : queue[i].by # by

Idle == [at |-> "idle", trie |-> None, given |-> FALSE]
Free == {p \in 1..MaxPrecachers : singles[p] = Idle}

Init ==
  /\ loop = "up" /\ page = "progress" /\ progress = "working" /\ complete = FALSE
  /\ currentTrie = 0 /\ jsonResult = None /\ panels = TextsOf(None, None)
  /\ view = NoView /\ redraws = 0 /\ requests = FALSE /\ cache = NoCache /\ queue = <<>>
  /\ analysis = "running" /\ precacher = "idle" /\ builder = "idle"
  /\ switching = FALSE /\ switcher = Idle
  /\ singles = [p \in 1..MaxPrecachers |-> Idle]

----------------------------------------------------------------------------
(* The keys                                                                *)

Ready == loop = "up" /\ complete

KeyResults == /\ Ready /\ page' = "results"
              /\ UNCHANGED <<redraws, progress, currentTrie, jsonResult, panels, view,
                             workers, loop, complete, requests, cache, queue>>

KeyProgress == /\ loop = "up" /\ page' = "progress"
               /\ UNCHANGED <<redraws, progress, currentTrie, jsonResult, panels, view,
                              workers, loop, complete, requests, cache, queue>>

\* 'v': the view is made on demand when there is none yet.
ShowVisualization ==
  /\ Ready /\ page' = "visualization"
  /\ view' = IF view # NoView THEN view
             ELSE IF ~requests THEN NewView(NSets[jsonResult])
             ELSE Render([NewView(NSets[jsonResult]) EXCEPT
                            !.requests = TRUE, !.traffic = TRUE], jsonResult, currentTrie)
  /\ UNCHANGED <<redraws, progress, currentTrie, jsonResult, panels, workers, loop,
                 complete, requests, cache, queue>>

\* 't': one switch at a time.
NextTrie ==
  /\ Ready /\ NTries > 1 /\ ~switching
  /\ LET t == (currentTrie + 1) % NTries
     IN  /\ t \in cache.outputs \/ Free # {}
         /\ switcher' = [Idle EXCEPT !.at = "start", !.trie = t]
  /\ switching' = TRUE
  /\ UNCHANGED <<uiVars, loop, complete, requests, cache, queue, analysis,
                 precacher, builder, singles>>

InView == Ready /\ page = "visualization" /\ view # NoView

Redraw(v) ==
  /\ redraws < MaxRedraws /\ redraws' = redraws + 1
  /\ view' = RenderCached(v, jsonResult, currentTrie)
  /\ UNCHANGED <<page, progress, currentTrie, jsonResult, panels, workers,
                 loop, complete, requests, cache, queue>>

ToggleIntensityScale ==
  InView /\ Redraw([view EXCEPT !.mode = (@ + 1) % ScaleModes])

MoveClusterSet(step) ==
  /\ InView /\ view.total > 0
  /\ Redraw([view EXCEPT !.set = (@ + step + view.total) % view.total])

NextClusterSet == MoveClusterSet(1)
PrevClusterSet == MoveClusterSet(-1)

\* 'q': Run returns, shuttingDown is set and the process ends, with all it
\* showed.  What other goroutines still do before that shows nothing.
KeyQuit ==
  /\ loop = "up" /\ loop' = "stopped"
  /\ page' = "progress" /\ complete' = FALSE /\ UNCHANGED progress
  /\ currentTrie' = 0 /\ jsonResult' = None /\ panels' = TextsOf(None, None)
  /\ view' = NoView /\ redraws' = 0 /\ requests' = FALSE /\ cache' = NoCache
  /\ queue' = <<>> /\ analysis' = "done" /\ precacher' = "idle" /\ builder' = "idle"
  /\ switching' = FALSE /\ switcher' = Idle
  /\ singles' = [p \in 1..MaxPrecachers |-> Idle]

----------------------------------------------------------------------------
(* The closures, run by the event loop in the order they were queued       *)

Update(kind) == /\ loop = "up" /\ queue # <<>> /\ Head(queue).kind = kind
                /\ queue' = Tail(queue)
                /\ UNCHANGED <<redraws, workers, loop, complete, requests>>

ShowResults ==
  /\ Update("results") /\ Display(currentTrie, jsonResult) /\ page' = "results"
  /\ UNCHANGED <<progress, currentTrie, jsonResult, view>>

ShowErrorText ==
  /\ Update("error") /\ progress' = "error" /\ page' = "progress"
  /\ UNCHANGED <<currentTrie, jsonResult, panels, view, cache>>

ShowProgress ==
  /\ Update("progress") /\ progress' = "working"
  /\ UNCHANGED <<page, currentTrie, jsonResult, panels, view, cache>>

\* The built view is dropped when one was made on demand.
PublishView ==
  /\ Update("publish")
  /\ view' = IF view # NoView THEN view
             ELSE RenderCached(Head(queue).view, jsonResult, currentTrie)
  /\ UNCHANGED <<page, progress, currentTrie, jsonResult, panels, cache>>

\* What a switch to trie t shows from the trie cache.
ShowFromCache(t) ==
  /\ jsonResult' = t /\ Display(t, t)
  /\ view' = IF view = NoView THEN view ELSE UpdateFromCache(view, t, t)
  /\ UNCHANGED <<page, progress>>

SwitchCached ==
  Update("cached") /\ currentTrie' = Head(queue).trie /\ ShowFromCache(Head(queue).trie)

\* The closure after a trie has been cached: only if it is still shown.
SlipAnyTrie(t) == TRUE
StillShown(t) == currentTrie = t
Recheck ==
  LET t == Head(queue).trie
  IN  /\ Update("recheck") /\ UNCHANGED currentTrie
      /\ IF StillShown(t) /\ t \in cache.outputs THEN ShowFromCache(t)
         ELSE UNCHANGED <<uiVars, cache>>

\* The last resort of a switch, without the trie cache.
SwitchSlow ==
  LET t == Head(queue).trie
  IN  /\ Update("slow") /\ currentTrie' = t /\ jsonResult' = t /\ Display(t, t)
      /\ view' = IF view = NoView THEN view
                 ELSE IF page = "visualization" THEN UpdateForCurrentTrie(view, t, t)
                 ELSE UpdateMetadataOnly(view, t)
      /\ UNCHANGED <<page, progress>>

RunUpdate == \/ ShowResults \/ ShowErrorText \/ ShowProgress \/ PublishView
             \/ SwitchCached \/ Recheck \/ SwitchSlow

----------------------------------------------------------------------------
(* The goroutines                                                          *)

Alive == loop = "up"

\* SetAnalysisResults: the results are stored and flagged complete, then a
\* closure is queued to show them.  A cancelled analysis shows nothing.
AnalysisEnds ==
  /\ Alive /\ analysis = "running"
  /\ \/ analysis' = "results" /\ jsonResult' = 0 /\ complete' = TRUE
     \/ analysis' = "error" /\ UNCHANGED <<jsonResult, complete>>
  /\ UNCHANGED <<redraws, page, progress, currentTrie, panels, view, precacher,
                 builder, switching, switcher, singles, loop, requests, cache, queue>>

QueueResults ==
  /\ Alive /\ analysis \in {"results", "error"}
  /\ Enqueue(analysis, 0, <<"analysis">>)
  /\ analysis' = IF analysis = "results" THEN "waiting" ELSE "done"
  /\ UNCHANGED <<uiVars, precacher, builder, switching, switcher,
                 singles, loop, complete, requests, cache>>

\* SetRequestData starts the two goroutines that precache every trie.
SetRequestData ==
  /\ Alive /\ analysis = "waiting" /\ Ran(<<"analysis">>)
  /\ analysis' = "done" /\ requests' = TRUE
  /\ precacher' = "running" /\ builder' = "running"
  /\ UNCHANGED <<uiVars, switching, switcher, singles, loop, complete,
                 cache, queue>>

\* animateProgress, round by round until the analysis is complete.
Animate ==
  /\ Alive /\ ~complete /\ Ran(<<"animator">>)
  /\ Enqueue("progress", 0, <<"animator">>)
  /\ UNCHANGED <<uiVars, workers, loop, complete, requests, cache>>

PreCacheAllTries ==
  /\ Alive /\ precacher = "running" /\ precacher' = "done"
  /\ cache' = CacheTries(Trie, TRUE)
  /\ UNCHANGED <<uiVars, analysis, builder, switching, switcher,
                 singles, loop, complete, requests, queue>>

\* buildAndPrecacheVisualization, off the event loop until it publishes.
BuildView ==
  /\ Alive /\ builder = "running" /\ builder' = "done"
  /\ queue' = Append(queue, [Closure("publish", 0, <<"builder">>) EXCEPT !.view = BuiltView])
  /\ UNCHANGED <<uiVars, analysis, precacher, switching, switcher,
                 singles, loop, complete, requests, cache>>

\* switchTrieAsync: the trie cache is asked once.  A miss starts a goroutine
\* that caches the trie, and the switch goes on without the cache.
SwitchHit ==
  /\ Alive /\ switcher.at = "start" /\ switcher.trie \in cache.outputs
  /\ Enqueue("cached", switcher.trie, <<"switcher">>)
  /\ switcher' = [switcher EXCEPT !.at = "waiting"]
  /\ UNCHANGED <<uiVars, analysis, precacher, builder, switching, singles,
                 loop, complete, requests, cache>>

SwitchMiss ==
  /\ Alive /\ switcher.at = "start" /\ switcher.trie \notin cache.outputs
  /\ switcher' = [switcher EXCEPT !.at = "slow"]
  /\ \E p \in Free :
       /\ \A q \in Free : p <= q
       /\ singles' = [singles EXCEPT ![p] = [at |-> "start", trie |-> switcher.trie,
                                           given |-> requests]]
  /\ UNCHANGED <<uiVars, analysis, precacher, builder, switching, loop,
                 complete, requests, cache, queue>>

QueueSlow ==
  /\ Alive /\ switcher.at = "slow"
  /\ Enqueue("slow", switcher.trie, <<"switcher">>)
  /\ switcher' = [switcher EXCEPT !.at = "waiting"]
  /\ UNCHANGED <<uiVars, analysis, precacher, builder, switching, singles,
                 loop, complete, requests, cache>>

\* The deferred reset of switchingTrie, once the closure has run.
SlipNoReset(flag) == flag
Reset(flag) == FALSE
EndSwitch ==
  /\ Alive /\ switcher.at = "waiting" /\ Ran(<<"switcher">>)
  /\ switching' = Reset(switching) /\ switcher' = Idle
  /\ UNCHANGED <<uiVars, analysis, precacher, builder, singles,
                 loop, complete, requests, cache, queue>>

Singles(p, single) ==
  /\ singles' = [singles EXCEPT ![p] = single]
  /\ UNCHANGED <<uiVars, analysis, precacher, builder, switching,
                 switcher, loop, complete, requests>>

\* PreCacheSingleTrie is given a.requests as they were at some moment since
\* the goroutine started, which may be before they were set.
PreCacheSingleTrie(p) ==
  /\ Alive /\ singles[p].at = "start"
  /\ \E given \in {singles[p].given, requests} :
       cache' = CacheTries({singles[p].trie}, given)
  /\ Singles(p, [singles[p] EXCEPT !.at = "cached"])
  /\ UNCHANGED queue

\* The goroutine ends with its closure.
QueueRecheck(p) ==
  /\ Alive /\ singles[p].at = "cached"
  /\ Enqueue("recheck", singles[p].trie, <<"single", p>>)
  /\ Singles(p, Idle)
  /\ UNCHANGED cache

Single(p) == PreCacheSingleTrie(p) \/ QueueRecheck(p)

Analyse == AnalysisEnds \/ QueueResults \/ SetRequestData
Switch == SwitchHit \/ SwitchMiss \/ QueueSlow \/ EndSwitch

Key == \/ KeyResults \/ KeyProgress \/ ShowVisualization \/ NextTrie
       \/ ToggleIntensityScale \/ NextClusterSet \/ PrevClusterSet \/ KeyQuit

Next == \/ Key \/ RunUpdate
        \/ Analyse \/ Animate \/ PreCacheAllTries \/ BuildView \/ Switch
        \/ \E p \in 1..MaxPrecachers : Single(p)

\* The event loop takes keys and closures in turn; goroutines are scheduled.
\* No key is ever pressed by fairness, and an analysis may run on.
Fairness ==
  /\ WF_vars(RunUpdate)
  /\ WF_vars(QueueResults \/ SetRequestData)
  /\ WF_vars(Animate) /\ WF_vars(PreCacheAllTries) /\ WF_vars(BuildView)
  /\ WF_vars(Switch)
  /\ \A p \in 1..MaxPrecachers : WF_vars(Single(p))

Spec == Init /\ [][Next]_vars /\ Fairness

----------------------------------------------------------------------------
(* Properties                                                              *)

\* From the first display of the results on, the four panels, the output the
\* render functions read and the trie that the next 't' counts from are one
\* and the same trie, in whatever order the closures of a switch and of the
\* precaching goroutines reach the event loop.
PanelsAreCurrent ==
  panels # TextsOf(None, None) =>
    /\ panels = TextsOf(currentTrie, currentTrie)
    /\ jsonResult = currentTrie

\* The set of trie t that the number n stands for: a view can count more sets
\* than its trie has, and such a number stands for the first one.
SetShown(t, n) == IF NSets[t] = 0 \/ n < NSets[t] THEN n ELSE 0

\* Every text of the render cache is the heatmap of its own trie, cluster set
\* and brightness mode, and none shows the detected ranges of another trie or
\* set, although one part of the cache is filled off the event loop, for tries
\* that are not shown, and handed over later.
HeatmapIsOwn ==
  view # NoView =>
    \A key \in DOMAIN view.renders :
      LET text == view.renders[key]
          t == key[1]
          s == SetShown(t, key[2])
      IN  text.kind = "heatmap" =>
            text.of = <<t, s, key[3]>> /\ text.overlay \in {Blank, <<t, s>>}

\* A trie switch that was started ends with its trie on the panels and with
\* the 't' key free again, unless the interface is closed.
SwitchShows ==
  \A t \in Trie :
    (switching /\ switcher.trie = t) ~>
      (loop # "up" \/ (~switching /\ panels = TextsOf(t, t)))
=============================================================================
