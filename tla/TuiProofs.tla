----------------------------- MODULE TuiProofs -----------------------------
(***************************************************************************)
(* What the terminal interface shows is of the trie it says, for any       *)
(* number of tries, cluster sets, brightness modes, key presses and        *)
(* goroutines.                                                             *)
(***************************************************************************)
EXTENDS Tui, TLAPS

----------------------------------------------------------------------------
(* Views.                                                                  *)

View(total, set, mode, given, traffic, grids, renders, text) ==
  [total |-> total, set |-> set, mode |-> mode, requests |-> given,
   traffic |-> traffic, grids |-> grids, renders |-> renders, text |-> text]
IsView(v) ==
  v = View(v.total, v.set, v.mode, v.requests, v.traffic, v.grids, v.renders, v.text)

(* Each grid shows the trie and the set it is cached for.                  *)
GridOwn(t, n, grid) == grid \in {Blank, <<t, SetShown(t, n)>>}
GridsOwn(g) == \A t \in Trie, n \in Nat : <<t, n>> \in DOMAIN g => GridOwn(t, n, g[<<t, n>>])

(* Each heatmap is of the trie, the set and the mode it is cached for.     *)
TextOwn(t, n, m, text) ==
  text.kind = "heatmap" =>
    text.of = <<t, SetShown(t, n), m>> /\ text.overlay \in {Blank, <<t, SetShown(t, n)>>}
RendersOwn(R) == \A key \in DOMAIN R : TextOwn(key[1], key[2], key[3], R[key])

(* The set a view is at is one that it counts, or the first.               *)
ViewOwn(v) ==
  /\ IsView(v)
  /\ v.total \in Nat /\ v.set \in Nat /\ (v.set < v.total \/ v.set = 0)
  /\ GridsOwn(v.grids) /\ RendersOwn(v.renders)

LEMMA SetShownFacts ==
  ASSUME NEW t \in Trie, NEW n \in Nat
  PROVE  /\ NSets[t] \in Nat
         /\ SetShown(t, n) \in Nat
         /\ SetShown(t, 0) = 0
         /\ SetShown(t, SetShown(t, n)) = SetShown(t, n)
BY TuiAssumption DEF SetShown

(* What the fields of a view are, and what rewriting one does.             *)
LEMMA Fields ==
  ASSUME NEW a, NEW b, NEW c, NEW d, NEW e, NEW f, NEW g, NEW h
  PROVE  LET v == View(a, b, c, d, e, f, g, h)
         IN  /\ IsView(v) /\ v.total = a /\ v.set = b /\ v.mode = c /\ v.requests = d
             /\ v.traffic = e /\ v.grids = f /\ v.renders = g /\ v.text = h
BY DEF View, IsView

LEMMA Rewritten ==
  ASSUME NEW v, IsView(v), NEW x
  PROVE  /\ [v EXCEPT !.total = x] =
              View(x, v.set, v.mode, v.requests, v.traffic, v.grids, v.renders, v.text)
         /\ [v EXCEPT !.set = x] =
              View(v.total, x, v.mode, v.requests, v.traffic, v.grids, v.renders, v.text)
         /\ [v EXCEPT !.mode = x] =
              View(v.total, v.set, x, v.requests, v.traffic, v.grids, v.renders, v.text)
         /\ [v EXCEPT !.requests = x] =
              View(v.total, v.set, v.mode, x, v.traffic, v.grids, v.renders, v.text)
         /\ [v EXCEPT !.traffic = x] =
              View(v.total, v.set, v.mode, v.requests, x, v.grids, v.renders, v.text)
         /\ [v EXCEPT !.grids = x] =
              View(v.total, v.set, v.mode, v.requests, v.traffic, x, v.renders, v.text)
         /\ [v EXCEPT !.renders = x] =
              View(v.total, v.set, v.mode, v.requests, v.traffic, v.grids, x, v.text)
         /\ [v EXCEPT !.text = x] =
              View(v.total, v.set, v.mode, v.requests, v.traffic, v.grids, v.renders, x)
<1>1. [v EXCEPT !.total = x] =
       View(x, v.set, v.mode, v.requests, v.traffic, v.grids, v.renders, v.text)
  BY DEF View, IsView
<1>2. [v EXCEPT !.set = x] =
       View(v.total, x, v.mode, v.requests, v.traffic, v.grids, v.renders, v.text)
  BY DEF View, IsView
<1>3. [v EXCEPT !.mode = x] =
       View(v.total, v.set, x, v.requests, v.traffic, v.grids, v.renders, v.text)
  BY DEF View, IsView
<1>4. [v EXCEPT !.requests = x] =
       View(v.total, v.set, v.mode, x, v.traffic, v.grids, v.renders, v.text)
  BY DEF View, IsView
<1>5. [v EXCEPT !.traffic = x] =
       View(v.total, v.set, v.mode, v.requests, x, v.grids, v.renders, v.text)
  BY DEF View, IsView
<1>6. [v EXCEPT !.grids = x] =
       View(v.total, v.set, v.mode, v.requests, v.traffic, x, v.renders, v.text)
  BY DEF View, IsView
<1>7. [v EXCEPT !.renders = x] =
       View(v.total, v.set, v.mode, v.requests, v.traffic, v.grids, x, v.text)
  BY DEF View, IsView
<1>8. [v EXCEPT !.text = x] =
       View(v.total, v.set, v.mode, v.requests, v.traffic, v.grids, v.renders, x)
  BY DEF View, IsView
<1> QED BY <1>1, <1>2, <1>3, <1>4, <1>5, <1>6, <1>7, <1>8

(* A view moved to set n of total.                                         *)
LEMMA Moved ==
  ASSUME NEW v, IsView(v), NEW x, NEW y
  PROVE  [v EXCEPT !.total = x, !.set = y] =
           View(x, y, v.mode, v.requests, v.traffic, v.grids, v.renders, v.text)
<1> DEFINE u == [v EXCEPT !.total = x]
<1>1. u = View(x, v.set, v.mode, v.requests, v.traffic, v.grids, v.renders, v.text)
  BY Rewritten
<1> HIDE DEF u
<1>2. /\ IsView(u) /\ u.total = x /\ u.mode = v.mode /\ u.requests = v.requests
      /\ u.traffic = v.traffic /\ u.grids = v.grids /\ u.renders = v.renders
      /\ u.text = v.text
  BY <1>1, Fields
<1>3. [u EXCEPT !.set = y] =
        View(u.total, y, u.mode, u.requests, u.traffic, u.grids, u.renders, u.text)
  BY <1>2, Rewritten
<1>4. [u EXCEPT !.set = y] =
        View(x, y, v.mode, v.requests, v.traffic, v.grids, v.renders, v.text)
  BY <1>2, <1>3
<1> QED BY <1>4 DEF u

----------------------------------------------------------------------------
(* Rendering trie t from its own result.                                   *)

(* w is v with another set and total.                                      *)
Like(w, v) ==
  /\ w.mode = v.mode /\ w.requests = v.requests /\ w.traffic = v.traffic
  /\ w.grids = v.grids /\ w.renders = v.renders

LEMMA FitOwn ==
  ASSUME NEW v, ViewOwn(v), NEW t \in Trie
  PROVE  LET w == CurrentClusterSet(v, t)
         IN  ViewOwn(w) /\ w.set = SetShown(t, v.set) /\ Like(w, v)
<1> DEFINE w == CurrentClusterSet(v, t)
<1>1. NSets[t] \in Nat /\ v.set \in Nat
  BY SetShownFacts DEF ViewOwn
<1>2. CASE NSets[t] = 0
  BY <1>2 DEF CurrentClusterSet, SetShown, Like
<1>3. CASE NSets[t] # 0
  <2> DEFINE s == IF v.set >= NSets[t] THEN 0 ELSE v.set
  <2>1. w = [v EXCEPT !.total = NSets[t], !.set = s]
    BY <1>3 DEF CurrentClusterSet
  <2>2. s = SetShown(t, v.set) /\ s \in Nat /\ s < NSets[t]
    BY <1>1, <1>3 DEF SetShown
  <2> HIDE DEF s, w
  <2>3. IsView(v)
    BY DEF ViewOwn
  <2>4. w = View(NSets[t], s, v.mode, v.requests, v.traffic, v.grids, v.renders, v.text)
    BY <2>1, <2>3, Moved
  <2>5. IsView(w) /\ w.total = NSets[t] /\ w.set = s /\ Like(w, v)
    BY <2>4, Fields DEF Like
  <2>6. ViewOwn(w)
    BY <1>1, <2>2, <2>5 DEF ViewOwn, Like
  <2> QED BY <2>2, <2>5, <2>6 DEF w
<1> QED BY <1>2, <1>3

LEMMA PutOwn ==
  ASSUME NEW g, GridsOwn(g), NEW t \in Trie, NEW n \in Nat, NEW grid, GridOwn(t, n, grid)
  PROVE  GridsOwn(Put(g, <<t, n>>, grid)) /\ Put(g, <<t, n>>, grid)[<<t, n>>] = grid
BY DEF GridsOwn, Put

LEMMA EnsureOwn ==
  ASSUME NEW v, ViewOwn(v), NEW t \in Trie, v.set = SetShown(t, v.set)
  PROVE  LET e == EnsureClusteredData(v, t, t)
         IN  /\ ViewOwn(e) /\ e.set = v.set /\ e.mode = v.mode /\ e.renders = v.renders
             /\ GridOwn(t, v.set, e.grids[<<t, v.set>>])
<1> DEFINE e == EnsureClusteredData(v, t, t)
           key == <<t, v.set>>
           w == CurrentClusterSet(v, t)
           grid == IF v.requests /\ NSets[t] > 0 THEN <<t, w.set>> ELSE Blank
<1>1. v.set \in Nat /\ GridsOwn(v.grids)
  BY DEF ViewOwn
<1>2. CASE key \in DOMAIN v.grids
  BY <1>1, <1>2 DEF EnsureClusteredData, GridsOwn
<1>3. CASE key \notin DOMAIN v.grids
  <2>1. ViewOwn(w) /\ w.set = v.set /\ Like(w, v)
    BY FitOwn
  <2>2. GridOwn(t, v.set, grid)
    BY <2>1 DEF GridOwn
  <2>3. e = [w EXCEPT !.grids = Put(w.grids, key, grid)]
    BY <1>3 DEF EnsureClusteredData
  <2> HIDE DEF w, e, grid, key
  <2>4. IsView(w)
    BY <2>1 DEF ViewOwn
  <2>5. e = View(w.total, w.set, w.mode, w.requests, w.traffic, Put(w.grids, key, grid),
                 w.renders, w.text)
    BY <2>3, <2>4, Rewritten
  <2>6. /\ IsView(e) /\ e.total = w.total /\ e.set = w.set /\ e.mode = w.mode
        /\ e.renders = w.renders /\ e.grids = Put(w.grids, key, grid)
    BY <2>5, Fields
  <2>7. GridsOwn(e.grids) /\ e.grids[key] = grid
    BY <1>1, <2>1, <2>2, <2>6, PutOwn DEF key, Like
  <2>8. ViewOwn(e)
    BY <2>1, <2>6, <2>7 DEF ViewOwn
  <2>9. e.mode = v.mode /\ e.renders = v.renders
    BY <2>1, <2>6 DEF Like
  <2> QED BY <2>1, <2>2, <2>6, <2>7, <2>8, <2>9 DEF e, key
<1> QED BY <1>2, <1>3

LEMMA RenderOwn ==
  ASSUME NEW v, ViewOwn(v), NEW t \in Trie
  PROVE  LET u == Render(v, t, t)
         IN  /\ ViewOwn(u) /\ u.renders = v.renders
             /\ TextOwn(t, v.set, v.mode, u.text)
             /\ v.traffic => GridOwn(t, v.set, u.grids[<<t, SetShown(t, v.set)>>])
<1> DEFINE u == Render(v, t, t)
           w == IF v.set < v.total THEN CurrentClusterSet(v, t) ELSE v
           e == EnsureClusteredData(w, t, t)
           s == SetShown(t, v.set)
<1>1. v.set \in Nat /\ v.total \in Nat /\ (v.set < v.total \/ v.set = 0)
  BY DEF ViewOwn
<1>2. s \in Nat /\ SetShown(t, s) = s
  BY <1>1, SetShownFacts
<1>3. ViewOwn(w) /\ w.set = s /\ Like(w, v)
  <2>1. CASE v.set < v.total
    BY <2>1, FitOwn
  <2>2. CASE ~ v.set < v.total
    BY <1>1, <2>2, SetShownFacts DEF Like
  <2> QED BY <2>1, <2>2
<1>4. /\ ViewOwn(e) /\ e.set = s /\ e.mode = w.mode /\ e.renders = w.renders
      /\ GridOwn(t, s, e.grids[<<t, s>>])
  <2> HIDE DEF w
  <2> QED BY <1>2, <1>3, EnsureOwn
<1>5. u = IF ~w.traffic THEN [w EXCEPT !.text = Loading]
          ELSE [e EXCEPT !.text = Heatmap(<<t, w.set, w.mode>>, e.grids[<<t, w.set>>])]
  BY DEF Render
<1> HIDE DEF w, e, u, s
<1>6. GridOwn(t, v.set, e.grids[<<t, s>>])
  BY <1>2, <1>4 DEF GridOwn, s
<1>7. CASE ~w.traffic
  <2>1. IsView(w)
    BY <1>3 DEF ViewOwn
  <2>2. u = View(w.total, w.set, w.mode, w.requests, w.traffic, w.grids, w.renders, Loading)
    BY <1>5, <1>7, <2>1, Rewritten
  <2>3. /\ IsView(u) /\ u.total = w.total /\ u.set = w.set /\ u.grids = w.grids
        /\ u.renders = w.renders /\ u.text = Loading
    BY <2>2, Fields
  <2>4. ViewOwn(u)
    BY <1>3, <2>3 DEF ViewOwn
  <2>5. TextOwn(t, v.set, v.mode, u.text)
    BY <2>3 DEF TextOwn, Loading
  <2>6. ~v.traffic /\ u.renders = v.renders
    BY <1>3, <1>7, <2>3 DEF Like
  <2> QED BY <2>4, <2>5, <2>6 DEF u
<1>8. CASE w.traffic
  <2> DEFINE text == Heatmap(<<t, w.set, w.mode>>, e.grids[<<t, w.set>>])
  <2>1. IsView(e) /\ u = [e EXCEPT !.text = text]
    BY <1>4, <1>5, <1>8 DEF ViewOwn
  <2>2. text.of = <<t, s, v.mode>> /\ text.overlay = e.grids[<<t, s>>]
    BY <1>3 DEF Heatmap, Like
  <2> HIDE DEF text
  <2>3. u = View(e.total, e.set, e.mode, e.requests, e.traffic, e.grids, e.renders, text)
    BY <2>1, Rewritten
  <2>4. /\ IsView(u) /\ u.total = e.total /\ u.set = e.set /\ u.grids = e.grids
        /\ u.renders = e.renders /\ u.text = text
    BY <2>3, Fields
  <2>5. ViewOwn(u)
    BY <1>4, <2>4 DEF ViewOwn
  <2>6. TextOwn(t, v.set, v.mode, u.text)
    BY <1>6, <2>2, <2>4 DEF TextOwn, GridOwn, s
  <2>7. u.renders = v.renders /\ u.grids[<<t, s>>] = e.grids[<<t, s>>]
    BY <1>3, <1>4, <2>4 DEF Like
  <2> QED BY <1>6, <2>5, <2>6, <2>7 DEF u, s
<1> QED BY <1>7, <1>8

LEMMA CacheRenderOwn ==
  ASSUME NEW v, ViewOwn(v), NEW t \in Trie
  PROVE  ViewOwn(CacheRender(v, t, t))
<1> DEFINE w == Render(v, t, t)
           c == CacheRender(v, t, t)
           key == RenderCacheKey(v, t)
<1>1. ViewOwn(w) /\ w.renders = v.renders /\ TextOwn(t, v.set, v.mode, w.text)
  BY RenderOwn
<1>2. c = [w EXCEPT !.renders = Put(w.renders, key, w.text)]
  BY DEF CacheRender
<1>3. key[1] = t /\ key[2] = v.set /\ key[3] = v.mode
  BY DEF RenderCacheKey
<1> HIDE DEF w, c, key
<1>4. IsView(w)
  BY <1>1 DEF ViewOwn
<1>5. c = View(w.total, w.set, w.mode, w.requests, w.traffic, w.grids,
               Put(w.renders, key, w.text), w.text)
  BY <1>2, <1>4, Rewritten
<1>6. /\ IsView(c) /\ c.total = w.total /\ c.set = w.set /\ c.grids = w.grids
      /\ c.renders = Put(w.renders, key, w.text)
  BY <1>5, Fields
<1>7. RendersOwn(c.renders)
  BY <1>1, <1>3, <1>6 DEF ViewOwn, RendersOwn, Put
<1>8. ViewOwn(c)
  BY <1>1, <1>6, <1>7 DEF ViewOwn
<1> QED BY <1>8 DEF c

LEMMA RenderCachedOwn ==
  ASSUME NEW v, ViewOwn(v), NEW t \in Trie
  PROVE  ViewOwn(RenderCached(v, t, t))
<1> DEFINE c == RenderCached(v, t, t)
           text == v.renders[RenderCacheKey(v, t)]
<1>1. CASE RenderCacheKey(v, t) \in DOMAIN v.renders
  <2>1. c = [v EXCEPT !.text = text]
    BY <1>1 DEF RenderCached
  <2> HIDE DEF c, text
  <2>2. IsView(v)
    BY DEF ViewOwn
  <2>3. c = View(v.total, v.set, v.mode, v.requests, v.traffic, v.grids, v.renders, text)
    BY <2>1, <2>2, Rewritten
  <2>4. /\ IsView(c) /\ c.total = v.total /\ c.set = v.set /\ c.grids = v.grids
        /\ c.renders = v.renders
    BY <2>3, Fields
  <2>5. ViewOwn(c)
    BY <2>4 DEF ViewOwn
  <2> QED BY <2>5 DEF c
<1>2. CASE RenderCacheKey(v, t) \notin DOMAIN v.renders
  BY <1>2, CacheRenderOwn DEF RenderCached
<1> QED BY <1>1, <1>2

----------------------------------------------------------------------------
(* Views that keys, switches and the builder make.                         *)

(* Neither the mode, the requests, the traffic nor the text of a view says *)
(* what its grids and renders are of.                                      *)
LEMMA KeptOwn ==
  ASSUME NEW v, ViewOwn(v), NEW x
  PROVE  /\ ViewOwn([v EXCEPT !.mode = x])
         /\ ViewOwn([v EXCEPT !.requests = x])
         /\ ViewOwn([v EXCEPT !.traffic = x])
         /\ [v EXCEPT !.traffic = x].grids = v.grids
<1>1. IsView(v)
  BY DEF ViewOwn
<1>2. ViewOwn([v EXCEPT !.mode = x]) /\ [v EXCEPT !.mode = x].grids = v.grids
  <2> DEFINE u == [v EXCEPT !.mode = x]
  <2>1. u = View(v.total, v.set, x, v.requests, v.traffic, v.grids, v.renders, v.text)
    BY <1>1, Rewritten
  <2> HIDE DEF u
  <2>2. /\ IsView(u) /\ u.total = v.total /\ u.set = v.set /\ u.grids = v.grids
        /\ u.renders = v.renders
    BY <2>1, Fields
  <2> QED BY <2>2 DEF ViewOwn, u
<1>3. ViewOwn([v EXCEPT !.requests = x]) /\ [v EXCEPT !.requests = x].grids = v.grids
  <2> DEFINE u == [v EXCEPT !.requests = x]
  <2>1. u = View(v.total, v.set, v.mode, x, v.traffic, v.grids, v.renders, v.text)
    BY <1>1, Rewritten
  <2> HIDE DEF u
  <2>2. /\ IsView(u) /\ u.total = v.total /\ u.set = v.set /\ u.grids = v.grids
        /\ u.renders = v.renders
    BY <2>1, Fields
  <2> QED BY <2>2 DEF ViewOwn, u
<1>4. ViewOwn([v EXCEPT !.traffic = x]) /\ [v EXCEPT !.traffic = x].grids = v.grids
  <2> DEFINE u == [v EXCEPT !.traffic = x]
  <2>1. u = View(v.total, v.set, v.mode, v.requests, x, v.grids, v.renders, v.text)
    BY <1>1, Rewritten
  <2> HIDE DEF u
  <2>2. /\ IsView(u) /\ u.total = v.total /\ u.set = v.set /\ u.grids = v.grids
        /\ u.renders = v.renders
    BY <2>1, Fields
  <2> QED BY <2>2 DEF ViewOwn, u
<1> QED BY <1>2, <1>3, <1>4

LEMMA GridsReplaced ==
  ASSUME NEW v, ViewOwn(v), NEW g, GridsOwn(g)
  PROVE  ViewOwn([v EXCEPT !.grids = g])
<1> DEFINE u == [v EXCEPT !.grids = g]
<1>1. IsView(v)
  BY DEF ViewOwn
<1>2. u = View(v.total, v.set, v.mode, v.requests, v.traffic, g, v.renders, v.text)
  BY <1>1, Rewritten
<1> HIDE DEF u
<1>3. /\ IsView(u) /\ u.total = v.total /\ u.set = v.set /\ u.grids = g
      /\ u.renders = v.renders
  BY <1>2, Fields
<1> QED BY <1>3 DEF ViewOwn, u

LEMMA SetMoved ==
  ASSUME NEW v, ViewOwn(v), NEW n \in Nat, n < v.total
  PROVE  ViewOwn([v EXCEPT !.set = n])
<1> DEFINE u == [v EXCEPT !.set = n]
<1>1. IsView(v)
  BY DEF ViewOwn
<1>2. u = View(v.total, n, v.mode, v.requests, v.traffic, v.grids, v.renders, v.text)
  BY <1>1, Rewritten
<1> HIDE DEF u
<1>3. /\ IsView(u) /\ u.total = v.total /\ u.set = n /\ u.grids = v.grids
      /\ u.renders = v.renders
  BY <1>2, Fields
<1> QED BY <1>3 DEF ViewOwn, u

LEMMA MetadataOwn ==
  ASSUME NEW v, ViewOwn(v), NEW t \in Trie
  PROVE  /\ ViewOwn(UpdateMetadataOnly(v, t))
         /\ UpdateMetadataOnly(v, t).grids = v.grids
<1> DEFINE u == UpdateMetadataOnly(v, t)
<1>1. IsView(v) /\ u = [v EXCEPT !.total = NSets[t], !.set = 0]
  BY DEF ViewOwn, UpdateMetadataOnly
<1>2. NSets[t] \in Nat
  BY TuiAssumption
<1> HIDE DEF u
<1>3. u = View(NSets[t], 0, v.mode, v.requests, v.traffic, v.grids, v.renders, v.text)
  BY <1>1, Moved
<1>4. /\ IsView(u) /\ u.total = NSets[t] /\ u.set = 0 /\ u.grids = v.grids
      /\ u.renders = v.renders
  BY <1>3, Fields
<1> QED BY <1>2, <1>4 DEF ViewOwn, u

LEMMA SwitchOwn ==
  ASSUME NEW v, ViewOwn(v), NEW t \in Trie
  PROVE  ViewOwn(UpdateForCurrentTrie(v, t, t))
<1> DEFINE m == UpdateMetadataOnly(v, t)
           x == v.traffic \/ v.requests
<1>1. ViewOwn(m)
  BY MetadataOwn
<1>2. UpdateForCurrentTrie(v, t, t) = RenderCached([m EXCEPT !.traffic = x], t, t)
  BY DEF UpdateForCurrentTrie, UpdateMetadataOnly
<1> HIDE DEF m, x
<1>3. ViewOwn([m EXCEPT !.traffic = x])
  BY <1>1, KeptOwn
<1> QED BY <1>2, <1>3, RenderCachedOwn

LEMMA SwitchFromCacheOwn ==
  ASSUME NEW v, ViewOwn(v), NEW t \in Trie
  PROVE  ViewOwn(UpdateFromCache(v, t, t))
<1> DEFINE m == UpdateMetadataOnly(v, t)
           x == (cache.traffic = "full")
           u == [m EXCEPT !.traffic = x]
           grid == IF cache.overlays[t] THEN <<t, 0>> ELSE Blank
           g == IF NSets[t] = 0 THEN m.grids ELSE Put(m.grids, <<t, 0>>, grid)
<1>1. UpdateFromCache(v, t, t) = Render([u EXCEPT !.grids = g], t, t)
  BY DEF UpdateFromCache
<1>2. ViewOwn(m)
  BY MetadataOwn
<1>3. GridOwn(t, 0, grid)
  BY SetShownFacts DEF GridOwn
<1> HIDE DEF m, x, grid
<1>4. ViewOwn(u)
  BY <1>2, KeptOwn
<1>5. GridsOwn(g)
  BY <1>2, <1>3, PutOwn DEF ViewOwn
<1> HIDE DEF u, g
<1>6. ViewOwn([u EXCEPT !.grids = g])
  BY <1>4, <1>5, GridsReplaced
<1> QED BY <1>1, <1>6, RenderOwn

LEMMA NewOwn ==
  ASSUME NEW n \in Nat
  PROVE  ViewOwn(NewView(n)) /\ NewView(n).total = n /\ NewView(n).mode = 0
<1> DEFINE u == NewView(n)
           none == <<>>
           zero == 0
           off == FALSE
<1>1. u = View(n, zero, zero, off, off, none, none, Empty)
  BY DEF NewView, View
<1>2. GridsOwn(none) /\ RendersOwn(none)
  <2>1. DOMAIN none = {}
    OBVIOUS
  <2> QED BY <2>1 DEF GridsOwn, RendersOwn
<1>3. zero \in Nat /\ zero = 0
  OBVIOUS
<1> HIDE DEF u, none, zero, off
<1>4. /\ IsView(u) /\ u.total = n /\ u.set = zero /\ u.mode = zero
      /\ u.grids = none /\ u.renders = none
  BY <1>1, Fields
<1> QED BY <1>2, <1>3, <1>4 DEF ViewOwn, u

LEMMA RendersReplaced ==
  ASSUME NEW v, ViewOwn(v), NEW R, RendersOwn(R)
  PROVE  ViewOwn([v EXCEPT !.renders = R])
<1> DEFINE u == [v EXCEPT !.renders = R]
<1>1. IsView(v)
  BY DEF ViewOwn
<1>2. u = View(v.total, v.set, v.mode, v.requests, v.traffic, v.grids, R, v.text)
  BY <1>1, Rewritten
<1> HIDE DEF u
<1>3. /\ IsView(u) /\ u.total = v.total /\ u.set = v.set /\ u.grids = v.grids
      /\ u.renders = R
  BY <1>2, Fields
<1> QED BY <1>3 DEF ViewOwn, u

(* The view that the builder renders set n of trie t in.                   *)
LEMMA FilledOwn ==
  ASSUME NEW t \in Trie, NEW n \in Nat, n < NSets[t]
  PROVE  LET v == [NewView(NSets[t]) EXCEPT !.set = n, !.requests = TRUE, !.traffic = TRUE]
             u == PreRender(v, t)
         IN  GridOwn(t, n, u.grids[<<t, n>>]) /\ TextOwn(t, n, 0, u.text)
<1> DEFINE v0 == NewView(NSets[t])
           on == TRUE
           v1 == [v0 EXCEPT !.set = n]
           v2 == [v1 EXCEPT !.requests = on]
           v3 == [v2 EXCEPT !.traffic = on]
           u == Render(v3, t, t)
<1>1. NSets[t] \in Nat /\ SetShown(t, n) = n
  BY TuiAssumption DEF SetShown
<1>2. ViewOwn(v0) /\ IsView(v0) /\ v0.total = NSets[t] /\ v0.mode = 0
  BY <1>1, NewOwn DEF ViewOwn
<1>3. on = TRUE
  OBVIOUS
<1> HIDE DEF v0, on
<1>4. v1 = View(v0.total, n, v0.mode, v0.requests, v0.traffic, v0.grids, v0.renders, v0.text)
  BY <1>2, Rewritten
<1>5. ViewOwn(v1)
  BY <1>1, <1>2, SetMoved
<1> HIDE DEF v1
<1>6. IsView(v1) /\ v1.set = n /\ v1.mode = 0
  BY <1>2, <1>4, Fields
<1>7. v2 = View(v1.total, v1.set, v1.mode, on, v1.traffic, v1.grids, v1.renders, v1.text)
  BY <1>6, Rewritten
<1>8. ViewOwn(v2)
  BY <1>5, KeptOwn
<1> HIDE DEF v2
<1>9. IsView(v2) /\ v2.set = n /\ v2.mode = 0
  BY <1>6, <1>7, Fields
<1>10. v3 = View(v2.total, v2.set, v2.mode, v2.requests, on, v2.grids, v2.renders, v2.text)
  BY <1>9, Rewritten
<1>11. ViewOwn(v3)
  BY <1>8, KeptOwn
<1> HIDE DEF v3
<1>12. v3.set = n /\ v3.mode = 0 /\ v3.traffic = on
  BY <1>9, <1>10, Fields
<1>13. TextOwn(t, n, 0, u.text) /\ GridOwn(t, n, u.grids[<<t, n>>])
  <2> HIDE DEF u
  <2>1. /\ TextOwn(t, v3.set, v3.mode, u.text)
        /\ v3.traffic => GridOwn(t, v3.set, u.grids[<<t, SetShown(t, v3.set)>>])
    BY <1>11, RenderOwn DEF u
  <2> QED BY <1>1, <1>3, <1>12, <2>1
<1> QED BY <1>13 DEF PreRender, v3, v2, v1, v0, on

LEMMA BuiltViewOwn == ViewOwn(BuiltView)
<1> DEFINE sets == UNION {{t} \X (0..NSets[t] - 1) : t \in Trie}
           Filled(p) == PreRender([NewView(NSets[p[1]]) EXCEPT
                                !.set = p[2], !.requests = TRUE, !.traffic = TRUE], p[1])
           G == [p \in sets |-> Filled(p).grids[p]]
           R == [key \in {<<p[1], p[2], 0>> : p \in sets} |-> Filled(<<key[1], key[2]>>).text]
           v0 == NewView(NSets[0])
           on == TRUE
           v1 == [v0 EXCEPT !.traffic = on]
           v2 == [v1 EXCEPT !.grids = G]
<1>1. ASSUME NEW p \in sets
      PROVE  /\ p[1] \in Trie /\ p[2] \in Nat /\ p[2] < NSets[p[1]]
             /\ p = <<p[1], p[2]>>
  <2>1. PICK t : t \in Trie /\ p \in {t} \X (0..NSets[t] - 1)
    OBVIOUS
  <2>2. NSets[t] \in Nat
    BY <2>1, TuiAssumption
  <2>3. PICK n : n \in 0..NSets[t] - 1 /\ p = <<t, n>>
    BY <2>1
  <2>4. p[1] = t /\ p[2] = n /\ p = <<p[1], p[2]>>
    BY <2>3
  <2>5. n \in Nat /\ n < NSets[t]
    BY <2>2, <2>3
  <2> HIDE DEF sets
  <2> QED BY <2>1, <2>4, <2>5
<1>2. ASSUME NEW p \in sets
      PROVE  GridOwn(p[1], p[2], Filled(p).grids[p]) /\ TextOwn(p[1], p[2], 0, Filled(p).text)
  <2> DEFINE t == p[1]
             n == p[2]
  <2>1. t \in Trie /\ n \in Nat /\ n < NSets[t] /\ p = <<t, n>>
    BY <1>1
  <2>2. Filled(p) = PreRender([NewView(NSets[t]) EXCEPT
                                 !.set = n, !.requests = TRUE, !.traffic = TRUE], t)
    OBVIOUS
  <2> HIDE DEF Filled, t, n, sets
  <2>3. GridOwn(t, n, Filled(p).grids[<<t, n>>]) /\ TextOwn(t, n, 0, Filled(p).text)
    BY <2>1, <2>2, FilledOwn
  <2> QED BY <2>1, <2>3 DEF t, n
<1>3. BuiltView = [v2 EXCEPT !.renders = R]
  BY DEF BuiltView
<1>4. ViewOwn(v0)
  BY TuiAssumption, NewOwn DEF Trie
<1> HIDE DEF Filled, sets
<1>5. GridsOwn(G)
  <2>1. ASSUME NEW t \in Trie, NEW n \in Nat, <<t, n>> \in DOMAIN G
        PROVE  GridOwn(t, n, G[<<t, n>>])
    <3>1. <<t, n>> \in sets
      BY <2>1
    <3>2. G[<<t, n>>] = Filled(<<t, n>>).grids[<<t, n>>]
      BY <3>1
    <3> QED BY <1>2, <3>1, <3>2
  <2> HIDE DEF G
  <2> QED BY <2>1 DEF GridsOwn
<1>6. RendersOwn(R)
  <2>1. ASSUME NEW key \in DOMAIN R
        PROVE  TextOwn(key[1], key[2], key[3], R[key])
    <3>1. PICK p \in sets : key = <<p[1], p[2], 0>>
      BY <2>1
    <3>2. key[1] = p[1] /\ key[2] = p[2] /\ key[3] = 0 /\ p = <<key[1], key[2]>>
      BY <1>1, <3>1
    <3>3. R[key] = Filled(p).text
      BY <2>1, <3>2
    <3> HIDE DEF R
    <3> QED BY <1>2, <3>1, <3>2, <3>3
  <2> HIDE DEF R
  <2> QED BY <2>1 DEF RendersOwn
<1> HIDE DEF v0, G, R, on
<1>7. ViewOwn(v1)
  BY <1>4, KeptOwn
<1> HIDE DEF v1
<1>8. ViewOwn(v2)
  BY <1>5, <1>7, GridsReplaced
<1> HIDE DEF v2
<1> QED BY <1>3, <1>6, <1>8, RendersReplaced

----------------------------------------------------------------------------
(* The queue of closures.                                                  *)

Sequence(q) == q \in Seq({q[i] : i \in DOMAIN q})

LEMMA AppendFacts ==
  ASSUME NEW q, Sequence(q), NEW c
  PROVE  LET r == Append(q, c)
         IN  /\ Sequence(r)
             /\ \A i \in 1..Len(r) : r[i] = c \/ \E j \in 1..Len(q) : r[i] = q[j]
<1> DEFINE S == {q[i] : i \in DOMAIN q} \cup {c}
           r == Append(q, c)
<1>1. q \in Seq(S)
  BY DEF Sequence
<1>2. c \in S
  OBVIOUS
<1> HIDE DEF S
<1>3. r \in Seq(S) /\ Len(r) = Len(q) + 1 /\ Len(q) \in Nat
  BY <1>1, <1>2
<1>4. r[Len(q) + 1] = c /\ \A i \in 1..Len(q) : r[i] = q[i]
  BY <1>1, <1>2
<1> HIDE DEF r
<1>5. \A i \in 1..Len(r) : r[i] = c \/ \E j \in 1..Len(q) : r[i] = q[j]
  BY <1>3, <1>4
<1>6. Sequence(r)
  <2> DEFINE T == {r[i] : i \in DOMAIN r}
  <2>1. \A i \in 1..Len(r) : r[i] \in T
    BY <1>3
  <2> HIDE DEF T
  <2>2. r \in Seq(T)
    BY <1>3, <2>1
  <2> QED BY <2>2 DEF Sequence, T
<1> QED BY <1>5, <1>6 DEF r

LEMMA TailFacts ==
  ASSUME NEW q, Sequence(q), q # <<>>
  PROVE  LET r == Tail(q)
         IN  /\ Sequence(r)
             /\ \A i \in 1..Len(r) : \E j \in 1..Len(q) : r[i] = q[j]
             /\ Head(q) = q[1] /\ 1 \in 1..Len(q)
<1> DEFINE S == {q[i] : i \in DOMAIN q}
           r == Tail(q)
<1>1. q \in Seq(S)
  BY DEF Sequence
<1> HIDE DEF S
<1>2. Len(q) \in Nat \ {0} /\ Head(q) = q[1]
  BY <1>1
<1>3. r \in Seq(S) /\ Len(r) = Len(q) - 1 /\ \A i \in 1..Len(r) : r[i] = q[i + 1]
  BY <1>1
<1> HIDE DEF r
<1>4. \A i \in 1..Len(r) : \E j \in 1..Len(q) : r[i] = q[j]
  BY <1>2, <1>3
<1>5. Sequence(r)
  <2> DEFINE T == {r[i] : i \in DOMAIN r}
  <2>1. \A i \in 1..Len(r) : r[i] \in T
    BY <1>3
  <2> HIDE DEF T
  <2>2. r \in Seq(T)
    BY <1>3, <2>1
  <2> QED BY <2>2 DEF Sequence, T
<1>6. 1 \in 1..Len(q)
  BY <1>2
<1> QED BY <1>2, <1>4, <1>5, <1>6 DEF r

----------------------------------------------------------------------------
(* The invariant.                                                          *)

NoPanels == TextsOf(None, None)

(* Until the results are set trie 0 is current and nothing is shown; from  *)
(* then on the output that is read is the one of the current trie.         *)
ShownSound ==
  /\ currentTrie \in Trie /\ requests \in BOOLEAN /\ complete \in BOOLEAN
  /\ complete => jsonResult = currentTrie
  /\ ~ complete => currentTrie = 0
  /\ panels # NoPanels => complete /\ panels = TextsOf(currentTrie, currentTrie)
  /\ view # NoView => ViewOwn(view)

Goroutine == [at : {"idle", "start", "slow", "waiting", "cached"},
              trie : Trie \cup {None}, given : BOOLEAN]

(* No goroutine is at a trie before the results are set.                   *)
Working(g) == g.at # "idle" => complete /\ g.trie \in Trie

WorkersSound ==
  /\ analysis = "running" => ~ complete
  /\ analysis \in {"results", "waiting"} => complete
  /\ builder = "running" => complete
  /\ switcher \in Goroutine /\ Working(switcher)
  /\ singles \in [1..MaxPrecachers -> Goroutine]
  /\ \A p \in 1..MaxPrecachers : Working(singles[p])

ClosureSound(c) ==
  /\ c.trie \in Trie
  /\ c.kind = "publish" => ViewOwn(c.view)
  /\ complete \/ c.kind \in {"error", "progress"}

QueueSound == Sequence(queue) /\ \A i \in 1..Len(queue) : ClosureSound(queue[i])

(* The cached texts of a trie are all made from its own output.            *)
TextsSound(c) ==
  /\ c = [outputs |-> c.outputs, texts |-> c.texts, overlays |-> c.overlays,
          traffic |-> c.traffic]
  /\ \A t \in DOMAIN c.texts : c.texts[t] = TextsOf(t, t)

CacheSound == TextsSound(cache)

PanelInv == ShownSound /\ WorkersSound /\ QueueSound /\ CacheSound

LEMMA TrieFacts == 0 \in Trie /\ None \notin Trie /\ NTries \in Nat \ {0}
BY TuiAssumption DEF Trie, None

LEMMA IdleFacts == Idle \in Goroutine /\ Idle.at = "idle"
BY DEF Idle, Goroutine

LEMMA EmptyFacts == Sequence(<<>>) /\ Len(<<>>) = 0 /\ TextsSound(NoCache)
<1>1. Sequence(<<>>) /\ Len(<<>>) = 0
  BY DEF Sequence
<1>2. DOMAIN <<>> = {}
  OBVIOUS
<1>3. TextsSound(NoCache)
  BY <1>2 DEF TextsSound, NoCache
<1> QED BY <1>1, <1>3

LEMMA InitPanelInv == Init => PanelInv
<1> SUFFICES ASSUME Init PROVE PanelInv
  OBVIOUS
<1>1. ShownSound
  BY TrieFacts DEF Init, ShownSound, NoPanels
<1>2. WorkersSound
  BY IdleFacts DEF Init, WorkersSound, Working
<1>3. QueueSound /\ CacheSound
  BY EmptyFacts DEF Init, QueueSound, CacheSound
<1> QED BY <1>1, <1>2, <1>3 DEF PanelInv

(* The texts that a goroutine caches.                                      *)
LEMMA CacheTriesSound ==
  ASSUME CacheSound, NEW S, NEW given
  PROVE  TextsSound(CacheTries(S, given))
BY DEF CacheSound, TextsSound, CacheTries

(* What displayResults shows, and what it caches.                          *)
LEMMA DisplaySound ==
  ASSUME CacheSound, NEW t, Display(t, t)
  PROVE  panels' = TextsOf(t, t) /\ CacheSound'
<1>1. CASE t \in DOMAIN cache.texts
  BY <1>1 DEF CacheSound, TextsSound, Display
<1>2. CASE t \notin DOMAIN cache.texts
  <2> DEFINE texts == Put(cache.texts, t, TextsOf(t, t))
  <2>1. panels' = TextsOf(t, t) /\ cache' = [cache EXCEPT !.texts = texts]
    BY <1>2 DEF Display
  <2>2. \A x \in DOMAIN texts : texts[x] = TextsOf(x, x)
    BY DEF CacheSound, TextsSound, Put
  <2>3. cache = [outputs |-> cache.outputs, texts |-> cache.texts,
                 overlays |-> cache.overlays, traffic |-> cache.traffic]
    BY DEF CacheSound, TextsSound
  <2> HIDE DEF texts
  <2>4. cache' = [outputs |-> cache.outputs, texts |-> texts,
                  overlays |-> cache.overlays, traffic |-> cache.traffic]
    BY <2>1, <2>3
  <2>5. CacheSound'
    BY <2>2, <2>4 DEF CacheSound, TextsSound
  <2> QED BY <2>1, <2>5
<1> QED BY <1>1, <1>2

(* Queueing a closure, and running the first.                              *)
LEMMA EnqueueSound ==
  ASSUME QueueSound, NEW c, ClosureSound(c), queue' = Append(queue, c), complete' = complete
  PROVE  QueueSound'
<1>1. Sequence(queue') /\ \A i \in 1..Len(queue') :
                             queue'[i] = c \/ \E j \in 1..Len(queue) : queue'[i] = queue[j]
  BY AppendFacts DEF QueueSound
<1> QED BY <1>1 DEF QueueSound, ClosureSound

LEMMA UpdateSound ==
  ASSUME QueueSound, NEW kind, Update(kind)
  PROVE  /\ QueueSound' /\ ClosureSound(Head(queue)) /\ Head(queue).kind = kind
<1>1. queue # <<>> /\ queue' = Tail(queue) /\ complete' = complete /\ Head(queue).kind = kind
  BY DEF Update
<1>2. /\ Sequence(queue') /\ Head(queue) = queue[1] /\ 1 \in 1..Len(queue)
      /\ \A i \in 1..Len(queue') : \E j \in 1..Len(queue) : queue'[i] = queue[j]
  BY <1>1, TailFacts DEF QueueSound
<1> QED BY <1>1, <1>2 DEF QueueSound, ClosureSound

(* What an action leaves alone stays sound.                                *)
LEMMA Frame ==
  ASSUME PanelInv, complete' = complete
  PROVE  /\ queue' = queue => QueueSound'
         /\ UNCHANGED workers => WorkersSound'
         /\ cache' = cache => CacheSound'
         /\ UNCHANGED uiVars /\ requests' \in BOOLEAN => ShownSound'
<1>1. ASSUME queue' = queue PROVE QueueSound'
  BY <1>1 DEF PanelInv, QueueSound, ClosureSound
<1>2. ASSUME UNCHANGED workers PROVE WorkersSound'
  BY <1>2 DEF PanelInv, WorkersSound, Working, workers
<1>3. ASSUME cache' = cache PROVE CacheSound'
  BY <1>3 DEF PanelInv, CacheSound
<1>4. ASSUME UNCHANGED uiVars, requests' \in BOOLEAN PROVE ShownSound'
  BY <1>4 DEF PanelInv, ShownSound, uiVars
<1> QED BY <1>1, <1>2, <1>3, <1>4

(* The keys.                                                               *)
LEMMA ViewStep ==
  ASSUME ShownSound, complete' = complete, requests' = requests,
         UNCHANGED <<currentTrie, jsonResult, panels>>, ViewOwn(view')
  PROVE  ShownSound'
BY DEF ShownSound

LEMMA RedrawSound ==
  ASSUME PanelInv, InView, NEW v, ViewOwn(v), Redraw(v)
  PROVE  PanelInv'
<1>1. view' = RenderCached(v, currentTrie, currentTrie) /\ currentTrie \in Trie
  BY DEF Redraw, InView, Ready, PanelInv, ShownSound
<1>2. ViewOwn(view')
  BY <1>1, RenderCachedOwn
<1>3. /\ complete' = complete /\ requests' = requests /\ queue' = queue /\ cache' = cache
      /\ UNCHANGED workers /\ UNCHANGED <<currentTrie, jsonResult, panels>>
  BY DEF Redraw
<1>4. ShownSound'
  BY <1>2, <1>3, ViewStep DEF PanelInv
<1> QED BY <1>3, <1>4, Frame DEF PanelInv

LEMMA ModuloFacts ==
  ASSUME NEW n \in Int, NEW m \in Nat \ {0}
  PROVE  n % m \in Nat /\ n % m < m
OBVIOUS

LEMMA MoveSound ==
  ASSUME PanelInv, NEW step \in {1, -1}, MoveClusterSet(step)
  PROVE  PanelInv'
<1> DEFINE n == (view.set + step + view.total) % view.total
<1>1. InView /\ view.total > 0 /\ ViewOwn(view)
  BY DEF MoveClusterSet, InView, PanelInv, ShownSound
<1>2. n \in Nat /\ n < view.total
  BY <1>1, ModuloFacts DEF ViewOwn
<1>3. Redraw([view EXCEPT !.set = n])
  BY DEF MoveClusterSet
<1> HIDE DEF n
<1>4. ViewOwn([view EXCEPT !.set = n])
  BY <1>1, <1>2, SetMoved
<1> QED BY <1>1, <1>3, <1>4, RedrawSound

LEMMA OnDemandSound ==
  ASSUME PanelInv, ShowVisualization
  PROVE  PanelInv'
<1> DEFINE v0 == NewView(NSets[currentTrie])
           on == TRUE
           v1 == [v0 EXCEPT !.requests = on]
           v2 == [v1 EXCEPT !.traffic = on]
<1>1. /\ complete' = complete /\ requests' = requests /\ queue' = queue /\ cache' = cache
      /\ UNCHANGED workers /\ UNCHANGED <<currentTrie, jsonResult, panels>>
  BY DEF ShowVisualization
<1>2. currentTrie \in Trie /\ jsonResult = currentTrie
  BY DEF ShowVisualization, Ready, PanelInv, ShownSound
<1>3. view' = IF view # NoView THEN view
              ELSE IF ~ requests THEN v0 ELSE Render(v2, currentTrie, currentTrie)
  BY <1>2 DEF ShowVisualization
<1>4. ViewOwn(v0)
  BY <1>2, TuiAssumption, NewOwn
<1> HIDE DEF v0, on
<1>5. ViewOwn(v1)
  BY <1>4, KeptOwn
<1> HIDE DEF v1
<1>6. ViewOwn(v2)
  BY <1>5, KeptOwn
<1> HIDE DEF v2
<1>7. ViewOwn(Render(v2, currentTrie, currentTrie))
  BY <1>2, <1>6, RenderOwn
<1>8. view # NoView => ViewOwn(view)
  BY DEF PanelInv, ShownSound
<1>9. ViewOwn(view')
  BY <1>3, <1>4, <1>7, <1>8
<1>10. ShownSound'
  BY <1>1, <1>9, ViewStep DEF PanelInv
<1> QED BY <1>1, <1>10, Frame DEF PanelInv

LEMMA NextTrieSound ==
  ASSUME PanelInv, NextTrie
  PROVE  PanelInv'
<1> DEFINE t == (currentTrie + 1) % NTries
<1>1. t \in Trie
  <2>1. currentTrie + 1 \in Int
    BY DEF PanelInv, ShownSound, Trie
  <2>2. t \in Nat /\ t < NTries
    BY <2>1, TrieFacts, ModuloFacts
  <2> HIDE DEF t
  <2> QED BY <2>2, TrieFacts DEF Trie
<1>2. switcher' = [Idle EXCEPT !.at = "start", !.trie = t] /\ complete
  BY DEF NextTrie, Ready
<1> HIDE DEF t
<1>3. switcher' = [at |-> "start", trie |-> t, given |-> FALSE]
  BY <1>2 DEF Idle
<1>4. switcher' \in Goroutine /\ switcher'.trie = t
  BY <1>1, <1>3 DEF Goroutine
<1>5. /\ complete' = complete /\ requests' = requests /\ queue' = queue /\ cache' = cache
      /\ UNCHANGED uiVars /\ UNCHANGED <<analysis, builder, singles>>
  BY DEF NextTrie
<1>6. WorkersSound'
  BY <1>1, <1>2, <1>4, <1>5 DEF PanelInv, WorkersSound, Working
<1>7. requests \in BOOLEAN
  BY DEF PanelInv, ShownSound
<1> QED BY <1>5, <1>6, <1>7, Frame DEF PanelInv

LEMMA QuitSound ==
  ASSUME PanelInv, KeyQuit
  PROVE  PanelInv'
<1>1. ShownSound'
  BY TrieFacts DEF KeyQuit, ShownSound, NoPanels
<1>2. WorkersSound'
  BY IdleFacts DEF KeyQuit, WorkersSound, Working
<1>3. QueueSound' /\ CacheSound'
  BY EmptyFacts DEF KeyQuit, QueueSound, CacheSound
<1> QED BY <1>1, <1>2, <1>3 DEF PanelInv

LEMMA KeySound ==
  ASSUME PanelInv, Key
  PROVE  PanelInv'
<1>1. CASE KeyResults \/ KeyProgress
  <2>1. /\ complete' = complete /\ requests' = requests /\ queue' = queue /\ cache' = cache
        /\ UNCHANGED workers /\ UNCHANGED <<currentTrie, jsonResult, panels, view>>
    BY <1>1 DEF KeyResults, KeyProgress
  <2>2. ShownSound'
    BY <2>1 DEF PanelInv, ShownSound
  <2> QED BY <2>1, <2>2, Frame DEF PanelInv
<1>2. CASE ToggleIntensityScale
  <2> DEFINE m == (view.mode + 1) % ScaleModes
  <2>1. InView /\ Redraw([view EXCEPT !.mode = m])
    BY <1>2 DEF ToggleIntensityScale
  <2>2. ViewOwn(view)
    BY <2>1 DEF InView, PanelInv, ShownSound
  <2> HIDE DEF m
  <2>3. ViewOwn([view EXCEPT !.mode = m])
    BY <2>2, KeptOwn
  <2> QED BY <2>1, <2>3, RedrawSound
<1>3. CASE NextClusterSet \/ PrevClusterSet
  BY <1>3, MoveSound DEF NextClusterSet, PrevClusterSet
<1> QED
  BY <1>1, <1>2, <1>3, OnDemandSound, NextTrieSound, QuitSound DEF Key

----------------------------------------------------------------------------
(* The closures.                                                           *)

LEMMA UpdateFrame ==
  ASSUME PanelInv, NEW kind, Update(kind)
  PROVE  /\ complete' = complete /\ requests' = requests /\ requests \in BOOLEAN
         /\ WorkersSound' /\ QueueSound'
         /\ Head(queue).kind = kind /\ Head(queue).trie \in Trie
         /\ kind = "publish" => ViewOwn(Head(queue).view)
         /\ kind \notin {"error", "progress"} => complete
<1>1. complete' = complete /\ requests' = requests /\ UNCHANGED workers
  BY DEF Update
<1>2. QueueSound' /\ ClosureSound(Head(queue)) /\ Head(queue).kind = kind
  BY UpdateSound DEF PanelInv
<1>3. requests \in BOOLEAN
  BY DEF PanelInv, ShownSound
<1> QED BY <1>1, <1>2, <1>3, Frame DEF ClosureSound

(* What a switch to trie t shows, when the view that it shows is sound.    *)
LEMMA ShownTogether ==
  ASSUME PanelInv, NEW t \in Trie, complete, complete' = TRUE, requests' = requests,
         currentTrie' = t, jsonResult' = t, Display(t, t),
         view' # NoView => ViewOwn(view')
  PROVE  ShownSound' /\ CacheSound'
<1>1. panels' = TextsOf(t, t) /\ CacheSound'
  BY DisplaySound DEF PanelInv
<1> QED BY <1>1 DEF PanelInv, ShownSound

LEMMA FromCacheSound ==
  ASSUME PanelInv, NEW t \in Trie, complete, complete' = TRUE, requests' = requests,
         currentTrie' = t, ShowFromCache(t)
  PROVE  ShownSound' /\ CacheSound'
<1>1. /\ jsonResult' = t /\ Display(t, t)
      /\ view' = IF view = NoView THEN view ELSE UpdateFromCache(view, t, t)
  BY DEF ShowFromCache
<1>2. view # NoView => ViewOwn(view)
  BY DEF PanelInv, ShownSound
<1>3. view' # NoView => ViewOwn(view')
  BY <1>1, <1>2, SwitchFromCacheOwn
<1> QED BY <1>1, <1>3, ShownTogether

LEMMA ShowResultsSound ==
  ASSUME PanelInv, ShowResults
  PROVE  PanelInv'
<1>1. Update("results") /\ UNCHANGED <<currentTrie, jsonResult, view>>
  BY DEF ShowResults
<1>2. /\ complete' = complete /\ requests' = requests /\ complete
      /\ WorkersSound' /\ QueueSound'
  BY <1>1, UpdateFrame
<1>3. jsonResult = currentTrie /\ currentTrie \in Trie /\ complete = TRUE
  BY <1>2 DEF PanelInv, ShownSound
<1>4. Display(currentTrie, currentTrie)
  BY <1>3 DEF ShowResults
<1>5. view' # NoView => ViewOwn(view')
  BY <1>1 DEF PanelInv, ShownSound
<1>6. ShownSound' /\ CacheSound'
  BY <1>1, <1>2, <1>3, <1>4, <1>5, ShownTogether
<1> QED BY <1>2, <1>6 DEF PanelInv

LEMMA ShowTextSound ==
  ASSUME PanelInv, ShowErrorText \/ ShowProgress
  PROVE  PanelInv'
<1>1. PICK kind \in {"error", "progress"} : Update(kind)
  BY DEF ShowErrorText, ShowProgress
<1>2. UNCHANGED <<currentTrie, jsonResult, panels, view, cache>>
  BY DEF ShowErrorText, ShowProgress
<1>3. complete' = complete /\ requests' = requests /\ WorkersSound' /\ QueueSound'
  BY <1>1, UpdateFrame
<1>4. ShownSound'
  BY <1>2, <1>3 DEF PanelInv, ShownSound
<1>5. CacheSound'
  BY <1>2 DEF PanelInv, CacheSound
<1> QED BY <1>3, <1>4, <1>5 DEF PanelInv

LEMMA PublishViewSound ==
  ASSUME PanelInv, PublishView
  PROVE  PanelInv'
<1> DEFINE v == Head(queue).view
<1>1. Update("publish") /\ UNCHANGED <<currentTrie, jsonResult, panels, cache>>
  BY DEF PublishView
<1>2. /\ complete' = complete /\ requests' = requests /\ complete
      /\ WorkersSound' /\ QueueSound' /\ ViewOwn(v)
  BY <1>1, UpdateFrame
<1>3. jsonResult = currentTrie /\ currentTrie \in Trie
  BY <1>2 DEF PanelInv, ShownSound
<1>4. view' = IF view # NoView THEN view ELSE RenderCached(v, currentTrie, currentTrie)
  BY <1>3 DEF PublishView
<1> HIDE DEF v
<1>5. ViewOwn(RenderCached(v, currentTrie, currentTrie))
  BY <1>2, <1>3, RenderCachedOwn
<1>6. view # NoView => ViewOwn(view)
  BY DEF PanelInv, ShownSound
<1>7. ViewOwn(view')
  BY <1>4, <1>5, <1>6
<1>8. ShownSound'
  BY <1>1, <1>2, <1>7, ViewStep DEF PanelInv
<1>9. CacheSound'
  BY <1>1 DEF PanelInv, CacheSound
<1> QED BY <1>2, <1>8, <1>9 DEF PanelInv

LEMMA SwitchCachedSound ==
  ASSUME PanelInv, SwitchCached
  PROVE  PanelInv'
<1> DEFINE t == Head(queue).trie
<1>1. Update("cached") /\ currentTrie' = t /\ ShowFromCache(t)
  BY DEF SwitchCached
<1> HIDE DEF t
<1>2. /\ complete' = complete /\ requests' = requests /\ complete
      /\ WorkersSound' /\ QueueSound' /\ t \in Trie
  BY <1>1, UpdateFrame DEF t
<1>3. complete = TRUE
  BY <1>2 DEF PanelInv, ShownSound
<1>4. ShownSound' /\ CacheSound'
  BY <1>1, <1>2, <1>3, FromCacheSound
<1> QED BY <1>2, <1>4 DEF PanelInv

LEMMA RecheckSound ==
  ASSUME PanelInv, Recheck
  PROVE  PanelInv'
<1> DEFINE t == Head(queue).trie
<1>1. /\ Update("recheck") /\ currentTrie' = currentTrie
      /\ IF StillShown(t) /\ t \in cache.outputs THEN ShowFromCache(t)
         ELSE UNCHANGED <<uiVars, cache>>
  BY DEF Recheck
<1> HIDE DEF t
<1>2. /\ complete' = complete /\ requests' = requests /\ complete
      /\ WorkersSound' /\ QueueSound' /\ t \in Trie
  BY <1>1, UpdateFrame DEF t
<1>3. complete = TRUE
  BY <1>2 DEF PanelInv, ShownSound
<1>4. CASE StillShown(t) /\ t \in cache.outputs
  <2>1. currentTrie' = t /\ ShowFromCache(t)
    BY <1>1, <1>4 DEF StillShown
  <2>2. ShownSound' /\ CacheSound'
    BY <1>2, <1>3, <2>1, FromCacheSound
  <2> QED BY <1>2, <2>2 DEF PanelInv
<1>5. CASE ~ (StillShown(t) /\ t \in cache.outputs)
  <2>1. UNCHANGED uiVars /\ cache' = cache
    BY <1>1, <1>5
  <2>2. requests' \in BOOLEAN
    BY <1>2 DEF PanelInv, ShownSound
  <2>3. ShownSound' /\ CacheSound'
    BY <1>2, <2>1, <2>2, Frame
  <2> QED BY <1>2, <2>3 DEF PanelInv
<1> QED BY <1>4, <1>5

LEMMA SwitchSlowSound ==
  ASSUME PanelInv, SwitchSlow
  PROVE  PanelInv'
<1> DEFINE t == Head(queue).trie
<1>1. /\ Update("slow") /\ currentTrie' = t /\ jsonResult' = t /\ Display(t, t)
      /\ view' = IF view = NoView THEN view
                 ELSE IF page = "visualization" THEN UpdateForCurrentTrie(view, t, t)
                 ELSE UpdateMetadataOnly(view, t)
  BY DEF SwitchSlow
<1> HIDE DEF t
<1>2. /\ complete' = complete /\ requests' = requests /\ complete
      /\ WorkersSound' /\ QueueSound' /\ t \in Trie
  BY <1>1, UpdateFrame DEF t
<1>3. complete = TRUE /\ (view # NoView => ViewOwn(view))
  BY <1>2 DEF PanelInv, ShownSound
<1>4. view' # NoView => ViewOwn(view')
  BY <1>1, <1>2, <1>3, SwitchOwn, MetadataOwn
<1>5. ShownSound' /\ CacheSound'
  BY <1>1, <1>2, <1>3, <1>4, ShownTogether
<1> QED BY <1>2, <1>5 DEF PanelInv

LEMMA RunUpdateSound ==
  ASSUME PanelInv, RunUpdate
  PROVE  PanelInv'
BY ShowResultsSound, ShowTextSound, PublishViewSound, SwitchCachedSound, RecheckSound,
   SwitchSlowSound DEF RunUpdate

----------------------------------------------------------------------------
(* The goroutines.                                                         *)

LEMMA ClosureFacts ==
  ASSUME NEW kind, NEW t \in Trie, NEW by, kind # "publish",
         complete \/ kind \in {"error", "progress"}
  PROVE  ClosureSound(Closure(kind, t, by))
BY DEF ClosureSound, Closure

LEMMA AnalyseSound ==
  ASSUME PanelInv, Analyse
  PROVE  PanelInv'
<1>1. CASE AnalysisEnds
  <2>1. /\ UNCHANGED <<currentTrie, panels, view, builder, switcher, singles, requests,
                       cache, queue>>
        /\ ~ complete
        /\ \/ analysis' = "results" /\ jsonResult' = 0 /\ complete' = TRUE
           \/ analysis' = "error" /\ jsonResult' = jsonResult /\ complete' = complete
    BY <1>1 DEF AnalysisEnds, PanelInv, WorkersSound
  <2>2. ShownSound'
    <3>1. currentTrie' = 0 /\ panels' = NoPanels /\ currentTrie' \in Trie
      BY <2>1, TrieFacts DEF PanelInv, ShownSound
    <3>2. view' # NoView => ViewOwn(view')
      BY <2>1 DEF PanelInv, ShownSound
    <3>3. requests' \in BOOLEAN
      BY <2>1 DEF PanelInv, ShownSound
    <3>4. complete' \in BOOLEAN /\ (complete' => jsonResult' = 0)
      <4>1. complete = FALSE
        BY <2>1 DEF PanelInv, ShownSound
      <4>2. \/ complete' = TRUE /\ jsonResult' = 0
            \/ complete' = FALSE
        BY <2>1, <4>1
      <4> QED BY <4>2
    <3>5. NoPanels' = NoPanels
      BY DEF NoPanels, TextsOf, None
    <3> QED BY <3>1, <3>2, <3>3, <3>4, <3>5 DEF ShownSound
  <2>3. WorkersSound'
    BY <2>1 DEF PanelInv, WorkersSound, Working
  <2>4. QueueSound' /\ CacheSound'
    BY <2>1 DEF PanelInv, QueueSound, ClosureSound, CacheSound
  <2> QED BY <2>2, <2>3, <2>4 DEF PanelInv
<1>2. CASE QueueResults
  <2>1. /\ UNCHANGED uiVars /\ complete' = complete /\ requests' = requests /\ cache' = cache
        /\ UNCHANGED <<builder, switcher, singles>>
        /\ analysis \in {"results", "error"}
        /\ analysis' = IF analysis = "results" THEN "waiting" ELSE "done"
        /\ queue' = Append(queue, Closure(analysis, 0, <<"analysis">>))
    BY <1>2 DEF QueueResults, Enqueue
  <2>2. analysis = "results" => complete
    BY DEF PanelInv, WorkersSound
  <2>3. ClosureSound(Closure(analysis, 0, <<"analysis">>))
    BY <2>1, <2>2, TrieFacts, ClosureFacts
  <2>4. QueueSound'
    BY <2>1, <2>3, EnqueueSound DEF PanelInv
  <2>5. WorkersSound'
    BY <2>1, <2>2 DEF PanelInv, WorkersSound, Working
  <2>6. requests' \in BOOLEAN
    BY <2>1 DEF PanelInv, ShownSound
  <2> QED BY <2>1, <2>4, <2>5, <2>6, Frame DEF PanelInv
<1>3. CASE SetRequestData
  <2>1. /\ UNCHANGED uiVars /\ complete' = complete /\ requests' = TRUE /\ cache' = cache
        /\ queue' = queue /\ UNCHANGED <<switcher, singles>>
        /\ analysis = "waiting" /\ analysis' = "done"
    BY <1>3 DEF SetRequestData
  <2>2. WorkersSound'
    BY <2>1 DEF PanelInv, WorkersSound, Working
  <2> QED BY <2>1, <2>2, Frame DEF PanelInv
<1> QED BY <1>1, <1>2, <1>3 DEF Analyse

LEMMA BackgroundSound ==
  ASSUME PanelInv, Animate \/ PreCacheAllTries \/ BuildView
  PROVE  PanelInv'
<1>1. complete' = complete /\ requests' = requests /\ UNCHANGED uiVars
  BY DEF Animate, PreCacheAllTries, BuildView
<1>2. requests' \in BOOLEAN
  BY <1>1 DEF PanelInv, ShownSound
<1>3. CASE Animate
  <2>1. /\ UNCHANGED workers /\ cache' = cache
        /\ queue' = Append(queue, Closure("progress", 0, <<"animator">>))
    BY <1>3 DEF Animate, Enqueue
  <2>2. ClosureSound(Closure("progress", 0, <<"animator">>))
    BY TrieFacts, ClosureFacts
  <2>3. QueueSound'
    BY <1>1, <2>1, <2>2, EnqueueSound DEF PanelInv
  <2> QED BY <1>1, <1>2, <2>1, <2>3, Frame DEF PanelInv
<1>4. CASE PreCacheAllTries
  <2>1. /\ UNCHANGED <<analysis, builder, switcher, singles>> /\ queue' = queue
        /\ cache' = CacheTries(Trie, TRUE)
    BY <1>4 DEF PreCacheAllTries
  <2>2. WorkersSound'
    BY <1>1, <2>1 DEF PanelInv, WorkersSound, Working
  <2>3. CacheSound'
    BY <2>1, CacheTriesSound DEF PanelInv, CacheSound
  <2> QED BY <1>1, <1>2, <2>1, <2>2, <2>3, Frame DEF PanelInv
<1>5. CASE BuildView
  <2> DEFINE c == [Closure("publish", 0, <<"builder">>) EXCEPT !.view = BuiltView]
             built == BuiltView
  <2>1. /\ UNCHANGED <<analysis, switcher, singles>> /\ cache' = cache
        /\ builder = "running" /\ builder' = "done"
        /\ queue' = Append(queue, c)
    BY <1>5 DEF BuildView
  <2>2. ViewOwn(built)
    BY BuiltViewOwn
  <2> HIDE DEF built
  <2>3. c = [kind |-> "publish", trie |-> 0, by |-> <<"builder">>, view |-> built]
    BY DEF Closure, built
  <2> HIDE DEF c
  <2>4. complete
    BY <2>1 DEF PanelInv, WorkersSound
  <2>5. ClosureSound(c)
    BY <2>2, <2>3, <2>4, TrieFacts DEF ClosureSound
  <2>6. QueueSound'
    BY <1>1, <2>1, <2>5, EnqueueSound DEF PanelInv
  <2>7. WorkersSound'
    BY <1>1, <2>1 DEF PanelInv, WorkersSound, Working
  <2> QED BY <1>1, <1>2, <2>1, <2>6, <2>7, Frame DEF PanelInv
<1> QED BY <1>3, <1>4, <1>5

LEMMA SwitchSound ==
  ASSUME PanelInv, Switch
  PROVE  PanelInv'
<1>1. /\ complete' = complete /\ requests' = requests /\ UNCHANGED uiVars /\ cache' = cache
      /\ UNCHANGED <<analysis, builder>> /\ switcher.at \in {"start", "slow", "waiting"}
  BY DEF Switch, SwitchHit, SwitchMiss, QueueSlow, EndSwitch
<1>2. requests' \in BOOLEAN
  BY <1>1 DEF PanelInv, ShownSound
<1>3. complete /\ switcher.trie \in Trie /\ switcher \in Goroutine
  BY <1>1 DEF PanelInv, WorkersSound, Working
<1>4. \A at \in {"slow", "waiting"} :
        /\ [switcher EXCEPT !.at = at] \in Goroutine
        /\ [switcher EXCEPT !.at = at].trie = switcher.trie
  BY <1>3 DEF Goroutine
<1>5. CASE SwitchHit \/ QueueSlow
  <2>1. PICK kind \in {"cached", "slow"} :
          queue' = Append(queue, Closure(kind, switcher.trie, <<"switcher">>))
    BY <1>5 DEF SwitchHit, QueueSlow, Enqueue
  <2>2. singles' = singles /\ switcher' = [switcher EXCEPT !.at = "waiting"]
    BY <1>5 DEF SwitchHit, QueueSlow
  <2>3. ClosureSound(Closure(kind, switcher.trie, <<"switcher">>))
    BY <1>3, ClosureFacts
  <2>4. QueueSound'
    BY <1>1, <2>1, <2>3, EnqueueSound DEF PanelInv
  <2>5. switcher' \in Goroutine /\ switcher'.trie \in Trie
    BY <1>3, <1>4, <2>2
  <2>6. WorkersSound'
    BY <1>1, <1>3, <2>2, <2>5 DEF PanelInv, WorkersSound, Working
  <2> QED BY <1>1, <1>2, <2>4, <2>6, Frame DEF PanelInv
<1>6. CASE SwitchMiss
  <2> DEFINE g == [at |-> "start", trie |-> switcher.trie, given |-> requests]
  <2>1. PICK p \in Free : singles' = [singles EXCEPT ![p] = g]
    BY <1>6 DEF SwitchMiss
  <2>2. queue' = queue /\ switcher' = [switcher EXCEPT !.at = "slow"]
    BY <1>6 DEF SwitchMiss
  <2>3. g \in Goroutine /\ g.trie \in Trie
    BY <1>1, <1>2, <1>3 DEF Goroutine
  <2> HIDE DEF g
  <2>4. p \in 1..MaxPrecachers
    BY DEF Free
  <2>5. switcher' \in Goroutine /\ switcher'.trie \in Trie
    BY <1>3, <1>4, <2>2
  <2>6. singles' \in [1..MaxPrecachers -> Goroutine]
    BY <2>1, <2>3, <2>4 DEF PanelInv, WorkersSound
  <2>7. \A q \in 1..MaxPrecachers : singles'[q] = IF q = p THEN g ELSE singles[q]
    BY <2>1, <2>4 DEF PanelInv, WorkersSound
  <2>8. WorkersSound'
    BY <1>1, <1>3, <2>3, <2>5, <2>6, <2>7 DEF PanelInv, WorkersSound, Working
  <2> QED BY <1>1, <1>2, <2>2, <2>8, Frame DEF PanelInv
<1>7. CASE EndSwitch
  <2>1. queue' = queue /\ singles' = singles /\ switcher' = Idle
    BY <1>7 DEF EndSwitch
  <2>2. WorkersSound'
    BY <1>1, <2>1, IdleFacts DEF PanelInv, WorkersSound, Working
  <2> QED BY <1>1, <1>2, <2>1, <2>2, Frame DEF PanelInv
<1> QED BY <1>5, <1>6, <1>7 DEF Switch

LEMMA SingleSound ==
  ASSUME PanelInv, NEW p \in 1..MaxPrecachers, Single(p)
  PROVE  PanelInv'
<1>1. /\ complete' = complete /\ requests' = requests /\ UNCHANGED uiVars
      /\ UNCHANGED <<analysis, builder, switcher>> /\ singles[p].at \in {"start", "cached"}
  BY DEF Single, PreCacheSingleTrie, QueueRecheck, Singles
<1>2. requests' \in BOOLEAN
  BY <1>1 DEF PanelInv, ShownSound
<1>3. complete /\ singles[p].trie \in Trie /\ singles[p] \in Goroutine
  BY <1>1 DEF PanelInv, WorkersSound, Working
<1>4. ASSUME NEW g \in Goroutine, g.at # "idle" => g.trie \in Trie,
             singles' = [singles EXCEPT ![p] = g]
      PROVE  WorkersSound'
  <2>1. singles' \in [1..MaxPrecachers -> Goroutine]
    BY <1>4 DEF PanelInv, WorkersSound
  <2>2. \A q \in 1..MaxPrecachers : singles'[q] = IF q = p THEN g ELSE singles[q]
    BY <1>4 DEF PanelInv, WorkersSound
  <2> QED BY <1>1, <1>3, <1>4, <2>1, <2>2 DEF PanelInv, WorkersSound, Working
<1>5. CASE PreCacheSingleTrie(p)
  <2> DEFINE g == [singles[p] EXCEPT !.at = "cached"]
  <2>1. PICK given : cache' = CacheTries({singles[p].trie}, given)
    BY <1>5 DEF PreCacheSingleTrie
  <2>2. queue' = queue /\ singles' = [singles EXCEPT ![p] = g]
    BY <1>5 DEF PreCacheSingleTrie, Singles
  <2>3. g \in Goroutine /\ g.trie \in Trie
    BY <1>3 DEF Goroutine
  <2> HIDE DEF g
  <2>4. WorkersSound'
    BY <1>4, <2>2, <2>3
  <2>5. CacheSound'
    BY <2>1, CacheTriesSound DEF PanelInv, CacheSound
  <2> QED BY <1>1, <1>2, <2>2, <2>4, <2>5, Frame DEF PanelInv
<1>6. CASE QueueRecheck(p)
  <2>1. /\ cache' = cache /\ singles' = [singles EXCEPT ![p] = Idle]
        /\ queue' = Append(queue, Closure("recheck", singles[p].trie, <<"single", p>>))
    BY <1>6 DEF QueueRecheck, Singles, Enqueue
  <2>2. ClosureSound(Closure("recheck", singles[p].trie, <<"single", p>>))
    BY <1>3, ClosureFacts
  <2>3. QueueSound'
    BY <1>1, <2>1, <2>2, EnqueueSound DEF PanelInv
  <2>4. WorkersSound'
    BY <1>4, <2>1, IdleFacts
  <2> QED BY <1>1, <1>2, <2>1, <2>3, <2>4, Frame DEF PanelInv
<1> QED BY <1>5, <1>6 DEF Single

----------------------------------------------------------------------------
(* The theorems.                                                           *)

LEMMA NextPanelInv == PanelInv /\ [Next]_vars => PanelInv'
<1> SUFFICES ASSUME PanelInv, [Next]_vars PROVE PanelInv'
  OBVIOUS
<1>1. CASE Next
  BY <1>1, KeySound, RunUpdateSound, AnalyseSound, BackgroundSound, SwitchSound, SingleSound
     DEF Next
<1>2. CASE UNCHANGED vars
  <2>1. /\ complete' = complete /\ requests' = requests /\ queue' = queue /\ cache' = cache
        /\ UNCHANGED workers /\ UNCHANGED uiVars
    BY <1>2 DEF vars
  <2>2. requests \in BOOLEAN
    BY DEF PanelInv, ShownSound
  <2> QED BY <2>1, <2>2, Frame DEF PanelInv
<1> QED BY <1>1, <1>2

(* Every reachable state satisfies the invariant that the two properties   *)
(* follow from: what is shown, the goroutines, the queued closures and the *)
(* trie cache are sound together.                                          *)
THEOREM PanelInvHolds == Spec => []PanelInv
<1>1. Init => PanelInv
  BY InitPanelInv
<1>2. PanelInv /\ [Next]_vars => PanelInv'
  BY NextPanelInv
<1> QED BY <1>1, <1>2, PTL DEF Spec

(* The summary, the other panels, the output the render functions read and *)
(* the trie that the next 't' counts from are one and the same trie,       *)
(* however switches, misses of the trie cache and the closures of the      *)
(* goroutines interleave.                                                  *)
THEOREM PanelsAreCurrentHolds == Spec => []PanelsAreCurrent
<1>1. PanelInv => PanelsAreCurrent
  BY DEF PanelInv, ShownSound, PanelsAreCurrent, NoPanels
<1> QED BY <1>1, PanelInvHolds, PTL

(* No cached text of the visualization shows another trie, set or          *)
(* brightness mode than the one it is cached for, whether the event loop   *)
(* made it or the goroutine that renders every set of every trie.          *)
THEOREM HeatmapIsOwnHolds == Spec => []HeatmapIsOwn
<1>1. PanelInv => HeatmapIsOwn
  BY DEF PanelInv, ShownSound, ViewOwn, RendersOwn, TextOwn, HeatmapIsOwn
<1> QED BY <1>1, PanelInvHolds, PTL
=============================================================================
