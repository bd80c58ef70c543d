--------------------------- MODULE KnowledgeProofs ---------------------------
(***************************************************************************)
(* Theorems about Scrape and KnowledgeBase, for every site, every list of  *)
(* sources and any number of runs, changes and failures.                   *)
(***************************************************************************)
EXTENDS KnowledgeBase, TLAPS

-----------------------------------------------------------------------------
(* The queue of a source starts as its seed, and has nothing else until a  *)
(* page was written: a second source may find its seed among the seen.     *)
QueueStartsAtSeed ==
  src <= Len(Sources) => /\ count = 0 => queue \subseteq {Source.seed}
                         /\ queue \subseteq {Source.seed} \cup Source.within

(* Nothing is queued once the sources are done.                            *)
EndOfSources ==
  /\ spc = "crawl" => src <= Len(Sources)
  /\ src > Len(Sources) => queue = {}

Typed == TypeOK /\ QueueStartsAtSeed /\ EndOfSources

(* There is a first source, and every source is well-formed.               *)
LEMMA SourceAt ==
  /\ Len(Sources) \in Nat /\ 1 <= Len(Sources)
  /\ \A i \in 1 .. Len(Sources) :
       /\ Sources[i].seed \in Urls /\ Sources[i].within \subseteq Urls
       /\ Sources[i].max_pages \in Nat
  <1> DEFINE S == [seed : Urls, crawl : BOOLEAN, max_pages : Nat, within : SUBSET Urls]
  <1>1. Sources \in Seq(S) /\ Sources # <<>>
    BY ScrapeAssumption DEF ScrapeAssumption
  <1>2. \A s \in S : s.seed \in Urls /\ s.within \subseteq Urls /\ s.max_pages \in Nat
    OBVIOUS
  <1> HIDE DEF S
  <1>3. Len(Sources) \in Nat /\ 1 <= Len(Sources) /\ \A i \in 1 .. Len(Sources) : Sources[i] \in S
    BY <1>1
  <1> QED BY <1>2, <1>3

(* The other constants.                                                    *)
LEMMA ConstantTypes ==
  /\ Links \in [Urls -> SUBSET Urls] /\ NameOf \in [Urls -> Names]
  /\ Initially \subseteq Names /\ None \notin Versions
  /\ MaxChunks \in Nat /\ SizeOf \in [Versions -> 0 .. MaxChunks]
  BY ScrapeAssumption, KnowledgeAssumption DEF ScrapeAssumption, KnowledgeAssumption

LEMMA TypedInit == Init => Typed
  <1> SUFFICES ASSUME Init PROVE Typed
    OBVIOUS
  <1> USE SourceAt, ConstantTypes DEF Init, ScrapeInit
  <1>1. /\ prune \in BOOLEAN /\ clean \in BOOLEAN /\ replace \in BOOLEAN
        /\ dropped \in BOOLEAN /\ rebuilt \in BOOLEAN
    OBVIOUS
  <1>2. page \in [Urls -> Versions \cup {None}] /\ files \in [Names -> Versions \cup {None}]
    OBVIOUS
  <1>3. vectors \in [Names -> [Chunks -> Versions \cup {None}]]
    BY DEF Nothing
  <1> QED
    BY <1>1, <1>2, <1>3 DEF Typed, TypeOK, ScrapeTypeOK, QueueStartsAtSeed, EndOfSources, Source

LEMMA TypedStep == Typed /\ [Next]_vars => Typed'
  <1> SUFFICES ASSUME Typed, [Next]_vars PROVE Typed'
    OBVIOUS
  <1> USE SourceAt, ConstantTypes DEF Typed, TypeOK, ScrapeTypeOK, QueueStartsAtSeed, EndOfSources, site, scraper, scrapeVars, ingester
  <1>1. ASSUME NEW u \in Urls, Edit(u), UNCHANGED ingester PROVE Typed'
    BY <1>1 DEF Edit, Source
  <1>2. CASE StartScrape /\ UNCHANGED ingester
    BY <1>2 DEF StartScrape, Source, Present
  <1>3. CASE Fetch /\ UNCHANGED ingester
    <2>1. PICK u \in queue : PassOver(u) \/ WriteFile(u) \/ Skip(u)
      BY <1>3 DEF Fetch
    <2>2. /\ src \in 1 .. Len(Sources) + 1 /\ src <= Len(Sources) /\ count < Source.max_pages
          /\ src' = src /\ Source' = Source /\ spc' = spc /\ UNCHANGED <<site, prune, existing, scrapes>>
      BY <1>3 DEF Fetch, Source
    <2>3. Source.seed \in Urls /\ Source.within \subseteq Urls /\ Source.max_pages \in Nat
      BY <2>2 DEF Source
    <2>4. CASE PassOver(u)
      BY <1>3, <2>1, <2>2, <2>3, <2>4 DEF PassOver, Source
    <2>5. CASE WriteFile(u)
      <3>1. NewLinks(u) \subseteq Source.within /\ NewLinks(u) \cap (seen \cup {u}) = {}
        BY DEF NewLinks
      <3>2. (queue \ {u}) \cap (seen \cup {u}) = {}
        BY <2>1, <2>2, <2>5 DEF WriteFile, Source
      <3> QED BY <1>3, <2>1, <2>2, <2>3, <2>5, <3>1, <3>2 DEF WriteFile, Source
    <2>6. CASE Skip(u)
      <3>1. clean' \in BOOLEAN
        BY <2>6 DEF Skip
      <3> QED BY <1>3, <2>1, <2>2, <2>3, <2>6, <3>1 DEF Skip, Source
    <2> QED BY <2>1, <2>4, <2>5, <2>6
  <1>4. CASE NextSource /\ UNCHANGED ingester
    BY <1>4 DEF NextSource, Source
  <1>5. CASE Report /\ UNCHANGED ingester
    BY <1>5 DEF Report, Source
  <1>6. CASE PruneFile /\ UNCHANGED ingester
    BY <1>6 DEF PruneFile, Source, Orphans
  <1>7. CASE DieScraping /\ UNCHANGED ingester
    <2>1. clean' \in BOOLEAN
      BY <1>7 DEF DieScraping
    <2> QED BY <1>7, <2>1 DEF DieScraping, Source
  <1>8. CASE StartIngest
    <2>1. replace' \in BOOLEAN /\ dropped' \in BOOLEAN /\ rebuilt' \in BOOLEAN
      BY <1>8 DEF StartIngest
    <2>2. ipc' \in {"off", "reset", "list", "read", "upsert"}
      BY <1>8 DEF StartIngest
    <2> QED BY <1>8, <2>1, <2>2 DEF StartIngest, Source
  <1>9. CASE Reset
    <2>1. dropped' \in BOOLEAN
      BY <1>9 DEF Reset
    <2> QED BY <1>9, <2>1 DEF Reset, Source, Nothing
  <1>10. CASE ListFiles
    BY <1>10 DEF ListFiles, Source, Present
  <1>11. CASE Read
    <2>1. texts' \in [Names -> Versions \cup {None}]
      BY <1>11 DEF Read
    <2> QED BY <1>11, <2>1 DEF Read, Source
  <1>12. CASE Upsert
    BY <1>12 DEF Upsert, Source
  <1>13. CASE DieIngesting
    BY <1>13 DEF DieIngesting, Source
  <1>14. CASE UNCHANGED vars
    BY <1>14 DEF vars, Source
  <1> QED
    BY <1>1, <1>2, <1>3, <1>4, <1>5, <1>6, <1>7, <1>8, <1>9, <1>10, <1>11, <1>12, <1>13, <1>14
    DEF Next, Scraping

(* Every variable of the crawler and of the ingestion keeps its type: no   *)
(* source takes more than max_pages pages, and once it has one it does not *)
(* queue what it has seen.                                                 *)
THEOREM KnowledgeTypeCorrect == Spec => []TypeOK
  <1>1. Init => Typed
    BY TypedInit
  <1>2. Typed /\ [Next]_vars => Typed'
    BY TypedStep
  <1>3. Typed => TypeOK
    BY DEF Typed
  <1> QED BY <1>1, <1>2, <1>3, PTL DEF Spec

-----------------------------------------------------------------------------
(* The crawl stays within its prefixes.                                    *)
Allowed == UNION {{Sources[i].seed} \cup Sources[i].within : i \in 1 .. Len(Sources)}

Within == seen \subseteq Allowed

LEMMA AllowedIs == ASSUME src \in 1 .. Len(Sources), queue \subseteq {Source.seed} \cup Source.within
                   PROVE  queue \subseteq Allowed
  BY DEF Source, Allowed

LEMMA WithinStep == Typed /\ Within /\ [Next]_vars => Within'
  <1> SUFFICES ASSUME Typed, Within, [Next]_vars PROVE Within'
    OBVIOUS
  <1>1. CASE UNCHANGED seen
    BY <1>1 DEF Within, Allowed
  <1>2. CASE StartScrape
    BY <1>2 DEF StartScrape, Within
  <1>3. CASE Fetch
    <2>1. src \in 1 .. Len(Sources)
      BY <1>3, SourceAt DEF Fetch, Typed, TypeOK, ScrapeTypeOK
    <2>2. queue \subseteq Allowed
      BY <2>1, AllowedIs DEF Typed, QueueStartsAtSeed
    <2>3. PICK u \in queue : seen' = seen \cup {u}
      BY <1>3 DEF Fetch, PassOver, WriteFile, Skip
    <2> QED BY <2>2, <2>3 DEF Within, Allowed
  <1> QED
    BY <1>1, <1>2, <1>3 DEF Next, vars, Edit, Scraping, NextSource, Report, PruneFile, DieScraping,
       StartIngest, Reset, ListFiles, Read, Upsert, DieIngesting, site, scraper, scrapeVars

(* For every site and whatever fails: a crawl looks at no url outside the  *)
(* prefixes of its sources.                                                *)
THEOREM CrawlStaysWithin == Spec => []StaysWithinPrefix
  <1>1. Init => Typed /\ Within
    BY TypedInit DEF Init, ScrapeInit, Within
  <1>2. Typed /\ Within /\ [Next]_vars => Typed' /\ Within'
    BY TypedStep, WithinStep
  <1>3. Within => StaysWithinPrefix
    <2>1. DOMAIN Sources = 1 .. Len(Sources)
      BY ScrapeAssumption DEF ScrapeAssumption
    <2> QED BY <2>1 DEF Within, Allowed, StaysWithinPrefix, Area
  <1> QED BY <1>1, <1>2, <1>3, PTL DEF Spec

-----------------------------------------------------------------------------
(* What a crawl finds: Reachable(s) holds the seed, follows the links, and *)
(* is in every set that does.                                              *)
Served == {u \in Urls : page[u] # None}

LEMMA ReachableFollows ==
  ASSUME NEW s, s.seed \in Urls, s.within \subseteq Urls PROVE FollowsLinks(s, Reachable(s))
  BY DEF FollowsLinks, Reachable

LEMMA ReachableIsLeast ==
  ASSUME NEW s, NEW found \in SUBSET Urls, FollowsLinks(s, found)
  PROVE  Reachable(s) \subseteq found
  BY DEF Reachable

(* While the site stays as it is, so does what can be reached.             *)
LEMMA ReachableStays ==
  ASSUME page' = page PROVE \A i \in 1 .. Len(Sources) : Reachable(Sources[i])' = Reachable(Sources[i])
  BY DEF Reachable, FollowsLinks

-----------------------------------------------------------------------------
(* How far a clean crawl has come: the links of what it has taken were     *)
(* taken, or wait in the queue of the source at hand.                      *)
Waiting(i) == IF i = src THEN queue ELSE {}

FilesAreOfPages ==
  /\ \A n \in Names : produced[n] # None => \E u \in seen \cap Served : NameOf[u] = n
  /\ \A u \in seen \cap Served : produced[NameOf[u]] # None

TakenIsReachable ==
  \A u \in seen : \E i \in 1 .. Len(Sources) :
    i <= src /\ u \in Area(Sources[i]) /\ (u \in Served => u \in Reachable(Sources[i]))

QueuedIsReachable ==
  src <= Len(Sources) => queue \cap Served \subseteq Reachable(Sources[src])

SeedsAreTaken ==
  \A i \in 1 .. Len(Sources) : i <= src => Sources[i].seed \in seen \cup Waiting(i)

LinksAreTaken ==
  \A i \in 1 .. Len(Sources) : i <= src /\ Sources[i].crawl =>
    \A u \in seen \cap Served \cap Area(Sources[i]) :
      Links[u] \cap Sources[i].within \subseteq seen \cup Waiting(i)

CrawlSoFar ==
  FilesAreOfPages /\ TakenIsReachable /\ QueuedIsReachable /\ SeedsAreTaken /\ LinksAreTaken

CleanSoFar == spc \in {"crawl", "report"} /\ clean /\ SourcesAreApart

Exact ==
  /\ CleanSoFar => CrawlSoFar
  /\ spc = "report" => src > Len(Sources)

(* Different sources share neither a url nor a file.                       *)
LEMMA AreasAreApart ==
  ASSUME SourcesAreApart, NEW i \in 1 .. Len(Sources), NEW j \in 1 .. Len(Sources),
         NEW u \in Area(Sources[i]), NEW v \in Area(Sources[j]), NameOf[u] = NameOf[v]
  PROVE  i = j
  <1>1. DOMAIN Sources = 1 .. Len(Sources)
    BY ScrapeAssumption DEF ScrapeAssumption
  <1> QED BY <1>1 DEF SourcesAreApart

LEMMA StartIsExact == Typed /\ StartScrape => Exact'
  <1> SUFFICES ASSUME Typed, StartScrape PROVE Exact'
    OBVIOUS
  <1>1. /\ seen' = {} /\ src' = 1 /\ queue' = {Sources[1].seed} /\ page' = page
        /\ produced' = [n \in Names |-> None] /\ spc' = "crawl"
    BY DEF StartScrape, site
  <1>2. FollowsLinks(Sources[1], Reachable(Sources[1]))
    BY SourceAt, ReachableFollows
  <1>3. QueuedIsReachable'
    BY <1>1, <1>2, SourceAt, ReachableStays DEF QueuedIsReachable, FollowsLinks, Served
  <1>4. FilesAreOfPages' /\ TakenIsReachable'
    BY <1>1 DEF FilesAreOfPages, TakenIsReachable
  <1>5. SeedsAreTaken' /\ LinksAreTaken'
    BY <1>1, SourceAt DEF SeedsAreTaken, LinksAreTaken, Waiting
  <1> QED BY <1>1, <1>3, <1>4, <1>5 DEF Exact, CrawlSoFar

(* A page is fetched, or passed over because of one with the same file,    *)
(* whose links are its own.                                                *)
LEMMA FetchIsExact == Typed /\ Exact /\ Fetch /\ CleanSoFar' => CrawlSoFar'
  <1> SUFFICES ASSUME Typed, Exact, Fetch, CleanSoFar' PROVE CrawlSoFar'
    OBVIOUS
  <1>1. PICK u \in queue : PassOver(u) \/ WriteFile(u) \/ Skip(u)
    BY DEF Fetch
  <1>2. /\ src \in 1 .. Len(Sources) /\ spc = "crawl"
        /\ src' = src /\ page' = page /\ spc' = spc
    BY SourceAt DEF Fetch, site, Typed, TypeOK, ScrapeTypeOK
  <1>3. clean /\ SourcesAreApart
    BY <1>1 DEF CleanSoFar, PassOver, WriteFile, Skip, SourcesAreApart, Area
  <1>4. CrawlSoFar
    BY <1>2, <1>3 DEF Exact, CleanSoFar
  <1>5. /\ u \in Urls /\ NameOf[u] \in Names /\ u \in Area(Source) /\ Source.within \subseteq Urls
        /\ produced \in [Names -> Versions \cup {None}] /\ seen \subseteq Urls /\ queue \subseteq Urls
    BY <1>2, SourceAt, ConstantTypes DEF Typed, TypeOK, ScrapeTypeOK, QueueStartsAtSeed, Area, Source
  <1>6. /\ seen' = seen \cup {u} /\ Served' = Served /\ Source = Sources[src] /\ Source' = Source
        /\ queue \ {u} \subseteq queue'
    BY <1>1, <1>2 DEF PassOver, WriteFile, Skip, Served, Source
  <1>7. \A i \in 1 .. Len(Sources) : i <= src => seen \cup Waiting(i) \subseteq (seen \cup Waiting(i))'
    BY <1>2, <1>6 DEF Waiting
  <1>8. (u \in Served => u \in Reachable(Source))
    BY <1>1, <1>2, <1>4 DEF CrawlSoFar, QueuedIsReachable, Source
  <1>9. TakenIsReachable'
    <2>1. ASSUME NEW w \in seen'
          PROVE  \E i \in 1 .. Len(Sources) :
                   i <= src /\ w \in Area(Sources[i]) /\ (w \in Served => w \in Reachable(Sources[i]))
      <3>1. CASE w \in seen
        BY <3>1, <1>4 DEF CrawlSoFar, TakenIsReachable
      <3>2. CASE w = u
        BY <3>2, <1>2, <1>5, <1>6, <1>8
      <3> QED BY <3>1, <3>2, <1>6, <2>1
    <2>2. \A i \in 1 .. Len(Sources) : Area(Sources[i])' = Area(Sources[i])
      BY DEF Area
    <2> QED BY <2>1, <2>2, <1>2, <1>6, ReachableStays DEF TakenIsReachable
  <1>10. SeedsAreTaken'
    BY <1>2, <1>4, <1>7 DEF CrawlSoFar, SeedsAreTaken
  (* The links of the page at hand, when it is served and links count.     *)
  <1>11. ASSUME u \in Served, Source.crawl
         PROVE  Links[u] \cap Source.within \subseteq seen' \cup queue'
    <2>1. CASE u \in seen
      BY <2>1, <1>2, <1>4, <1>5, <1>6, <1>11 DEF CrawlSoFar, LinksAreTaken, Waiting
    <2>2. CASE u \notin seen /\ produced[NameOf[u]] # None
      <3>1. PICK w \in seen \cap Served : NameOf[w] = NameOf[u]
        BY <2>2, <1>4, <1>5 DEF CrawlSoFar, FilesAreOfPages
      <3>2. PICK i \in 1 .. Len(Sources) : i <= src /\ w \in Area(Sources[i])
        BY <3>1, <1>4 DEF CrawlSoFar, TakenIsReachable
      <3>3. i = src
        BY <3>1, <3>2, <1>2, <1>3, <1>5, <1>6, AreasAreApart
      <3>4. Links[u] = Links[w]
        BY <3>1, <1>3, <1>5 DEF SourcesAreApart
      <3> QED BY <3>1, <3>2, <3>3, <3>4, <1>2, <1>4, <1>6, <1>11 DEF CrawlSoFar, LinksAreTaken, Waiting
    <2>3. CASE WriteFile(u)
      BY <2>3, <1>5, <1>6, <1>11 DEF WriteFile, NewLinks
    <2>4. CASE Skip(u)
      BY <2>4, <1>11, <1>3 DEF Skip, CleanSoFar, Served
    <2> QED BY <1>1, <2>1, <2>2, <2>3, <2>4 DEF PassOver
  <1>12. LinksAreTaken'
    <2> SUFFICES ASSUME NEW i \in 1 .. Len(Sources), i <= src, Sources[i].crawl,
                        NEW w \in seen' \cap Served \cap Area(Sources[i])
                 PROVE  Links[w] \cap Sources[i].within \subseteq (seen \cup Waiting(i))'
      BY <1>2, <1>6 DEF LinksAreTaken, Area
    <2>1. CASE w \in seen
      BY <2>1, <1>4, <1>7 DEF CrawlSoFar, LinksAreTaken
    <2>2. CASE w = u
      <3>1. i = src
        BY <2>2, <1>2, <1>3, <1>5, <1>6, AreasAreApart
      <3> QED BY <2>2, <3>1, <1>2, <1>6, <1>11 DEF Waiting
    <2> QED BY <2>1, <2>2, <1>6
  <1>13. QueuedIsReachable'
    <2>1. FollowsLinks(Source, Reachable(Source))
      BY <1>2, SourceAt, ReachableFollows DEF Source
    <2>2. queue \cap Served \subseteq Reachable(Source)
      BY <1>2, <1>4, <1>6 DEF CrawlSoFar, QueuedIsReachable
    <2>3. queue' \cap Served \subseteq Reachable(Source)
      <3>1. CASE WriteFile(u)
        <4>1. u \in Served
          BY <3>1, <1>5 DEF WriteFile, Served
        <4>2. NewLinks(u) \cap Served \subseteq Reachable(Source)
          BY <4>1, <2>1, <1>8 DEF NewLinks, FollowsLinks, Served
        <4> QED BY <3>1, <4>2, <2>2 DEF WriteFile
      <3>2. CASE PassOver(u) \/ Skip(u)
        BY <3>2, <2>2 DEF PassOver, Skip
      <3> QED BY <1>1, <3>1, <3>2
    <2> QED BY <2>3, <1>2, <1>6, ReachableStays DEF QueuedIsReachable
  <1>14. FilesAreOfPages'
    <2>1. CASE PassOver(u)
      (* A page that was passed over has its file from another.            *)
      <3>1. produced' = produced
        BY <2>1 DEF PassOver
      <3>2. u \in Served => produced[NameOf[u]] # None
        BY <2>1, <1>4 DEF PassOver, CrawlSoFar, FilesAreOfPages
      <3> QED BY <3>1, <3>2, <1>4, <1>6 DEF CrawlSoFar, FilesAreOfPages
    <2>2. CASE WriteFile(u)
      <3>1. /\ produced' = [produced EXCEPT ![NameOf[u]] = page[u]] /\ page[u] # None
            /\ u \in Served
        BY <2>2, <1>5 DEF WriteFile, Served
      <3>2. \A n \in Names : produced'[n] = IF n = NameOf[u] THEN page[u] ELSE produced[n]
        BY <3>1, <1>5
      <3>3. \A w \in Urls : NameOf[w] \in Names
        BY ConstantTypes
      <3> QED BY <3>1, <3>2, <3>3, <1>4, <1>5, <1>6 DEF CrawlSoFar, FilesAreOfPages
    <2>3. CASE Skip(u)
      <3>1. u \notin Served /\ produced' = produced
        BY <2>3, <1>3 DEF Skip, CleanSoFar, Served
      <3> QED BY <3>1, <1>4, <1>6 DEF CrawlSoFar, FilesAreOfPages
    <2> QED BY <1>1, <2>1, <2>2, <2>3
  <1> QED BY <1>9, <1>10, <1>12, <1>13, <1>14 DEF CrawlSoFar

(* The next source has its own files, so nothing of it was taken.          *)
LEMMA NextSourceIsExact == Typed /\ Exact /\ NextSource => Exact'
  <1> SUFFICES ASSUME Typed, Exact, NextSource PROVE Exact'
    OBVIOUS
  <1>1. /\ src \in 1 .. Len(Sources) /\ spc = "crawl" /\ src' = src + 1
        /\ UNCHANGED <<page, seen, produced>>
        /\ spc' = "report" => src' > Len(Sources)
        /\ queue' = IF src < Len(Sources) THEN {Sources[src + 1].seed} ELSE {}
    BY SourceAt DEF NextSource, site, Typed, TypeOK, ScrapeTypeOK
  <1> SUFFICES ASSUME CleanSoFar' PROVE CrawlSoFar'
    BY <1>1 DEF Exact
  <1>2. queue = {} /\ clean /\ SourcesAreApart
    BY DEF NextSource, CleanSoFar, SourcesAreApart, Area
  <1>3. CrawlSoFar /\ Served' = Served
    BY <1>1, <1>2 DEF Exact, CleanSoFar, Served
  <1>4. \A i \in 1 .. Len(Sources) : Area(Sources[i])' = Area(Sources[i])
    BY DEF Area
  <1>5. FilesAreOfPages'
    BY <1>1, <1>3 DEF CrawlSoFar, FilesAreOfPages
  <1>6. TakenIsReachable'
    BY <1>1, <1>3, <1>4, ReachableStays DEF CrawlSoFar, TakenIsReachable
  <1>7. QueuedIsReachable'
    <2>1. ASSUME src' <= Len(Sources) PROVE src' \in 1 .. Len(Sources) /\ queue' = {Sources[src'].seed}
      BY <1>1, <2>1, SourceAt
    <2>2. \A i \in 1 .. Len(Sources) : FollowsLinks(Sources[i], Reachable(Sources[i]))
      BY SourceAt, ReachableFollows
    <2> QED BY <1>1, <1>3, <2>1, <2>2, ReachableStays DEF QueuedIsReachable, FollowsLinks, Served
  <1>8. \A i \in 1 .. Len(Sources) : i <= src => seen \cup Waiting(i) \subseteq (seen \cup Waiting(i))'
    BY <1>1, <1>2 DEF Waiting
  <1>9. \A i \in 1 .. Len(Sources) : i <= src' => i <= src \/ i = src'
    BY <1>1, SourceAt
  <1>10. SeedsAreTaken'
    BY <1>1, <1>3, <1>8, <1>9, SourceAt DEF CrawlSoFar, SeedsAreTaken, Waiting
  <1>11. LinksAreTaken'
    <2> SUFFICES ASSUME NEW i \in 1 .. Len(Sources), i <= src', Sources[i].crawl,
                        NEW u \in seen \cap Served \cap Area(Sources[i])
                 PROVE  Links[u] \cap Sources[i].within \subseteq (seen \cup Waiting(i))'
      BY <1>1, <1>3 DEF LinksAreTaken, Area
    <2>1. PICK j \in 1 .. Len(Sources) : j <= src /\ u \in Area(Sources[j])
      BY <1>3 DEF CrawlSoFar, TakenIsReachable
    <2>2. i <= src
      BY <2>1, <1>2, AreasAreApart
    <2> QED BY <2>2, <1>3, <1>8 DEF CrawlSoFar, LinksAreTaken
  <1> QED BY <1>5, <1>6, <1>7, <1>10, <1>11 DEF CrawlSoFar

LEMMA ExactStep == Typed /\ Exact /\ [Next]_vars => Exact'
  <1> SUFFICES ASSUME Typed, Exact, [Next]_vars PROVE Exact'
    OBVIOUS
  <1>1. CASE UNCHANGED <<page, spc, produced, seen, src, queue, clean>>
    <2>1. Served' = Served /\ CleanSoFar' = CleanSoFar
      BY <1>1 DEF Served, CleanSoFar, SourcesAreApart, Area
    <2>2. \A i \in 1 .. Len(Sources) : Waiting(i)' = Waiting(i) /\ Area(Sources[i])' = Area(Sources[i])
      BY <1>1 DEF Waiting, Area
    <2>3. FilesAreOfPages' = FilesAreOfPages
      BY <1>1, <2>1 DEF FilesAreOfPages
    <2>4. TakenIsReachable => TakenIsReachable'
      BY <1>1, <2>1, <2>2, ReachableStays DEF TakenIsReachable
    <2>5. QueuedIsReachable => QueuedIsReachable'
      BY <1>1, <2>1, ReachableStays DEF QueuedIsReachable, Typed, TypeOK, ScrapeTypeOK
    <2>6. SeedsAreTaken => SeedsAreTaken'
      BY <1>1, <2>2 DEF SeedsAreTaken
    <2>7. LinksAreTaken => LinksAreTaken'
      BY <1>1, <2>1, <2>2 DEF LinksAreTaken
    <2> QED BY <1>1, <2>1, <2>3, <2>4, <2>5, <2>6, <2>7 DEF Exact, CrawlSoFar
  <1>2. ASSUME NEW u \in Urls, Edit(u) PROVE Exact'
    BY <1>2 DEF Edit, Exact, CleanSoFar
  <1>3. CASE StartScrape
    BY <1>3, StartIsExact
  <1>4. CASE Fetch
    BY <1>4, FetchIsExact DEF Exact, Fetch
  <1>5. CASE NextSource
    BY <1>5, NextSourceIsExact
  <1>6. CASE Report \/ PruneFile \/ DieScraping
    BY <1>6 DEF Report, PruneFile, DieScraping, Exact, CleanSoFar
  <1> QED
    BY <1>1, <1>2, <1>3, <1>4, <1>5, <1>6 DEF Next, Scraping, vars, StartIngest, Reset, ListFiles,
       Read, Upsert, DieIngesting, site, scraper, scrapeVars

(* For every site, every links between its pages, cycles included, and     *)
(* every list of sources that share no file: a crawl that was not cut      *)
(* short writes the files of the pages its seeds lead to, all of them and  *)
(* no other.                                                               *)
THEOREM CleanCrawlsAreExact == Spec => []CleanCrawlIsExact
  <1>1. Init => Typed /\ Exact
    BY TypedInit DEF Init, ScrapeInit, Exact, CleanSoFar
  <1>2. Typed /\ Exact /\ [Next]_vars => Typed' /\ Exact'
    BY TypedStep, ExactStep
  <1>3. Typed /\ Exact => CleanCrawlIsExact
    <2> SUFFICES ASSUME Typed, Exact, spc = "report", clean, SourcesAreApart
                 PROVE  Present(produced) = {NameOf[u] : u \in OnSite}
      BY DEF CleanCrawlIsExact
    <2>1. CrawlSoFar /\ DOMAIN Sources = 1 .. Len(Sources)
      BY ScrapeAssumption DEF Exact, CleanSoFar, ScrapeAssumption
    <2>2. \A i \in 1 .. Len(Sources) : i <= src /\ Waiting(i) = {}
      BY SourceAt DEF Exact, Waiting, Typed, TypeOK, ScrapeTypeOK
    <2>3. ASSUME NEW n \in Present(produced) PROVE \E u \in OnSite : n = NameOf[u]
      <3>1. PICK u \in seen \cap Served : NameOf[u] = n
        BY <2>1, <2>3 DEF Present, CrawlSoFar, FilesAreOfPages
      <3>2. PICK i \in 1 .. Len(Sources) : u \in Reachable(Sources[i])
        BY <3>1, <2>1 DEF CrawlSoFar, TakenIsReachable
      <3> QED BY <3>1, <3>2, <2>1 DEF OnSite
    <2>4. ASSUME NEW u \in OnSite PROVE NameOf[u] \in Present(produced)
      <3>1. PICK i \in 1 .. Len(Sources) : u \in Reachable(Sources[i])
        BY <2>1, <2>4 DEF OnSite
      <3> DEFINE found == seen \cap Served \cap Area(Sources[i])
      <3>2. FollowsLinks(Sources[i], found)
        <4>1. Sources[i].seed \in seen
          BY <2>1, <2>2 DEF CrawlSoFar, SeedsAreTaken
        <4>2. page[Sources[i].seed] # None => Sources[i].seed \in found
          BY <4>1, SourceAt DEF Served, Area
        <4>3. ASSUME Sources[i].crawl, NEW w \in found, NEW v \in Links[w] \cap Sources[i].within,
                     page[v] # None
              PROVE  v \in found
          <5>1. v \in seen
            BY <4>3, <2>1, <2>2 DEF CrawlSoFar, LinksAreTaken
          <5> QED BY <4>3, <5>1, SourceAt DEF Served, Area
        <4> QED BY <4>2, <4>3 DEF FollowsLinks
      <3>3. found \in SUBSET Urls
        BY DEF Served
      <3>4. u \in seen \cap Served
        BY <3>1, <3>2, <3>3, ReachableIsLeast
      <3> QED BY <3>4, <2>1, ConstantTypes DEF CrawlSoFar, FilesAreOfPages, Present, Served
    <2> QED BY <2>3, <2>4
  <1> QED BY <1>1, <1>2, <1>3, PTL DEF Spec

-----------------------------------------------------------------------------
(* While a run is under way, what it wrote is what the files say, and a    *)
(* file it did not write was there before and is still to be pruned.       *)
Accounted ==
  /\ spc \notin {"off", "died"} => \A n \in Names :
       /\ produced[n] # None => files[n] = produced[n]
       /\ produced[n] = None /\ files[n] # None => n \in existing
  /\ MirrorsCrawl

LEMMA AccountedStep == Typed /\ Accounted /\ [Next]_vars => Accounted'
  <1> SUFFICES ASSUME Typed, Accounted, [Next]_vars PROVE Accounted'
    OBVIOUS
  <1>0. /\ files \in [Names -> Versions \cup {None}] /\ produced \in [Names -> Versions \cup {None}]
        /\ NameOf \in [Urls -> Names] /\ None \notin Versions /\ queue \subseteq Urls
    BY ConstantTypes DEF Typed, TypeOK, ScrapeTypeOK
  <1>1. CASE UNCHANGED <<files, produced, existing, spc, prune, clean>>
    BY <1>1 DEF Accounted, MirrorsCrawl
  <1>2. ASSUME NEW u \in Urls, Edit(u) PROVE Accounted'
    BY <1>2 DEF Edit, Accounted, MirrorsCrawl
  <1>3. CASE StartScrape
    BY <1>3 DEF StartScrape, Accounted, MirrorsCrawl, Present
  <1>4. CASE Fetch
    <2>1. PICK u \in queue : PassOver(u) \/ WriteFile(u) \/ Skip(u)
      BY <1>4 DEF Fetch
    <2>2. spc = "crawl" /\ UNCHANGED <<spc, prune, existing>>
      BY <1>4 DEF Fetch
    <2>3. CASE UNCHANGED <<files, produced>>
      BY <2>2, <2>3 DEF Accounted, MirrorsCrawl
    <2>4. CASE WriteFile(u)
      <3>1. /\ files' = [files EXCEPT ![NameOf[u]] = page[u]]
            /\ produced' = [produced EXCEPT ![NameOf[u]] = page[u]]
            /\ page[u] # None
        BY <2>4 DEF WriteFile
      <3> QED BY <1>0, <2>2, <3>1 DEF Accounted, MirrorsCrawl
    <2> QED BY <2>1, <2>3, <2>4 DEF PassOver, Skip
  <1>5. CASE NextSource
    BY <1>5 DEF NextSource, Accounted, MirrorsCrawl
  <1>6. CASE Report
    <2>1. UNCHANGED <<files, prune, existing, produced, clean>> /\ spc = "report"
      BY <1>6 DEF Report
    <2>2. CASE prune /\ Orphans # {}
      BY <1>6, <2>1, <2>2 DEF Report, Accounted, MirrorsCrawl
    <2>3. CASE prune /\ Orphans = {}
      <3>1. \A n \in Names : n \in existing => produced[n] # None
        BY <2>3 DEF Orphans, Present
      <3>2. \A n \in Names : files[n] = produced[n]
        BY <2>1, <3>1 DEF Accounted
      <3>3. files = produced
        BY <1>0, <3>2
      <3> QED BY <1>6, <2>1, <2>3, <3>3 DEF Report, Accounted, MirrorsCrawl
    <2>4. CASE ~prune
      BY <1>6, <2>1, <2>4 DEF Report, Accounted, MirrorsCrawl
    <2> QED BY <2>2, <2>3, <2>4
  <1>7. CASE PruneFile
    <2>1. PICK n \in Orphans :
            /\ files' = [files EXCEPT ![n] = None] /\ existing' = existing \ {n}
            /\ spc' = IF Orphans = {n} THEN "off" ELSE "prune"
      BY <1>7 DEF PruneFile
    <2>2. spc = "prune" /\ UNCHANGED <<prune, produced, clean>>
      BY <1>7 DEF PruneFile
    <2>3. n \in Names /\ n \in existing /\ produced[n] = None
      BY <2>1, <1>0 DEF Orphans, Present, Typed, TypeOK, ScrapeTypeOK
    <2>4. \A k \in Names : /\ produced'[k] # None => files'[k] = produced'[k]
                           /\ produced'[k] = None /\ files'[k] # None => k \in existing'
      BY <1>0, <2>1, <2>2, <2>3 DEF Accounted
    <2>5. spc' = "off" => files' = produced'
      <3> SUFFICES ASSUME spc' = "off" PROVE files' = produced'
        OBVIOUS
      <3>1. \A k \in existing' : k \in Names => produced'[k] # None
        BY <2>1, <2>2 DEF Orphans, Present
      <3>2. \A k \in Names : files'[k] = produced'[k]
        BY <2>4, <3>1
      <3> QED BY <1>0, <2>1, <2>2, <3>2
    <2> QED BY <2>1, <2>4, <2>5 DEF Accounted, MirrorsCrawl
  <1>8. CASE DieScraping
    BY <1>8 DEF DieScraping, Accounted, MirrorsCrawl
  <1> QED
    BY <1>1, <1>2, <1>3, <1>4, <1>5, <1>6, <1>7, <1>8 DEF Next, Scraping, vars,
       StartIngest, Reset, ListFiles, Read, Upsert, DieIngesting, scraper, scrapeVars

(* Whatever was in kb_path before, and whatever earlier runs left there: a *)
(* run with --prune that gets to its end leaves what it wrote, no more,    *)
(* also when fetches failed, a source hit max_pages or the site changed.   *)
THEOREM PruneMirrorsCrawl == Spec => []MirrorsCrawl
  <1>1. Init => Typed /\ Accounted
    BY TypedInit DEF Init, ScrapeInit, Accounted, MirrorsCrawl
  <1>2. Typed /\ Accounted /\ [Next]_vars => Typed' /\ Accounted'
    BY TypedStep, AccountedStep
  <1>3. Accounted => MirrorsCrawl
    BY DEF Accounted
  <1> QED BY <1>1, <1>2, <1>3, PTL DEF Spec

-----------------------------------------------------------------------------
(* A collection that was dropped stays empty until its run has loaded the  *)
(* files, and only a finished run counts as a rebuild.                     *)
Rebuilding ==
  /\ dropped /\ ipc \in {"list", "read", "upsert"} => vectors = Nothing
  /\ rebuilt => ipc = "off"
  /\ ipc = "reset" => ~dropped
  /\ PagesAreWhole /\ RebuildIsExact

LEMMA RebuildingStep == Typed /\ Rebuilding /\ [Next]_vars => Rebuilding'
  <1> SUFFICES ASSUME Typed, Rebuilding, [Next]_vars PROVE Rebuilding'
    OBVIOUS
  <1> USE DEF Rebuilding, PagesAreWhole, RebuildIsExact
  <1>1. CASE UNCHANGED ingester
    BY <1>1 DEF ingester, Nothing, ChunksOf
  <1>2. CASE StartIngest
    BY <1>2 DEF StartIngest, Nothing, ChunksOf
  <1>3. CASE Reset
    BY <1>3 DEF Reset, Nothing, ChunksOf
  <1>4. CASE ListFiles \/ Read
    BY <1>4 DEF ListFiles, Read, Nothing, ChunksOf
  <1>5. CASE Upsert
    <2>1. vectors' = [n \in Names |-> [i \in Chunks |->
            IF texts[n] # None /\ i <= SizeOf[texts[n]] THEN texts[n] ELSE vectors[n][i]]]
      BY <1>5 DEF Upsert
    <2>2. ASSUME NEW n \in Names, vectors[n] = Nothing[n] PROVE vectors'[n] = ChunksOf(texts[n])
      BY <2>1, <2>2 DEF Nothing, ChunksOf
    <2>3. texts \in [Names -> Versions \cup {None}] /\ ChunksOf(None) = [i \in Chunks |-> None]
      BY DEF Typed, TypeOK, ChunksOf
    <2>4. PagesAreWhole'
      <3> SUFFICES ASSUME NEW n \in Names \ patched'
                   PROVE  vectors'[n] = Nothing[n] \/ \E v \in Versions : vectors'[n] = ChunksOf(v)
        BY DEF Nothing, ChunksOf
      <3>1. vectors[n] = Nothing[n]
        BY <1>5 DEF Upsert
      <3>2. vectors'[n] = ChunksOf(texts[n])
        BY <2>2, <3>1
      <3> QED BY <2>3, <3>2 DEF Nothing
    <2>5. ASSUME dropped PROVE vectors' = [n \in Names |-> ChunksOf(texts[n])]
      <3>1. \A n \in Names : vectors'[n] = ChunksOf(texts[n])
        BY <1>5, <2>2, <2>5 DEF Upsert
      <3>2. vectors' = [n \in Names |-> vectors'[n]]
        BY <2>1
      <3> QED BY <3>1, <3>2
    <2>6. /\ ipc' = "off" /\ rebuilt' = dropped /\ texts' = texts
      BY <1>5 DEF Upsert
    <2>7. RebuildIsExact'
      BY <2>5, <2>6 DEF ChunksOf
    <2> QED BY <2>4, <2>6, <2>7
  <1>6. CASE DieIngesting
    BY <1>6 DEF DieIngesting, Nothing, ChunksOf
  <1> QED
    BY <1>1, <1>2, <1>3, <1>4, <1>5, <1>6 DEF Next, vars

LEMMA RebuildingInit == Init => Rebuilding
  BY DEF Init, Rebuilding, PagesAreWhole, RebuildIsExact

(* For any files and any number of runs that die: a page is in the         *)
(* collection as a whole or not at all, unless it was loaded over an older *)
(* version.                                                                *)
THEOREM PagesStayWhole == Spec => []PagesAreWhole
  <1>1. Init => Typed /\ Rebuilding
    BY TypedInit, RebuildingInit
  <1>2. Typed /\ Rebuilding /\ [Next]_vars => Typed' /\ Rebuilding'
    BY TypedStep, RebuildingStep
  <1>3. Rebuilding => PagesAreWhole
    BY DEF Rebuilding
  <1> QED BY <1>1, <1>2, <1>3, PTL DEF Spec

(* A rebuild whose reset worked leaves the chunks of the files it read     *)
(* and nothing of what the collection held before.                         *)
THEOREM RebuildsAreExact == Spec => []RebuildIsExact
  <1>1. Init => Typed /\ Rebuilding
    BY TypedInit, RebuildingInit
  <1>2. Typed /\ Rebuilding /\ [Next]_vars => Typed' /\ Rebuilding'
    BY TypedStep, RebuildingStep
  <1>3. Rebuilding => RebuildIsExact
    BY DEF Rebuilding
  <1> QED BY <1>1, <1>2, <1>3, PTL DEF Spec
=============================================================================
