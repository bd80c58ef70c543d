-------------------------------- MODULE Scrape --------------------------------
(***************************************************************************)
(* scrape_site.py: one run fetches the pages of a brand's sources, follows *)
(* their links, writes a markdown file for each page, and with --prune     *)
(* deletes the files that were there before and were not written again.    *)
(*                                                                         *)
(* Urls are canonical.  What is on the site may change at any time, and    *)
(* the run may be killed, or stopped by an exception it does not expect.   *)
(* The order of the queue is left open: no property depends on it.         *)
(***************************************************************************)
EXTENDS Naturals, Sequences, FiniteSets

CONSTANTS
  Urls,        \* pages that _looks_like_page may be asked about
  Links,       \* Links[u]: the page-like urls the page at u links to
  Names,       \* file names
  NameOf,      \* NameOf[u]: _filename_for(u)
  Sources,     \* a sequence of [seed, crawl, max_pages, within]
  Versions,    \* what a page or a file may say
  Initially,   \* names of files that are there before the first run, by hand or not
  MaxEdits,    \* bound on changes of the site
  MaxScrapes,  \* bound on runs of scrape_site
  MaxFaults,   \* bound on fetches that fail and runs that die
  None

ASSUME ScrapeAssumption ==
  /\ Links \in [Urls -> SUBSET Urls]
  /\ NameOf \in [Urls -> Names] /\ Initially \subseteq Names
  /\ Sources \in Seq([seed : Urls, crawl : BOOLEAN, max_pages : Nat, within : SUBSET Urls])
  /\ Sources # <<>>
  /\ MaxEdits \in Nat /\ MaxScrapes \in Nat /\ MaxFaults \in Nat
  /\ None \notin Versions

VARIABLES
  page,      \* page[u]: what the site serves at u, None when it answers an error
  files,     \* files[n]: what the file n in kb_path says, None when there is none
  spc,       \* where the run of scrape_site is; "died" when it did not get to its end
  prune,     \* whether it has --prune
  existing,  \* the names of the files that were there when it began
  produced,  \* produced[n]: what it wrote to n, None when it did not
  seen,      \* urls it has taken from a queue
  src,       \* the source at hand
  queue,     \* the urls of that source still to be looked at
  count,     \* the pages of that source it has written
  clean,     \* history: no fetch failed, no source was cut short, no page changed
  edits, scrapes, faults

site    == <<page, edits>>
scraper == <<spc, prune, existing, produced, seen, src, queue, count, clean, scrapes>>
scrapeVars == <<site, files, scraper, faults>>

ScrapeTypeOK ==
  /\ page \in [Urls -> Versions \cup {None}]
  /\ files \in [Names -> Versions \cup {None}]
  /\ spc \in {"off", "crawl", "report", "prune", "died"}
  /\ prune \in BOOLEAN /\ clean \in BOOLEAN
  /\ existing \subseteq Names
  /\ produced \in [Names -> Versions \cup {None}]
  /\ seen \subseteq Urls /\ queue \subseteq Urls
  /\ src \in 1 .. Len(Sources) + 1 /\ count \in Nat
  /\ src <= Len(Sources) => /\ count <= Sources[src].max_pages
                             /\ count > 0 => queue \cap seen = {}
  /\ edits \in Nat /\ scrapes \in Nat /\ faults \in Nat

Present(f) == {n \in Names : f[n] # None}

ScrapeInit ==
  /\ \E v \in Versions :
       /\ page = [u \in Urls |-> v]
       /\ files = [n \in Names |-> IF n \in Initially THEN v ELSE None]
  /\ spc = "off" /\ prune = FALSE /\ clean = FALSE
  /\ existing = {} /\ produced = [n \in Names |-> None]
  /\ seen = {} /\ src = 1 /\ queue = {} /\ count = 0
  /\ edits = 0 /\ scrapes = 0 /\ faults = 0

-----------------------------------------------------------------------------
(* The site's owner changes a page, or takes it down.                      *)
Edit(u) ==
  /\ edits < MaxEdits /\ edits' = edits + 1
  /\ \E v \in Versions \cup {None} : page' = [page EXCEPT ![u] = v]
  /\ clean' = (clean /\ spc \notin {"crawl", "report"})
  /\ UNCHANGED <<files, spc, prune, existing, produced, seen, src, queue, count,
                 scrapes, faults>>

-----------------------------------------------------------------------------
Source == Sources[src]

StartScrape ==
  /\ spc \in {"off", "died"} /\ scrapes < MaxScrapes /\ scrapes' = scrapes + 1
  /\ prune' \in BOOLEAN
  /\ existing' = Present(files)
  /\ produced' = [n \in Names |-> None] /\ seen' = {}
  /\ src' = 1 /\ queue' = {Sources[1].seed} /\ count' = 0
  /\ spc' = "crawl" /\ clean' = TRUE
  /\ UNCHANGED <<site, files, faults>>

LinksAnywhere(u) ==
  IF Source.crawl THEN {v \in Links[u] : v \notin seen \cup {u}} ELSE {}

LinksAgain(u) == IF Source.crawl THEN Links[u] \cap Source.within ELSE {}

LinksOfTheSeed(u) ==
  IF u = Source.seed THEN LinksAnywhere(u) \cap Source.within ELSE {}

(* The links a fetched page adds to the queue.                             *)
NewLinks(u) ==
  IF Source.crawl
  THEN {v \in Links[u] \cap Source.within : v \notin seen \cup {u}} ELSE {}

(* A url that was looked at for another source, or whose file was written  *)
(* under another spelling, is passed over with its links.                  *)
PassOver(u) ==
  /\ u \in seen \/ produced[NameOf[u]] # None
  /\ seen' = seen \cup {u} /\ queue' = queue \ {u}
  /\ UNCHANGED <<files, produced, count, clean, faults>>

WriteFile(u) ==
  /\ u \notin seen /\ produced[NameOf[u]] = None /\ page[u] # None
  /\ files' = [files EXCEPT ![NameOf[u]] = page[u]]
  /\ produced' = [produced EXCEPT ![NameOf[u]] = page[u]]
  /\ count' = count + 1
  /\ seen' = seen \cup {u} /\ queue' = (queue \ {u}) \cup NewLinks(u)
  /\ UNCHANGED <<clean, faults>>

SkipRequeueing(u) ==
  /\ u \notin seen /\ produced[NameOf[u]] = None
  /\ page[u] = None
  /\ UNCHANGED <<seen, queue, files, produced, count, clean, faults>>

(* The fetch fails: the page is gone, or something else is wrong.          *)
Skip(u) ==
  /\ u \notin seen /\ produced[NameOf[u]] = None
  /\ \/ page[u] = None /\ UNCHANGED <<clean, faults>>
     \/ page[u] # None /\ clean' = FALSE /\ faults < MaxFaults /\ faults' = faults + 1
  /\ seen' = seen \cup {u} /\ queue' = queue \ {u}
  /\ UNCHANGED <<files, produced, count>>

Fetch ==
  /\ spc = "crawl" /\ src <= Len(Sources) /\ count < Source.max_pages
  /\ \E u \in queue : PassOver(u) \/ WriteFile(u) \/ Skip(u)
  /\ UNCHANGED <<site, spc, prune, existing, src, scrapes>>

(* The source is done: its queue is empty or it has max_pages pages.       *)
NextSource ==
  /\ spc = "crawl" /\ src <= Len(Sources)
  /\ queue = {} \/ count >= Source.max_pages
  /\ clean' = (clean /\ queue = {})
  /\ src' = src + 1
  /\ queue' = IF src < Len(Sources) THEN {Sources[src + 1].seed} ELSE {}
  /\ count' = 0
  /\ spc' = IF src < Len(Sources) THEN "crawl" ELSE "report"
  /\ UNCHANGED <<site, files, prune, existing, produced, seen, scrapes, faults>>

Orphans == existing \ Present(produced)

(* The summary, and whether there is anything to prune.                    *)
Report ==
  /\ spc = "report"
  /\ spc' = IF prune /\ Orphans # {} THEN "prune" ELSE "off"
  /\ UNCHANGED <<site, files, prune, existing, produced, seen, src, queue, count, clean,
                 scrapes, faults>>

PruneFirst ==
  /\ spc = "prune"
  /\ \E n \in Orphans : files' = [files EXCEPT ![n] = None] /\ existing' = existing \ {n}
  /\ spc' = "off"
  /\ UNCHANGED <<site, prune, produced, seen, src, queue, count, clean, scrapes, faults>>

PruneFile ==
  /\ spc = "prune"
  /\ \E n \in Orphans :
       /\ files' = [files EXCEPT ![n] = None]
       /\ existing' = existing \ {n}
       /\ spc' = IF Orphans = {n} THEN "off" ELSE "prune"
  /\ UNCHANGED <<site, prune, produced, seen, src, queue, count, clean, scrapes, faults>>

(* The run dies with some files written and some not.                      *)
DieScraping ==
  /\ spc \notin {"off", "died"} /\ faults < MaxFaults /\ faults' = faults + 1
  /\ spc' = "died" /\ clean' = FALSE
  /\ UNCHANGED <<site, files, prune, existing, produced, seen, src, queue, count, scrapes>>

Scraping == Fetch \/ NextSource \/ Report \/ PruneFile

-----------------------------------------------------------------------------
(* What a crawl should find: the pages that lead from a seed to one        *)
(* another without leaving its prefix, which is the least set that holds   *)
(* the seed and follows the links.                                         *)
FollowsLinks(s, found) ==
  /\ page[s.seed] # None => s.seed \in found
  /\ s.crawl => \A u \in found : \A v \in Links[u] \cap s.within : page[v] # None => v \in found

Reachable(s) == {u \in Urls : \A found \in SUBSET Urls : FollowsLinks(s, found) => u \in found}

OnSite == UNION {Reachable(Sources[i]) : i \in DOMAIN Sources}

Area(s) == {s.seed} \cup s.within

(* Sources whose pages have different files, and names that stand for one  *)
(* page.  A page whose file another source has written is passed over with *)
(* its links, so sources that share file names may miss pages.             *)
SourcesAreApart ==
  /\ \A i, j \in DOMAIN Sources : i # j =>
       \A u \in Area(Sources[i]), v \in Area(Sources[j]) : NameOf[u] # NameOf[v]
  /\ \A u, v \in Urls : NameOf[u] = NameOf[v] => Links[u] = Links[v]

(* A crawl without failures or limits writes exactly the files of the      *)
(* pages that can be reached, cycles and second spellings notwithstanding. *)
CleanCrawlIsExact ==
  spc = "report" /\ clean /\ SourcesAreApart
    => Present(produced) = {NameOf[u] : u \in OnSite}

(* No file is written for a page outside the prefix of every seed, even    *)
(* when fetches fail and pages come and go.                                *)
StaysWithinPrefix ==
  \A u \in seen : \E i \in DOMAIN Sources : u \in Area(Sources[i])

(* Once a run with --prune gets to its end, kb_path holds what that run    *)
(* wrote and nothing else, whatever was there before or was left there by  *)
(* earlier runs that died.  That includes runs whose fetches failed, whose *)
(* sources were cut at max_pages or whose pages changed on the way: pages  *)
(* they did not get, live ones too, are deleted.                           *)
MirrorsCrawl == spc = "off" /\ prune => files = produced

(* A run ends whatever the links are and however many fetches fail.        *)
ScrapeEnds == (spc = "crawl") ~> (spc # "crawl")
=============================================================================
