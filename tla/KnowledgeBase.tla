---------------------------- MODULE KnowledgeBase ----------------------------
(***************************************************************************)
(* ingest_kb.py and the Chroma collection of a brand, together with the    *)
(* scrape that writes the files: what ChromaKnowledge.retrieve may find at *)
(* any moment.  upsert replaces chunks by their number in their file and   *)
(* never deletes; --replace drops the collection first.                    *)
(***************************************************************************)
EXTENDS Scrape

CONSTANTS
  SizeOf,      \* SizeOf[v]: how many chunks a text of version v has
  MaxChunks,   \* bound on SizeOf
  MaxIngests   \* bound on runs of ingest_kb

ASSUME KnowledgeAssumption ==
  /\ MaxChunks \in Nat /\ MaxIngests \in Nat
  /\ SizeOf \in [Versions -> 0 .. MaxChunks]

Chunks == 1 .. MaxChunks

VARIABLES
  ipc,       \* where the run of ingest_kb is
  replace,   \* whether it has --replace
  unread,    \* the files it has listed and not read
  texts,     \* texts[n]: what it read from file n, None when it did not
  vectors,   \* vectors[n][i]: the version chunk i of file n is of, or None
  dropped,   \* whether reset has dropped the collection in this run
  rebuilt,   \* history: the last run dropped the collection and finished
  patched,   \* history: files with chunks that were loaded over others
  ingests

ingester == <<ipc, replace, unread, texts, vectors, dropped, rebuilt, patched, ingests>>
vars == <<scrapeVars, ingester>>

Nothing == [n \in Names |-> [i \in Chunks |-> None]]

TypeOK ==
  /\ ScrapeTypeOK
  /\ ipc \in {"off", "reset", "list", "read", "upsert"}
  /\ replace \in BOOLEAN /\ dropped \in BOOLEAN /\ rebuilt \in BOOLEAN
  /\ unread \subseteq Names /\ texts \in [Names -> Versions \cup {None}]
  /\ vectors \in [Names -> [Chunks -> Versions \cup {None}]]
  /\ patched \subseteq Names
  /\ ingests \in Nat

Init ==
  /\ ScrapeInit
  /\ ipc = "off" /\ replace = FALSE /\ dropped = FALSE /\ rebuilt = FALSE
  /\ unread = {} /\ texts = [n \in Names |-> None] /\ vectors = Nothing
  /\ patched = {} /\ ingests = 0

-----------------------------------------------------------------------------
(* _chunk of a text of version v, as rows of the collection.               *)
ChunksOf(v) == [i \in Chunks |-> IF v # None /\ i <= SizeOf[v] THEN v ELSE None]

StartIngest ==
  /\ ipc = "off" /\ ingests < MaxIngests /\ ingests' = ingests + 1
  /\ \E r \in BOOLEAN :
       replace' = r /\ ipc' = IF r THEN "reset" ELSE "list"
  /\ dropped' = FALSE /\ rebuilt' = FALSE
  /\ UNCHANGED <<scrapeVars, unread, texts, vectors, patched>>

ResetNothing ==
  /\ ipc = "reset"
  /\ dropped' = TRUE /\ patched' = {} /\ UNCHANGED <<vectors, faults>>
  /\ ipc' = "list"
  /\ UNCHANGED <<site, files, scraper, replace, unread, texts, rebuilt, ingests>>

(* ChromaKnowledge.reset swallows every exception of delete_collection.    *)
Reset ==
  /\ ipc = "reset"
  /\ \/ vectors' = Nothing /\ patched' = {} /\ dropped' = TRUE /\ UNCHANGED faults
     \/ faults < MaxFaults /\ faults' = faults + 1 /\ UNCHANGED <<vectors, patched, dropped>>
  /\ ipc' = "list"
  /\ UNCHANGED <<site, files, scraper, replace, unread, texts, rebuilt, ingests>>

ListFiles ==
  /\ ipc = "list"
  /\ unread' = Present(files) /\ texts' = [n \in Names |-> None]
  /\ ipc' = IF Present(files) = {} THEN "upsert" ELSE "read"
  /\ UNCHANGED <<scrapeVars, replace, vectors, dropped, rebuilt, patched, ingests>>

(* One file after the other, in an order that never changes, as each of    *)
(* them is by then: a scrape may be writing them, and a file that was      *)
(* pruned meanwhile is passed over.                                        *)
Read ==
  /\ ipc = "read"
  /\ LET n == CHOOSE f \in unread : TRUE
     IN /\ texts' = [texts EXCEPT ![n] = files[n]]
        /\ unread' = unread \ {n}
        /\ ipc' = IF unread = {n} THEN "upsert" ELSE "read"
  /\ UNCHANGED <<scrapeVars, replace, vectors, dropped, rebuilt, patched, ingests>>

UpsertOneShort ==
  /\ ipc = "upsert"
  /\ vectors' = [n \in Names |-> [i \in Chunks |->
                   IF texts[n] # None /\ i < SizeOf[texts[n]] THEN texts[n] ELSE vectors[n][i]]]
  /\ rebuilt' = dropped
  /\ patched' = patched \cup {n \in Names : vectors[n] # Nothing[n]}
  /\ ipc' = "off"
  /\ UNCHANGED <<scrapeVars, replace, unread, texts, dropped, ingests>>

(* ids are hashes of the path and the number of the chunk.                 *)
Upsert ==
  /\ ipc = "upsert"
  /\ vectors' = [n \in Names |-> [i \in Chunks |->
                   IF texts[n] # None /\ i <= SizeOf[texts[n]] THEN texts[n] ELSE vectors[n][i]]]
  /\ rebuilt' = dropped
  /\ patched' = patched \cup {n \in Names : vectors[n] # Nothing[n]}
  /\ ipc' = "off"
  /\ UNCHANGED <<scrapeVars, replace, unread, texts, dropped, ingests>>

DieIngesting ==
  /\ ipc # "off" /\ faults < MaxFaults /\ faults' = faults + 1
  /\ ipc' = "off"
  /\ UNCHANGED <<site, files, scraper, replace, unread, texts, vectors, dropped, rebuilt, patched,
                 ingests>>

-----------------------------------------------------------------------------
Next ==
  \/ (\E u \in Urls : Edit(u)) /\ UNCHANGED ingester
  \/ (StartScrape \/ Scraping \/ DieScraping) /\ UNCHANGED ingester
  \/ StartIngest \/ Reset \/ ListFiles \/ Read \/ Upsert \/ DieIngesting

Spec == Init /\ [][Next]_vars

(* A run that was started goes on; nobody has to start one.                *)
FairSpec == Spec /\ WF_vars(Scraping /\ UNCHANGED ingester)

-----------------------------------------------------------------------------
(* A draft is never grounded in two versions of a page, nor in a part of   *)
(* one: what retrieve finds of a file is all of one version of it or       *)
(* nothing, unless a run loaded it over older chunks (no --replace, or a   *)
(* reset that failed without a word).                                      *)
PagesAreWhole ==
  \A n \in Names \ patched :
    vectors[n] = Nothing[n] \/ \E v \in Versions : vectors[n] = ChunksOf(v)

(* After a rebuild the collection holds the chunks of the files it read    *)
(* and no others: nothing is left of removed pages and longer versions.    *)
RebuildIsExact ==
  rebuilt => vectors = [n \in Names |-> ChunksOf(texts[n])]
=============================================================================
