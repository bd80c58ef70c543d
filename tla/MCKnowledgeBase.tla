--------------------------- MODULE MCKnowledgeBase ---------------------------
(***************************************************************************)
(* A site with a start page that has two spellings, a page that links      *)
(* back to it and on to a third, and a page outside the prefix; a second   *)
(* source of one page; and a file written by hand.                         *)
(***************************************************************************)
EXTENDS KnowledgeBase

CONSTANTS root, index, plans, terms, shop, blog, faq

TestLinks ==
  [u \in Urls |-> CASE u \in {root, index} -> {index, plans, shop}
                    [] u = plans -> {root, terms}
                    [] OTHER -> {}]

TestNameOf == [u \in Urls |-> IF u = index THEN root ELSE u]

TestSources ==
  <<[seed |-> root, crawl |-> TRUE, max_pages |-> 3, within |-> {root, index, plans, terms}],
    [seed |-> blog, crawl |-> FALSE, max_pages |-> 1, within |-> {blog}]>>

(* The old text of a page is longer than the new one.                      *)
TestSizeOf == [v \in Versions |-> IF v = "old" THEN 2 ELSE 1]
=============================================================================
