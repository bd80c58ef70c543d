SPECIFICATION FairSpec
CONSTANTS
  None = None
  root = root  index = index  plans = plans  terms = terms  shop = shop  blog = blog  faq = faq
  Urls = {root, index, plans, terms, shop, blog}
  Names = {root, plans, terms, shop, blog, faq}
  Links <- TestLinks
  NameOf <- TestNameOf
  Sources <- TestSources
  Versions = {"old", "new"}
  Initially = {faq, terms}
  MaxEdits = 1
  MaxScrapes = 1
  MaxFaults = 1
  SizeOf <- TestSizeOf
  MaxChunks = 2
  MaxIngests = 2
INVARIANTS TypeOK CleanCrawlIsExact StaysWithinPrefix MirrorsCrawl PagesAreWhole RebuildIsExact
PROPERTIES ScrapeEnds
CHECK_DEADLOCK FALSE
