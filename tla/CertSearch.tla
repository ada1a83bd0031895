----------------------------- MODULE CertSearch -----------------------------
(***************************************************************************)
(* CertService: the search of the app, page by page, and the lookups of    *)
(* the AI server by keywords and by name.  A text is told by the keywords  *)
(* it contains (LIKE), and a text that is NULL contains none.              *)
(***************************************************************************)
EXTENDS Catalogue, Integers, Sequences, FiniteSets, FiniteSetsExt, SequencesExt

CONSTANTS
  NameOrder,  \* the place of each jm_nm in the collation; names may be equal
  National,   \* certificates with a row in qual_detail
  Technical,  \* certificates with qual_gb_cd 'T'
  Keyword,    \* strings that are searched for
  Text,       \* the keywords in each column of each certificate
  Named,      \* the certificates whose jm_nm is the keyword, by keyword
  Coded,      \* the certificates whose jm_cd is the keyword, by keyword
  Sort,       \* values of sort, split at the commas
  PageSize    \* values of size

Column == {"jm_nm", "mdoblig_fld_nm", "hist", "job", "summary", "career"}

ASSUME CertSearchAssumption ==
  /\ IsFiniteSet(Cert) /\ IsFiniteSet(Keyword)
  /\ NameOrder \in [Cert -> Nat]
  /\ National \subseteq Cert /\ Technical \subseteq Cert
  /\ Text \in [Cert -> [Column -> SUBSET Keyword]]
  /\ \A c \in Cert \ National : \A col \in Column \ {"jm_nm"} : Text[c][col] = {}
  /\ Named \in [Keyword -> SUBSET Cert] /\ Coded \in [Keyword -> SUBSET Cert]
  /\ \A k \in Keyword : \A c \in Named[k] : k \in Text[c]["jm_nm"]
  /\ PageSize \subseteq Nat \ {0}

VARIABLE found  \* what the client has been answered last

NoAnswer == [kind |-> "none"]

SearchInit == found = NoAnswer

\* ORDER BY: the key of each row, first difference first.
Precedes(s, t) ==
  \E i \in DOMAIN s : s[i] < t[i] /\ \A j \in 1..(i - 1) : s[j] = t[j]

\* MySQL may return rows with equal keys in any order.
Ordered(S, Key(_)) ==
  {s \in SetToSeqs(S) :
     \A j \in DOMAIN s : \A i \in 1..(j - 1) : ~Precedes(Key(s[j]), Key(s[i]))}

Limit(s, from, size) ==
  SubSeq(s, from + 1, IF from + size < Len(s) THEN from + size ELSE Len(s))

-----------------------------------------------------------------------------
(* search()                                                                *)

IsSort(sort) ==
  sort # << >> => /\ sort[1] \in {"name", "jmCd"}
                  /\ Len(sort) <= 2
                  /\ Len(sort) = 2 => sort[2] \in {"asc", "desc"}

Signed(sort, n) == IF Len(sort) = 2 /\ sort[2] = "desc" THEN -n ELSE n

SortKeyAlone(sort, c) ==   \* mutant: jm_cd does not decide between equal names
  IF sort = << >> \/ sort[1] = "jmCd" THEN <<Signed(sort, c)>>
  ELSE <<Signed(sort, NameOrder[c])>>

SortKey(sort, c) ==
  IF sort = << >> \/ sort[1] = "jmCd" THEN <<Signed(sort, c)>>
  ELSE <<Signed(sort, NameOrder[c]), c>>

\* Without keyword every certificate matches.
Matches(keywords) == {c \in Cert : keywords \subseteq Text[c]["jm_nm"]}

\* Math.ceil(totalElements / size)
TotalPages(total, size) == (total + size - 1) \div size

\* A client asks for the first page, and for the next one while there is one.  Any
\* other sort is answered with 422.
FirstPage(keywords, sort, size) ==
  /\ IsSort(sort)
  /\ \E rows \in Ordered(Matches(keywords), LAMBDA c : SortKey(sort, c)) :
       found' = [kind |-> "search", keywords |-> keywords, sort |-> sort, size |-> size,
                 page |-> 0, pages |-> TotalPages(Len(rows), size),
                 shown |-> Limit(rows, 0, size)]

NextPage ==
  /\ found.kind = "search"
  /\ found.page + 1 < found.pages
  /\ \E rows \in Ordered(Matches(found.keywords), LAMBDA c : SortKey(found.sort, c)) :
       found' = [found EXCEPT
         !.page = @ + 1,
         !.shown = @ \o Limit(rows, (found.page + 1) * found.size, found.size)]

-----------------------------------------------------------------------------
(* searchByKeywords(), for the AI server                                   *)

HistFirst ==   \* mutant: the name before counts more than the field
  [jm_nm |-> 100, mdoblig_fld_nm |-> 50, hist |-> 60, job |-> 10, summary |-> 3, career |-> 1]

KEYWORD_WEIGHTS ==
  [jm_nm |-> 100, mdoblig_fld_nm |-> 50, hist |-> 30, job |-> 10, summary |-> 3, career |-> 1]

Score(keywords, c) ==
  MapThenSumSet(LAMBDA hit : KEYWORD_WEIGHTS[hit[2]],
                {hit \in keywords \X Column : hit[1] \in Text[c][hit[2]]})

Hits(k) == {c \in National : \E col \in Column : k \in Text[c][col]}

HitsOfAll(keywords) == {c \in National : \A k \in keywords : c \in Hits(k)}
HitsOfAny(keywords) == UNION {Hits(k) : k \in keywords}

\* OR only when AND finds nothing and there is more than one keyword.
KeywordHits(keywords) ==
  IF HitsOfAll(keywords) = {} /\ Cardinality(keywords) > 1 THEN HitsOfAny(keywords)
  ELSE HitsOfAll(keywords)

\* The rows that are shown; total, which counts them before LIMIT, is left out.
Answer(kind, keywords, rows, size) ==
  [kind |-> kind, keywords |-> keywords, size |-> size, shown |-> Limit(rows, 0, size)]

\* The keywords of a request are told apart before they get here.
SearchByKeywords(keywords, size) ==
  \E rows \in Ordered(KeywordHits(keywords),
                      LAMBDA c : <<-Score(keywords, c), NameOrder[c], c>>) :
    found' = Answer("keywords", keywords, rows, size)

\* resolve(): the name that is the query comes first.
Resolve(k, size) ==
  \E rows \in Ordered(Coded[k] \cup Matches({k}),
                      LAMBDA c : <<IF c \in Named[k] THEN 0 ELSE 1, NameOrder[c], c>>) :
    found' = Answer("resolve", {k}, rows, size)

\* getRecommendable(): not in pages, so any order of equal names will do.
GetRecommendable ==
  \E rows \in SetToSeqs(National \cap Technical) :
    found' = Answer("recommendable", {}, rows, Len(rows))

SearchNext ==
  \/ \E keywords \in {{}} \cup {{k} : k \in Keyword}, sort \in Sort, size \in PageSize :
       FirstPage(keywords, sort, size)
  \/ NextPage
  \/ \E keywords \in (SUBSET Keyword) \ {{}}, size \in PageSize :
       SearchByKeywords(keywords, size)
  \/ \E k \in Keyword, size \in PageSize : Resolve(k, size)
  \/ GetRecommendable

-----------------------------------------------------------------------------
(* Properties.                                                             *)

\* A client that goes from page to page is shown every match exactly once, although
\* names may be equal and each page is a query of its own: "so that the paging does
\* not shake" (cert.service.ts:279).
SearchPagesCover ==
  found.kind = "search" =>
    /\ Cardinality(ToSet(found.shown)) = Len(found.shown)
    /\ found.page + 1 >= found.pages => ToSet(found.shown) = Matches(found.keywords)

Significance == <<"jm_nm", "mdoblig_fld_nm", "hist", "job", "summary", "career">>

\* The first column, by significance, with the keyword in it.
Level(k, c) ==
  CHOOSE n \in DOMAIN Significance :
    /\ k \in Text[c][Significance[n]]
    /\ \A i \in 1..(n - 1) : k \notin Text[c][Significance[i]]

\* The rows of the answer that LIMIT has cut off, and those after the n-th.
Candidates ==
  IF found.kind = "keywords" THEN HitsOfAny(found.keywords)
  ELSE UNION {Coded[k] \cup Matches({k}) : k \in found.keywords}

Behind(n) == Candidates \ {found.shown[i] : i \in 1..n}

\* "AND only, lest a search for two words bring in what has one of them; wider only
\* when AND is empty" (cert.service.ts:152).
AllBeforeAny ==
  LET all == HitsOfAll(found.keywords)
  IN /\ all # {} => ToSet(found.shown) \subseteq all
     /\ found.shown = << >> => HitsOfAny(found.keywords) = {}

\* What has the keyword only in columns that tell less, in however many of them,
\* does not come before what has it in a column that tells more.
ByColumn ==
  \A k \in found.keywords, n \in DOMAIN found.shown :
    found.keywords = {k} => \A c \in Behind(n) : Level(k, found.shown[n]) <= Level(k, c)

NamesakesFirst ==
  \A k \in found.keywords, n \in DOMAIN found.shown :
    Behind(n) \cap Named[k] # {} => found.shown[n] \in Named[k]

\* The AI server is shown the best there is, on whichever side of LIMIT: what has
\* all keywords, the name before other texts and those by what they tell
\* (cert.service.ts:29), and to resolve() the very name before longer ones.
LookupsBest ==
  /\ found.kind = "keywords" => AllBeforeAny /\ ByColumn
  /\ found.kind = "resolve" => NamesakesFirst

=============================================================================
