----------------------------- MODULE LedgerReads -----------------------------
(***************************************************************************)
(* The reads of the ledger service beside its postings.                    *)
(*                                                                         *)
(* A client lists the entries of one (account, asset) page by page, handing*)
(* each next_page_token back (Server.ListEntries over                      *)
(* MySQLRepository.ListEntries), and a caller of GetTransaction reads the  *)
(* transaction and its postings in two separate autocommit queries.  Each  *)
(* query is one snapshot of what is committed.                             *)
(***************************************************************************)
EXTENDS Ledger

CONSTANTS
    Listed,           \* the pair being listed
    PageSizes,        \* page_size values a client may ask for
    DefaultPageSize,  \* defaultPageSize
    MaxPageSize       \* maxPageSize

ASSUME ReadsAssumption ==
    /\ Listed \in Pair
    /\ PageSizes \subseteq Int
    /\ DefaultPageSize \in 1 .. MaxPageSize
    /\ MaxPageSize \in Nat

VARIABLES
    token,      \* next_page_token the client holds: an entry id, 0 for ""
    delivered,  \* ids of the entries listed so far, in the order received
    listing,    \* "more" while there is a next page, "end" after the last
    found,      \* transaction row GetTransaction has read, None before
    loaded      \* the postings GetTransaction returned, None before

readVars == <<token, delivered, listing, found, loaded>>
allVars == <<vars, readVars>>

-----------------------------------------------------------------------------

\* clampPageSize.
ClampPageSize(n) ==
    IF n <= 0 THEN DefaultPageSize
    ELSE IF n > MaxPageSize THEN MaxPageSize
    ELSE n

\* The ids WHERE account_id = ? AND asset = ? AND entry_id > cursor.
IdsAfter(cursor) ==
    {e.id : e \in {f \in entries : PairOf(f.posting) = Listed /\ f.id > cursor}}

\* ORDER BY entry_id: the ids of S in increasing order.
InOrder(S) ==
    [i \in 1 .. Cardinality(S) |->
        CHOOSE n \in S : Cardinality({m \in S : m <= n}) = i]

InitReads ==
    /\ Init
    /\ token = 0
    /\ delivered = <<>>
    /\ listing = "more"
    /\ found = None
    /\ loaded = None

\* Mutant: the token names the extra row fetched to detect a next page.
ListEntriesExtra(size) ==
    LET n    == ClampPageSize(size)
        rows == InOrder(IdsAfter(token))
        page == SubSeq(rows, 1, IF Len(rows) > n THEN n ELSE Len(rows))
    IN
    /\ listing = "more"
    /\ delivered' = delivered \o page
    /\ IF Len(rows) > n
       THEN token' = rows[n + 1] /\ UNCHANGED listing
       ELSE token' = 0 /\ listing' = "end"
    /\ UNCHANGED <<vars, found, loaded>>

\* ListEntries with the token of the page before: the query fetches one row
\* more than the page, only to know whether there is a next page.
ListEntries(size) ==
    LET n    == ClampPageSize(size)
        ids  == InOrder(IdsAfter(token))
        rows == SubSeq(ids, 1, IF Len(ids) > n + 1 THEN n + 1 ELSE Len(ids))
    IN
    /\ listing = "more"
    /\ IF Len(rows) > n
       THEN /\ delivered' = delivered \o SubSeq(rows, 1, n)
            /\ token' = rows[n]
            /\ UNCHANGED listing
       ELSE /\ delivered' = delivered \o rows
            /\ token' = 0
            /\ listing' = "end"
    /\ UNCHANGED <<vars, found, loaded>>

\* GetTransaction, first query: the row with the idempotency key.
FindTransaction(key) ==
    /\ found = None
    /\ \E t \in transactions : t.key = key /\ found' = t
    /\ UNCHANGED <<vars, token, delivered, listing, loaded>>

\* GetTransaction, second query: loadPostings.
FindPostings ==
    /\ found # None
    /\ loaded = None
    /\ loaded' = LoadPostings(found.id)
    /\ UNCHANGED <<vars, token, delivered, listing, found>>

Post ==
    /\ \/ \E c \in Call : Step(c) \/ Disturb(c)
       \/ Crash
    /\ UNCHANGED readVars

\* The bounds on calls and on listings are reached.
Over == AllDone /\ listing = "end" /\ UNCHANGED allVars

NextReads ==
    \/ Post
    \/ \E n \in PageSizes : ListEntries(n)
    \/ \E k \in Key : FindTransaction(k)
    \/ FindPostings
    \/ Over

SpecReads == InitReads /\ [][NextReads]_allVars

-----------------------------------------------------------------------------

\* Paging skips and repeats nothing while postings go on: what has been
\* delivered is exactly the entries of the pair up to the last one delivered,
\* once each and in order, also after later commits.
PagesSkipNothing ==
    LET seen == {delivered[i] : i \in DOMAIN delivered} IN
    delivered = InOrder({n \in IdsAfter(0) : \E m \in seen : n <= m})

\* GetTransaction never returns part of a transaction, although its two
\* queries are not in one database transaction.
TransactionsReadWhole ==
    loaded # None => loaded = request[found.id].postings

=============================================================================
