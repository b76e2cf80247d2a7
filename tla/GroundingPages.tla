---------------------------- MODULE GroundingPages ----------------------------
(***************************************************************************)
(* The pages of claim grounding.  The claims are those the analyses of the *)
(* stories' posts extracted, by post, analysis row and fingerprint, and    *)
(* then the claims of promoted discoveries, by row id.  A page ends at its *)
(* limit or where its budget of posts or of analysis rows runs out, and    *)
(* returns the cursor behind which the next one starts.                    *)
(*                                                                         *)
(* In this module rows[p] is the analyses of post p, oldest first, each    *)
(* the set of its claims' fingerprints; found is the ids of the discovered *)
(* claims; budget is [posts |-> the posts, analyses |-> the analysis rows  *)
(* that a page may scan].                                                  *)
(***************************************************************************)
EXTENDS Integers, Sequences, SequencesExt, FiniteSets, FiniteSetsExt

\* A place in that order, which is a claim and the cursor behind it: an extracted claim
\* "a2", all of a post "p", a discovered claim "d".
At(kind, at, row, fp) == [kind |-> kind, at |-> at, row |-> row, fp |-> fp]
NoCursor == At("none", 0, 0, 0)

Before(x, y) == x.row < y.row \/ (x.row = y.row /\ x.fp < y.fp)

\* Mutant: the next page starts behind the cursor's row.
FreshOfLater(row, r, cursor) == {f \in row : r # cursor.row}

\* What the cursor leaves of a row: all of it, or the claims behind the cursor's.
FreshOf(row, r, cursor) == {f \in row : r = cursor.row => f > cursor.fp}

\* The posts not yet passed: a cursor within a post has not passed it.
PostsAfter(rows, cursor) ==
    {p \in DOMAIN rows : cursor.kind = "none" \/ p > cursor.at \/ (cursor.kind = "a2" /\ p = cursor.at)}

\* One post of a page: the rows its budget allows, from the cursor's own row on, and
\* of each claim in them the first row that has it.  If the budget ends here the page
\* continues behind the last row read.
ScanPost(rows, limit, budget, cursor, page, p) ==
    LET resumed == IF cursor.kind = "a2" /\ cursor.at = p THEN cursor ELSE NoCursor
        first == Max({1, resumed.row})
        read == first .. Min({Len(rows[p]), first + budget.analyses - page.analyses - 1})
        fresh == [r \in read |-> FreshOf(rows[p][r], r, resumed)]
        byKey == {c \in {At("a2", p, r, f) : r \in read, f \in UNION {fresh[r] : r \in read}} :
                    c.fp \in fresh[c.row] /\ \A r \in first .. c.row - 1 : c.fp \notin fresh[r]}
        scanned == page.analyses + Cardinality(read)
        spent == read # {} /\ scanned >= budget.analyses /\ Cardinality(byKey) =< limit
        claims == page.claims \o SetToSortSeq(byKey, Before)
    IN  [claims |-> SubSeq(claims, 1, Min({Len(claims), limit + 1})),
         analyses |-> scanned,
         posts |-> page.posts + 1,
         last |-> p,
         continuation |-> IF spent THEN At("a2", p, Max(read), Max(fresh[Max(read)] \cup {0}))
                          ELSE NoCursor]

\* A page scans no further post once it is over its limit or a budget is spent.
Full(limit, budget, page) ==
    \/ Len(page.claims) > limit
    \/ page.continuation # NoCursor
    \/ page.posts >= budget.posts

EmptyPage == [claims |-> <<>>, analyses |-> 0, posts |-> 0, last |-> 0, continuation |-> NoCursor]

ExtractedPage(rows, limit, budget, cursor) ==
    FoldLeft(LAMBDA page, p : IF Full(limit, budget, page) THEN page
                              ELSE ScanPost(rows, limit, budget, cursor, page, p),
             EmptyPage, IF cursor.kind = "d" THEN <<>> ELSE SetToSortSeq(PostsAfter(rows, cursor), <))

\* The discovered claims that fill a page, up to one more than its limit.
WithDiscovered(found, limit, cursor, claims) ==
    LET rest == {i \in found : cursor.kind = "d" => i > cursor.at}
        all == claims \o [i \in 1 .. Cardinality(rest) |-> At("d", SetToSortSeq(rest, <)[i], 0, 0)]
    IN  SubSeq(all, 1, Min({Len(all), limit + 1}))

Answer(claims, hasMore, next) == [claims |-> claims, hasMore |-> hasMore, nextCursor |-> next]

\* A page over its limit is cut there and continues behind its last claim.
Cut(claims, limit) ==
    IF Len(claims) > limit THEN Answer(SubSeq(claims, 1, limit), TRUE, claims[limit])
    ELSE Answer(claims, FALSE, NoCursor)

ListClaims(rows, found, limit, budget, cursor) ==
    LET page == ExtractedPage(rows, limit, budget, cursor)
    IN  CASE page.continuation # NoCursor -> Answer(page.claims, TRUE, page.continuation)
          [] Len(page.claims) > limit -> Cut(page.claims, limit)
          [] page.posts >= budget.posts -> Answer(page.claims, TRUE, At("p", page.last, 0, 0))
          [] OTHER -> Cut(WithDiscovered(found, limit, cursor, page.claims), limit)
==============================================================================
