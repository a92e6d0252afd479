---------------------------- MODULE Leaderboard ----------------------------
(***************************************************************************)
(* points_leaderboard over several wallets, and the two requests that read *)
(* it: getLeaderboardList, page by page, and getUserDashboard.  One wallet *)
(* has the history of PointsViews; the others stand at fixed totals.       *)
(***************************************************************************)
EXTENDS PointsViews

CONSTANTS
    Self,       \* the wallet with the history
    Rivals,     \* the totals of the other wallets
    PageSize    \* the limit of a request

ASSUME LeaderboardAssumption ==
    /\ PageSize \in Nat \ {0}
    /\ Self \notin DOMAIN Rivals /\ IsFiniteSet(DOMAIN Rivals)
    /\ \A w \in DOMAIN Rivals : Rivals[w] \in Nat

Totals == [w \in {Self} \cup DOMAIN Rivals |->
              IF w = Self THEN total_points(rows, now) ELSE Rivals[w]]

\* WHERE total_points > 0, and RANK() OVER (ORDER BY total_points DESC).
Ranked(totals) == {w \in DOMAIN totals : totals[w] > 0}

rank(totals, w) == 1 + Cardinality({v \in Ranked(totals) : totals[v] > totals[w]})

\* ORDER BY pl.rank ASC leaves wallets of one rank in any order.
RankOrders(totals) ==
    {s \in SetToSeqs(Ranked(totals)) :
        \A i, j \in DOMAIN s : i < j => rank(totals, s[i]) <= rank(totals, s[j])}

\* The offset of a caller that counts pages from 0.
OffsetFromZero(limit, page) == page * limit

calculateOffset(limit, page) == (page - 1) * limit

\* LIMIT $1 OFFSET $2
LeaderboardPage(order, limit, page) ==
    LET offset == calculateOffset(limit, page)
    IN  SubSeq(order, offset + 1, Min({offset + limit, Len(order)}))

NoMeta == [totalPages |-> 0]

TotalPages(limit, count) == (count + limit - 1) \div limit

createMeta(limit, page, count) ==
    IF page > TotalPages(limit, count) THEN NoMeta
    ELSE [totalItems |-> count, totalPages |-> TotalPages(limit, count),
          hasNextPage |-> page < TotalPages(limit, count), hasPreviousPage |-> page > 1]

\* getUserDashboard: a wallet that is not on the leaderboard has no rank.
DashboardRank(totals, w) == IF w \in Ranked(totals) THEN rank(totals, w) ELSE Null

-----------------------------------------------------------------------------
NoTies(totals) == \A v, w \in Ranked(totals) : totals[v] = totals[w] => v = w

\* The pages a client reads as long as hasNextPage says so.
ReadAllPages(order) ==
    LET count == Len(order)
    IN  FoldLeft(LAMBDA read, page : read \o LeaderboardPage(order, PageSize, page), <<>>,
                 [p \in 1 .. TotalPages(PageSize, count) |-> p])

\* A client that follows hasNextPage over an unchanged leaderboard gets every
\* wallet with points, once, best first, and finds each where its dashboard
\* says; with equal totals the pages are cut from orders that may differ, so
\* the statement is for totals without ties.
PagesCoverLeaderboard ==
    LET totals == Totals
        last == TotalPages(PageSize, Cardinality(Ranked(totals)))
    IN  NoTies(totals) => \A order \in RankOrders(totals) :
            /\ ReadAllPages(order) = order
            /\ \A i \in DOMAIN order : DashboardRank(totals, order[i]) = i
            /\ \A page \in 1 .. last :
                   LET meta == createMeta(PageSize, page, Len(order))
                   IN  /\ LeaderboardPage(order, PageSize, page) # <<>>
                       /\ meta.hasNextPage = (LeaderboardPage(order, PageSize, page + 1) # <<>>)
=============================================================================
