-------------------------------- MODULE Rankings --------------------------------
(* The ranking boards: sorted sets in Redis, projected from the ledger in     *)
(* PostgreSQL.  A commit queues one job, which reads the sums of its user for *)
(* three boards and then writes them; an operator may rebuild every board.    *)
(* Jobs are lost, delivered again, retried and abandoned, and Redis may be    *)
(* emptied.                                                                   *)
EXTENDS Integers, Sequences, FiniteSets, FiniteSetsExt

CONSTANTS
    Earners,      \* users, ordered as their ids are
    Days, MonthLength,
    Amounts,      \* points of an award
    Projectors,   \* workers
    MaxEntries,   \* bound on the ledger
    MaxFaults,    \* bound on lost jobs, deaths and losses of Redis
    Idle

ASSUME RankingAssumption ==
    /\ Earners \subseteq Nat /\ Days \subseteq Nat /\ MonthLength \in Nat \ {0}
    /\ Amounts \subseteq Nat \ {0} /\ MaxEntries \in Nat /\ MaxFaults \in Nat

VARIABLES
    entries,      \* the ledger, in commit order
    boards,       \* board -> scores of its members, for the keys that exist
    jobs,         \* entries whose job is queued or not acknowledged
    projector,    \* worker -> the job it runs: what it has read, what it has written
    rebuild,      \* the rebuild under way
    disturbed,    \* a fault or an overlap since the last rebuild without one
    faults

rankingVars == <<entries, boards, jobs, projector, rebuild, disturbed, faults>>

AllTime == [kind |-> "all", of |-> 0]
Daily(day) == [kind |-> "daily", of |-> day]
Monthly(day) == [kind |-> "monthly", of |-> day \div MonthLength]

\* _affected_periods, in the order of the reads and writes; mutant: no month.
AffectedButMonth(day) == <<Daily(day), AllTime>>

Affected(day) == <<Daily(day), Monthly(day), AllTime>>

\* _range_filters: the instants a board is about.
InBoard(entry, board) == board \in {AllTime, Daily(entry.day), Monthly(entry.day)}

\* user_score, over the first n entries.
Total(amounts) == FoldFunction(+, 0, amounts)

ScoreAt(user, board, n) ==
    Total([i \in {j \in 1..n : entries[j].user = user /\ InBoard(entries[j], board)}
              |-> entries[i].amount])

Score(user, board) == ScoreAt(user, board, Len(entries))

\* range_scores: a group for every user with an entry, also where it sums to 0.
Members(board) == {entries[i].user : i \in {j \in DOMAIN entries : InBoard(entries[j], board)}}
RangeScores(board) == [user \in Members(board) |-> Score(user, board)]

NoScores == [user \in {} |-> 0]
BoardOf(board) == IF board \in DOMAIN boards THEN boards[board] ELSE NoScores

With(f, key, value) == [k \in DOMAIN f \cup {key} |-> IF k = key THEN value ELSE f[k]]
Without(f, keys) == [k \in DOMAIN f \ keys |-> f[k]]

RankingInit ==
    /\ entries = <<>> /\ boards = [board \in {} |-> NoScores]
    /\ jobs = {} /\ projector = [w \in Projectors |-> Idle] /\ rebuild = Idle
    /\ disturbed = FALSE /\ faults = 0

\* A step after which the boards may be wrong until the next quiet rebuild.
Disturb ==
    /\ disturbed' = TRUE
    /\ rebuild' = IF rebuild = Idle THEN Idle ELSE [rebuild EXCEPT !.quiet = FALSE]

Fault == faults < MaxFaults /\ faults' = faults + 1

-------------------------------------------------------------------------------
(* The ledger commits; the hook after the commit queues the job, and a broker *)
(* that cannot be reached only costs a warning.                               *)

Queued(entry) ==
    /\ entries' = Append(entries, entry)
    /\ \/ /\ jobs' = jobs \cup {Len(entries) + 1}
          /\ UNCHANGED <<rebuild, disturbed, faults>>
       \/ Fault /\ Disturb /\ UNCHANGED jobs
    /\ UNCHANGED <<boards, projector>>

Award(user, day, amount) ==
    /\ Len(entries) < MaxEntries
    /\ Queued([user |-> user, day |-> day, amount |-> amount])

\* A reversal counts against the day of the entry it takes back.
ReverseEntry(i) ==
    /\ Len(entries) < MaxEntries /\ entries[i].amount > 0
    /\ Queued([entries[i] EXCEPT !.amount = 0 - @])

-------------------------------------------------------------------------------
(* workers.project_ranking_update *)

Busy(user) == \E w \in Projectors : projector[w] # Idle /\ projector[w].user = user

Targets(work) == Affected(entries[work.job].day)

\* A worker takes a message and reads the sums for its three boards; no commit
\* between two reads matters to a single board.  The message stays until the
\* job ends, and may be delivered twice.
Deliver(w, i) ==
    LET user == entries[i].user
        keys == Affected(entries[i].day)
    IN  /\ projector[w] = Idle
        /\ projector' = [projector EXCEPT ![w] =
                [job |-> i, user |-> user, written |-> 0,
                 read |-> [k \in DOMAIN keys |-> Score(user, keys[k])]]]
        /\ IF Busy(user) \/ rebuild # Idle
           THEN Disturb
           ELSE UNCHANGED <<rebuild, disturbed>>
        /\ UNCHANGED <<entries, boards, jobs, faults>>

\* ZADD.
NewScore(board, work) == work.read[work.written + 1]

\* The message is acknowledged after the last board.
WriteScore(w) ==
    LET work  == projector[w]
        board == Targets(work)[work.written + 1]
        last  == work.written + 1 = Len(Targets(work))
    IN  /\ work # Idle
        /\ boards' = With(boards, board,
                          With(BoardOf(board), work.user, NewScore(board, work)))
        /\ projector' = [projector EXCEPT ![w] =
                            IF last THEN Idle ELSE [work EXCEPT !.written = @ + 1]]
        /\ jobs' = IF last THEN jobs \ {work.job} ELSE jobs
        /\ UNCHANGED <<entries, rebuild, disturbed, faults>>

\* A death or a transient error leaves the job to be delivered again, or, once
\* its retries are used up, nowhere.
FailProjection(w) ==
    /\ projector[w] # Idle /\ Fault
    /\ projector' = [projector EXCEPT ![w] = Idle]
    /\ \/ UNCHANGED <<jobs, rebuild, disturbed>>
       \/ jobs' = jobs \ {projector[w].job} /\ Disturb
    /\ UNCHANGED <<entries, boards>>

-------------------------------------------------------------------------------
(* workers.rebuild_all_rankings, and the loss it is for *)

LoseRedis ==
    /\ Fault /\ boards' = [board \in {} |-> NoScores] /\ Disturb
    /\ UNCHANGED <<entries, jobs, projector>>

\* rebuild_all lists the days and the months of every instant in the ledger, and
\* takes the days first, then the months, each from the oldest.
LedgerDays == {entries[i].day : i \in DOMAIN entries}

RebuildTargets ==
    {AllTime} \cup {Daily(day) : day \in LedgerDays} \cup {Monthly(day) : day \in LedgerDays}

PlaceOf == [daily |-> 1, monthly |-> 2, all |-> 3]
Earlier(board, other) ==
    \/ PlaceOf[board.kind] < PlaceOf[other.kind]
    \/ board.kind = other.kind /\ board.of < other.of

StartRebuild ==
    /\ rebuild = Idle
    /\ rebuild' = [at |-> "READ", targets |-> RebuildTargets, todo |-> RebuildTargets,
                   board |-> AllTime, scores |-> NoScores, stale |-> {},
                   quiet |-> \A w \in Projectors : projector[w] = Idle]
    /\ disturbed' = (disturbed \/ \E w \in Projectors : projector[w] # Idle)
    /\ UNCHANGED <<entries, boards, jobs, projector, faults>>

ReadRange ==
    /\ rebuild # Idle /\ rebuild.at = "READ"
    /\ \E board \in rebuild.todo :
          /\ \A other \in rebuild.todo : ~Earlier(other, board)
          /\ rebuild' = [rebuild EXCEPT !.at = "WRITE", !.board = board, !.scores = RangeScores(board)]
    /\ UNCHANGED <<entries, boards, jobs, projector, disturbed, faults>>

\* DEL and ZADD in one transaction; a key without members does not exist.
Rewritten(board, scores) ==
    IF DOMAIN scores = {} THEN Without(boards, {board}) ELSE With(boards, board, scores)

RewriteBoard ==
    /\ rebuild # Idle /\ rebuild.at = "WRITE"
    /\ boards' = Rewritten(rebuild.board, rebuild.scores)
    /\ rebuild' = [rebuild EXCEPT !.at = "READ", !.todo = @ \ {rebuild.board}, !.scores = NoScores]
    /\ UNCHANGED <<entries, jobs, projector, disturbed, faults>>

\* _delete_unbacked_keys: SCAN, then DEL.
ScanKeys ==
    /\ rebuild # Idle /\ rebuild.at = "READ" /\ rebuild.todo = {}
    /\ rebuild' = [rebuild EXCEPT !.at = "DELETE", !.stale = DOMAIN boards \ rebuild.targets]
    /\ UNCHANGED <<entries, boards, jobs, projector, disturbed, faults>>

\* A rebuild that nothing overlapped leaves boards that later jobs keep right.
DeleteUnbacked ==
    /\ rebuild # Idle /\ rebuild.at = "DELETE"
    /\ boards' = Without(boards, rebuild.stale)
    /\ disturbed' = IF rebuild.quiet THEN FALSE ELSE disturbed
    /\ rebuild' = Idle
    /\ UNCHANGED <<entries, jobs, projector, faults>>

RebuildNext ==
    \/ StartRebuild \/ ReadRange \/ RewriteBoard \/ ScanKeys \/ DeleteUnbacked

ProjectorNext ==
    \E w \in Projectors :
        \/ \E i \in jobs : Deliver(w, i)
        \/ WriteScore(w) \/ FailProjection(w)

RankingNext ==
    \/ \E user \in Earners, day \in Days, amount \in Amounts : Award(user, day, amount)
    \/ \E i \in DOMAIN entries : ReverseEntry(i)
    \/ ProjectorNext \/ RebuildNext \/ LoseRedis

RankingSpec == RankingInit /\ [][RankingNext]_rankingVars

-------------------------------------------------------------------------------
(* What the boards and the growth page answer while the boards stand still *)

\* ZREVRANK: by score, then by id, both from the top; counted from 1.
Above(scores, user) ==
    {u \in DOMAIN scores : scores[u] > scores[user] \/ (scores[u] = scores[user] /\ u > user)}

Rank(scores, user) == Cardinality(Above(scores, user)) + 1

\* ZREVRANGE, both ends included, a start below 0 counted from the end: the members
\* it gives, each with its place in the answer, counted from 1.
RevRange(scores, start, stop) ==
    LET size  == Cardinality(DOMAIN scores)
        first == IF start >= 0 THEN start ELSE IF size + start >= 0 THEN size + start ELSE 0
        last  == IF stop < size THEN stop ELSE size - 1
    IN  {<<u, Rank(scores, u) - first>> : u \in {v \in DOMAIN scores : Rank(scores, v) - 1 \in first..last}}

\* The first row of around_me, kept at 0.
Window(position, radius) == IF position > radius THEN position - radius ELSE 0

\* Rows are numbered from where the slice starts.
Rows(scores, start, stop) ==
    {<<member[1], start + member[2]>> : member \in RevRange(scores, start, stop)}

Top(scores, limit) == Rows(scores, 0, limit - 1)

AroundMe(scores, user, radius) ==
    LET position == Rank(scores, user) - 1
    IN  Rows(scores, Window(position, radius), position + radius)

\* A board as a student sees it, and the neighbourhood endpoint.
Page(scores, user, limit) == [rows |-> Top(scores, limit), mine |-> Rank(scores, user)]

\* _best_month_rank, from the ledger: users who tie are not ahead.
Ahead(scores, user) == {u \in DOMAIN scores : scores[u] > scores[user]}

MonthRanks(user) ==
    {Cardinality(Ahead(RangeScores(board), user)) + 1 :
        board \in {Monthly(entries[i].day) :
                      i \in {j \in DOMAIN entries : entries[j].user = user}}}

BestMonthRank(user) == Min(MonthRanks(user))

\* growth_profile: the month's rank from the board, the best one from the ledger.
Growth(user, month) ==
    [points |-> Score(user, month), rank |-> Rank(BoardOf(month), user),
     best |-> BestMonthRank(user)]

-------------------------------------------------------------------------------
RankingTypeOK ==
    /\ \A i \in DOMAIN entries : entries[i].user \in Earners /\ entries[i].day \in Days
    /\ jobs \subseteq DOMAIN entries
    /\ \A board \in DOMAIN boards : DOMAIN boards[board] # {} /\ DOMAIN boards[board] \subseteq Earners
    /\ \A w \in Projectors : projector[w] # Idle => projector[w].written < Len(Targets(projector[w]))
    /\ rebuild # Idle => rebuild.todo \subseteq rebuild.targets
    /\ faults <= MaxFaults

\* A job that is delivered twice, retried half-way or overtaken may leave an
\* old score, never one that the ledger did not add up to at some commit.
BoardShowsSomeSum ==
    \A board \in DOMAIN boards : \A user \in DOMAIN boards[board] :
        \E n \in 1..Len(entries) : boards[board][user] = ScoreAt(user, board, n)

Backed ==
    UNION {{AllTime, Daily(entries[i].day), Monthly(entries[i].day)} : i \in DOMAIN entries}

Quiet == jobs = {} /\ rebuild = Idle /\ \A w \in Projectors : projector[w] = Idle

\* With no job waiting or running, and no fault or overlap since the last quiet
\* rebuild, the boards are those of the ledger: the same keys, members, scores.
QuietBoardsExact ==
    Quiet /\ ~disturbed => boards = [board \in Backed |-> RangeScores(board)]

\* Whatever a board holds, the rows around a member are the members at most
\* radius places away, the member included, each under its own rank; and a page
\* gives the caller the rank its rows give, when they reach so far.
NeighboursUnderTheirRank ==
    \A board \in DOMAIN boards : \A user \in DOMAIN boards[board], k \in 0..1 :
        LET scores == boards[board]
            mine   == Rank(scores, user)
            page   == Page(scores, user, k + 1)
        IN  /\ AroundMe(scores, user, k) =
                   {<<u, Rank(scores, u)>> : u \in {v \in DOMAIN scores :
                       Rank(scores, v) \in (mine - k)..(mine + k)}}
            /\ \A n \in 1..Cardinality(DOMAIN scores) :
                   <<user, n>> \in page.rows <=> n = page.mine /\ n <= k + 1

\* The best month on the growth page is never behind the month it shows.
BestMonthIsBest ==
    Quiet /\ ~disturbed =>
        \A i \in DOMAIN entries :
            LET growth == Growth(entries[i].user, Monthly(entries[i].day))
            IN  growth.best <= growth.rank

\* Through repeated, failed, overtaken and concurrent jobs and rebuilds, the
\* boards stay made of sums of the ledger, and what is read from them (the
\* neighbours, the page, the best month) agrees with what they hold.
BoardsSound ==
    /\ RankingTypeOK
    /\ BoardShowsSomeSum
    /\ QuietBoardsExact
    /\ NeighboursUnderTheirRank
    /\ BestMonthIsBest

=============================================================================
