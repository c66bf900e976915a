--------------------------------- MODULE Feedback ---------------------------------
(* Reports, votes, ratings and reactions on comments and tasks: rows that are *)
(* unique per user and target.  A service reads its row FOR UPDATE, which     *)
(* locks nothing while there is no row; two first writers meet at the unique  *)
(* constraint.                                                                *)
EXTENDS Integers, Sequences

CONSTANTS
    Reports,     \* comment, reporter and category
    Marks,       \* votes: comment and user; ratings: task and user
    Values,      \* what a mark may say; 0 takes it back
    Reactions,   \* comment, user and emoji
    Posts,       \* requests in flight
    MaxClosures, \* bound: closures asked for
    NoPost

ASSUME FeedbackAssumption == Values \subseteq Int /\ 0 \in Values /\ NoPost \notin Posts

Rows == Reports \cup Marks \cup Reactions

VARIABLES
    report,      \* status of each report, or NONE
    closures,    \* audit rows of closed reports
    mark,        \* value of each vote or rating, 0: no row
    confirmed,   \* the value the last request to commit answers
    held,        \* the values a mark has had since a request first read it
    reaction,    \* whether each reaction has its row
    rowOf,       \* the request holding a row's lock, or NoPost
    post         \* what each request has read and is about to write

feedbackVars == <<report, closures, mark, confirmed, held, reaction, rowOf, post>>

Ready == [at |-> "READY", on |-> NoPost, to |-> 0, saw |-> 0, try |-> 1]

FeedbackInit ==
    /\ report = [k \in Reports |-> "NONE"] /\ closures = <<>>
    /\ mark = [k \in Marks |-> 0] /\ confirmed = [k \in Marks |-> 0]
    /\ held = [p \in Posts |-> {}]
    /\ reaction = [k \in Reactions |-> FALSE]
    /\ rowOf = [k \in Rows |-> NoPost]
    /\ post = [p \in Posts |-> Ready]

Freed(p) == [k \in Rows |-> IF rowOf[k] = p THEN NoPost ELSE rowOf[k]]

\* A request ends, committed or rolled back, and its row is free.
Done(p) ==
    /\ post' = [post EXCEPT ![p] = Ready]
    /\ rowOf' = Freed(p)
    /\ held' = [held EXCEPT ![p] = {}]

PostDies(p) ==
    /\ post[p] # Ready /\ Done(p)
    /\ UNCHANGED <<report, closures, mark, confirmed, reaction>>

-------------------------------------------------------------------------------
(* Reports *)

\* report_comment: an existing report is returned as it is, else inserted.
FindReport(p, k) ==
    /\ post[p] = Ready /\ report[k] = "NONE"
    /\ post' = [post EXCEPT ![p] = [Ready EXCEPT !.at = "FILE", !.on = k]]
    /\ UNCHANGED <<report, closures, mark, confirmed, held, reaction, rowOf>>

\* The insert, or the unique violation that finds the winner.
FileReport(p) ==
    /\ post[p].at = "FILE"
    /\ report' = [report EXCEPT ![post[p].on] = IF @ = "NONE" THEN "OPEN" ELSE @]
    /\ Done(p) /\ UNCHANGED <<closures, mark, confirmed, reaction>>

Closing(p) == post[p].at \in {"HANDLED", "DISMISSED"}

\* _require_closable and the status test of _close: only an OPEN report goes
\* on; the same decision again answers with the row, the other one with 409.
LockReport(p, k, target) ==
    /\ post[p] = Ready /\ rowOf[k] = NoPost /\ report[k] = "OPEN"
    /\ Len(closures) < MaxClosures
    /\ rowOf' = [rowOf EXCEPT ![k] = p]
    /\ post' = [post EXCEPT ![p] = [Ready EXCEPT !.at = target, !.on = k]]
    /\ UNCHANGED <<report, closures, mark, confirmed, held, reaction>>

\* _close: the status and its audit row.
CloseReport(p) ==
    /\ Closing(p)
    /\ report' = [report EXCEPT ![post[p].on] = post[p].at]
    /\ closures' = Append(closures, [on |-> post[p].on, as |-> post[p].at])
    /\ Done(p) /\ UNCHANGED <<mark, confirmed, reaction>>

-------------------------------------------------------------------------------
(* Votes and ratings *)

\* Mutant of Found: the read locks nothing, so that a change the row already
\* shows is left out although another request changes the row before the commit.
FoundUnlocked(p, k) == rowOf[k] = NoPost /\ UNCHANGED rowOf

\* The locked read: FOR UPDATE holds a row that is there, and nothing else.
Found(p, k) ==
    /\ rowOf[k] = NoPost
    /\ rowOf' = [rowOf EXCEPT ![k] = IF mark[k] # 0 THEN p ELSE NoPost]

\* VoteService._transition and RatingService._attempt up to the locked read.
ReadMark(p, k, v) ==
    /\ post[p] = Ready /\ Found(p, k)
    /\ post' = [post EXCEPT ![p] = [at |-> "MARK", on |-> k, to |-> v, saw |-> mark[k], try |-> 1]]
    /\ held' = [held EXCEPT ![p] = {mark[k]}]
    /\ UNCHANGED <<report, closures, mark, confirmed, reaction>>

Clashes(p) ==
    post[p].at = "MARK" /\ post[p].saw = 0 /\ post[p].to # 0 /\ mark[post[p].on] # 0

\* Insert, change or delete by what was read, and the commit.  A row that says
\* the value already is left as it is, and so is one that a removal did not
\* find: there the answer is 0 even if a first vote has been committed since.
WriteMark(p) ==
    /\ post[p].at = "MARK" /\ ~Clashes(p)
    /\ mark' = [mark EXCEPT ![post[p].on] = IF post[p].saw = post[p].to THEN @ ELSE post[p].to]
    /\ confirmed' = [confirmed EXCEPT ![post[p].on] = post[p].to]
    /\ held' = [q \in Posts |-> IF held[q] # {} /\ post[q].on = post[p].on
                                THEN held[q] \cup {mark'[post[p].on]} ELSE held[q]]
    /\ rowOf' = Freed(p)
    /\ post' = [post EXCEPT ![p].at = "TELL"]
    /\ UNCHANGED <<report, closures, reaction>>

\* The answer leaves after the commit: a vote with the value asked for, a rating
\* with what its refresh finds then.
Answer(p) ==
    /\ post[p].at = "TELL" /\ Done(p)
    /\ UNCHANGED <<report, closures, mark, confirmed, reaction>>

\* The insert meets another's row: the first time the whole path is taken once
\* more, the second time the request fails.
LoseInsert(p) ==
    /\ Clashes(p)
    /\ \/ /\ post[p].try = 1
          /\ post' = [post EXCEPT ![p].at = "AGAIN", ![p].try = 2]
          /\ UNCHANGED <<held, rowOf>>
       \/ post[p].try = 2 /\ Done(p)
    /\ UNCHANGED <<report, closures, mark, confirmed, reaction>>

ReadAgain(p) ==
    /\ post[p].at = "AGAIN" /\ Found(p, post[p].on)
    /\ post' = [post EXCEPT ![p].at = "MARK", ![p].saw = mark[post[p].on]]
    /\ UNCHANGED <<report, closures, mark, confirmed, held, reaction>>

-------------------------------------------------------------------------------
(* Reactions *)

\* toggle_reaction: its first attempt judges by the row it finds.
ReadReaction(p, k) ==
    /\ post[p] = Ready /\ rowOf[k] = NoPost
    /\ post' = [post EXCEPT ![p] = [Ready EXCEPT !.at = IF reaction[k] THEN "REMOVE" ELSE "ADD",
                                                 !.on = k, !.saw = IF reaction[k] THEN 1 ELSE 0]]
    /\ rowOf' = [rowOf EXCEPT ![k] = IF reaction[k] THEN p ELSE NoPost]
    /\ UNCHANGED <<report, closures, mark, confirmed, held, reaction>>

\* Inserted, or found by the second attempt, which adds without judging.
AddReaction(p) ==
    /\ post[p].at = "ADD" /\ rowOf[post[p].on] = NoPost
    /\ reaction' = [reaction EXCEPT ![post[p].on] = TRUE]
    /\ Done(p) /\ UNCHANGED <<report, closures, mark, confirmed>>

RemoveReaction(p) ==
    /\ post[p].at = "REMOVE"
    /\ reaction' = [reaction EXCEPT ![post[p].on] = FALSE]
    /\ Done(p) /\ UNCHANGED <<report, closures, mark, confirmed>>

StanceRequests ==
    \E p \in Posts :
        \/ \E k \in Marks, v \in Values : ReadMark(p, k, v)
        \/ \E k \in Reactions : ReadReaction(p, k)

ReportRequests == \E p \in Posts, k \in Reports : FindReport(p, k)

ClosureRequests ==
    \E p \in Posts, k \in Reports, target \in {"HANDLED", "DISMISSED"} : LockReport(p, k, target)

FeedbackNext ==
    \/ StanceRequests \/ ReportRequests \/ ClosureRequests
    \/ \E p \in Posts : \/ FileReport(p) \/ CloseReport(p)
                        \/ WriteMark(p) \/ Answer(p) \/ LoseInsert(p) \/ ReadAgain(p)
                        \/ AddReaction(p) \/ RemoveReaction(p) \/ PostDies(p)

FeedbackSpec == FeedbackInit /\ [][FeedbackNext]_feedbackVars

-------------------------------------------------------------------------------
(* Properties *)

FeedbackTypeOK ==
    /\ report \in [Reports -> {"NONE", "OPEN", "HANDLED", "DISMISSED"}]
    /\ closures \in Seq([on : Reports, as : {"HANDLED", "DISMISSED"}])
    /\ mark \in [Marks -> Values] /\ confirmed \in [Marks -> Values]
    /\ held \in [Posts -> SUBSET Values]
    /\ reaction \in [Reactions -> BOOLEAN]
    /\ rowOf \in [Rows -> Posts \cup {NoPost}]
    /\ post \in [Posts -> [at : {"READY", "FILE", "HANDLED", "DISMISSED", "MARK", "AGAIN", "TELL", "ADD", "REMOVE"},
                           on : Rows \cup {NoPost}, to : Values, saw : Values \cup {0, 1},
                           try : {1, 2}]]

\* A report is closed at most once, in one sense, by whoever audited it:
\* racing closures and racing filings of the same report included
\* (report_service.py _close, report_comment).
OneClosurePerReport ==
    \A k \in Reports : LET of == {i \in DOMAIN closures : closures[i].on = k} IN
        IF report[k] \in {"NONE", "OPEN"} THEN of = {}
        ELSE \E i \in of : of = {i} /\ closures[i].as = report[k]

\* A vote or rating says what the last request to commit answers, whichever of
\* two first writers won the insert and whatever a request read before.  Only an
\* answer that the vote is taken back may differ: a removal that found no row
\* does not see a first vote committed since (vote_service.py:152,
\* rating_service.py:222).
MarkIsConfirmed == \A k \in Marks : confirmed[k] \in {mark[k], 0}

\* Every answer is true at an instant of its request, a removal's included:
\* none reports a value that the row has not had since the request read it
\* (vote_service.py:166).
AnswerWasTrue == \A p \in Posts : post[p].at = "TELL" => post[p].to \in held[p]

\* A toggle that found no reaction never leaves the comment without it: the
\* double click of one user adds once (reaction_service.py toggle_reaction).
DoubleClickAdds ==
    [][\A p \in Posts : (post[p].at = "ADD" /\ reaction' # reaction /\ post'[p] = Ready) =>
          reaction'[post[p].on]]_feedbackVars

\* Reports, votes, ratings and reactions say what their users were told, also
\* when two first writers race and one loses its insert; an answer that a vote is
\* taken back was true while its request ran.
FeedbackContract ==
    /\ [](/\ FeedbackTypeOK
          /\ OneClosurePerReport
          /\ MarkIsConfirmed
          /\ AnswerWasTrue)
    /\ DoubleClickAdds

=============================================================================
