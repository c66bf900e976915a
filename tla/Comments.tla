--------------------------------- MODULE Comments ---------------------------------
(* The comment thread of one task: replies, edits with their history,         *)
(* deletion by the owner or a moderator, and the administrator's hiding of a  *)
(* whole subtree.  A service locks its row and then saves it; replying and    *)
(* the walk over a subtree read without a lock.  A text is known by the       *)
(* request that edited it, the first one by NoTab.                            *)
EXTENDS Integers, Sequences, FiniteSets

CONSTANTS
    Writers,      \* accounts that pass the community gate
    Moderators,   \* the task's teacher and its moderating collaborators
    Admins,
    Tabs,         \* requests in flight
    MaxComments,  \* bound: comments of the thread
    MaxOpened,    \* bound: services on one row, over all comments
    NoTab

ASSUME CommentsAssumption ==
    MaxComments \in Nat /\ MaxOpened \in Nat /\ NoTab \notin Tabs /\ NoTab \notin Admins

VARIABLES
    comments,     \* the rows, numbered in order of insertion; parent 0: a root
    said,         \* every text an author was told is stored, per comment
    holder,       \* the request holding a comment's row lock, or NoTab
    tab,          \* what each request has read and is about to write
    moderation,   \* the audit rows of the moderation services
    opened        \* services on one row so far

commentVars == <<comments, said, holder, tab, moderation, opened>>

Ids == 1 .. Len(comments)
Texts == Tabs \cup {NoTab}
CommentRows == [parent : Nat, author : Writers, text : Texts, old : Seq(Texts),
                by : {"NONE", "OWNER", "MODERATOR", "ADMIN"}, hidden : BOOLEAN]
TabRows == [at : {"AWAY", "REPLY", "EDIT", "DELETE", "MODERATE", "HIDE"},
            user : Writers \cup Moderators \cup Admins \cup {NoTab}, on : 0 .. Len(comments),
            was : Texts, rows : SUBSET Ids, level : SUBSET Ids, due : SUBSET Ids]
Standing(c) == comments[c].by = "NONE"
Away == [at |-> "AWAY", user |-> NoTab, on |-> 0, was |-> NoTab, rows |-> {}, level |-> {}, due |-> {}]

Children(cs) == {c \in Ids : comments[c].parent \in cs}

\* The comments below c, itself included: those in every set that has c and,
\* with a comment, the replies to it.
Subtree(c) ==
    {d \in Ids : \A S \in SUBSET Ids : c \in S /\ Children(S) \subseteq S => d \in S}

\* What the thread shows: standing comments, and tombstones of deleted ones
\* above what is shown; never a hidden one.
Renders(c, S) ==
    ~comments[c].hidden /\ (Standing(c) \/ Children({c}) \cap S # {})
Shown ==
    {c \in Ids : \A S \in SUBSET Ids : (\A d \in Ids : Renders(d, S) => d \in S) => c \in S}

CommentInit ==
    /\ comments = <<>> /\ said = <<>> /\ holder = <<>>
    /\ tab = [t \in Tabs |-> Away]
    /\ moderation = {} /\ opened = 0

-------------------------------------------------------------------------------
(* Replies *)

\* create_comment, its reads, none of them locked: the account, the task
\* (PUBLISHED throughout), and the parent, which must not be deleted.
BeginReply(t, u, p) ==
    /\ tab[t] = Away /\ u \in Writers
    /\ p = 0 \/ (p \in Ids /\ Standing(p))
    /\ tab' = [tab EXCEPT ![t] = [Away EXCEPT !.at = "REPLY", !.user = u, !.on = p]]
    /\ UNCHANGED <<comments, said, holder, moderation, opened>>

\* The insert; the foreign key waits for whoever holds the parent's row.
InsertReply(t) ==
    /\ tab[t].at = "REPLY" /\ Len(comments) < MaxComments
    /\ tab[t].on # 0 => holder[tab[t].on] = NoTab
    /\ comments' = Append(comments, [parent |-> tab[t].on, author |-> tab[t].user, text |-> NoTab,
                                     old |-> <<>>, by |-> "NONE", hidden |-> FALSE])
    /\ said' = Append(said, <<NoTab>>)
    /\ holder' = Append(holder, NoTab)
    /\ tab' = [tab EXCEPT ![t] = Away]
    /\ UNCHANGED <<moderation, opened>>

-------------------------------------------------------------------------------
(* Services on one row *)

\* Whether the service goes on with the row it has locked.
Admits(u, c, what) ==
    \/ what \in {"EDIT", "DELETE"} /\ u = comments[c].author /\ Standing(c)
    \/ what = "MODERATE" /\ u \in Moderators /\ Standing(c)
    \/ what = "HIDE" /\ u \in Admins

\* _locked_comment and the guards after it.
OpenRow(t, u, c, what) ==
    /\ tab[t] = Away /\ holder[c] = NoTab /\ Admits(u, c, what)
    /\ opened < MaxOpened /\ opened' = opened + 1
    /\ holder' = [holder EXCEPT ![c] = t]
    /\ tab' = [tab EXCEPT ![t] = [at |-> what, user |-> u, on |-> c, was |-> comments[c].text,
                                  rows |-> {c}, level |-> {c}, due |-> Subtree(c)]]
    /\ UNCHANGED <<comments, said, moderation>>

Close(t) ==
    /\ tab' = [tab EXCEPT ![t] = Away]
    /\ holder' = [c \in DOMAIN holder |-> IF holder[c] = t THEN NoTab ELSE holder[c]]

\* edit_comment: the text it read becomes a revision.
SaveEdit(t) ==
    /\ tab[t].at = "EDIT"
    /\ LET c == tab[t].on IN
         /\ comments' = [comments EXCEPT ![c].text = t, ![c].old = Append(@, tab[t].was)]
         /\ said' = [said EXCEPT ![c] = Append(@, t)]
    /\ Close(t)
    /\ UNCHANGED <<moderation, opened>>

\* delete_own_comment
SaveOwnDelete(t) ==
    /\ tab[t].at = "DELETE"
    /\ comments' = [comments EXCEPT ![tab[t].on].by = "OWNER"]
    /\ Close(t)
    /\ UNCHANGED <<said, moderation, opened>>

\* moderate_delete_comment, with its audit row in the same transaction.
SaveModeration(t) ==
    /\ tab[t].at = "MODERATE"
    /\ comments' = [comments EXCEPT ![tab[t].on].by = "MODERATOR"]
    /\ moderation' = moderation \cup {[act |-> "DELETED", on |-> tab[t].on]}
    /\ Close(t)
    /\ UNCHANGED <<said, opened>>

\* Mutant of GatherLevel: the walk takes the direct replies for the whole subtree.
GatherLevelOnce(t) ==
    /\ tab[t].at = "HIDE" /\ tab[t].level # {}
    /\ tab' = [tab EXCEPT ![t].level = {}, ![t].rows = @ \cup Children(tab[t].level)]
    /\ UNCHANGED <<comments, said, holder, moderation, opened>>

\* admin_hard_hide_subtree: the children of one level, read without a lock.
GatherLevel(t) ==
    /\ tab[t].at = "HIDE" /\ tab[t].level # {}
    /\ tab' = [tab EXCEPT ![t].level = Children(tab[t].level),
                          ![t].rows = @ \cup Children(tab[t].level)]
    /\ UNCHANGED <<comments, said, holder, moderation, opened>>

\* All rows gathered are hidden and marked deleted, deleted already or not;
\* the updates wait for whoever holds one of them.
SaveHide(t) ==
    /\ tab[t].at = "HIDE" /\ tab[t].level = {}
    /\ \A c \in tab[t].rows : holder[c] \in {NoTab, t}
    /\ comments' = [c \in Ids |-> IF c \in tab[t].rows
                                  THEN [comments[c] EXCEPT !.by = "ADMIN", !.hidden = TRUE]
                                  ELSE comments[c]]
    /\ moderation' = moderation \cup {[act |-> "HIDDEN", on |-> tab[t].on]}
    /\ Close(t)
    /\ UNCHANGED <<said, opened>>

\* A request dies before its commit.
TabDies(t) ==
    /\ tab[t] # Away
    /\ Close(t)
    /\ UNCHANGED <<comments, said, moderation, opened>>

AuthorRequests ==
    \E t \in Tabs, u \in Writers :
        \/ \E p \in 0 .. MaxComments : BeginReply(t, u, p)
        \/ \E c \in Ids : OpenRow(t, u, c, "EDIT") \/ OpenRow(t, u, c, "DELETE")

ModerationRequests ==
    \E t \in Tabs, c \in Ids :
        \/ \E u \in Moderators : OpenRow(t, u, c, "MODERATE")
        \/ \E u \in Admins : OpenRow(t, u, c, "HIDE")

CommentNext ==
    \/ AuthorRequests \/ ModerationRequests
    \/ \E t \in Tabs : \/ InsertReply(t) \/ SaveEdit(t) \/ SaveOwnDelete(t) \/ SaveModeration(t)
                       \/ GatherLevel(t) \/ SaveHide(t) \/ TabDies(t)

CommentSpec == CommentInit /\ [][CommentNext]_commentVars

-------------------------------------------------------------------------------
(* Properties *)

CommentTypeOK ==
    /\ comments \in Seq(CommentRows) /\ \A c \in Ids : comments[c].parent \in 0 .. c - 1
    /\ said \in Seq(Seq(Texts)) /\ DOMAIN said = Ids
    /\ holder \in Seq(Texts) /\ DOMAIN holder = Ids
    /\ tab \in [Tabs -> TabRows]
    /\ opened \in 0 .. MaxOpened
    /\ moderation \subseteq [act : {"DELETED", "HIDDEN"}, on : Ids]

\* The revisions of a comment followed by its text are exactly what its author
\* was told is stored, in that order, whatever edits overlapped
\* (comment_service.py edit_comment).
HistoryComplete == \A c \in Ids : comments[c].old \o <<comments[c].text>> = said[c]

\* In what a reader is shown every comment finds its parent, unless an
\* administrator has hidden that (comment_service.py _rendered_comment_ids).
ThreadHangsTogether ==
    \A c \in Shown : LET p == comments[c].parent IN
        p # 0 => p \in Shown \/ comments[p].hidden

\* A deleted comment keeps who deleted it, also when two deletions overlap;
\* only an administrator's hiding may replace it, and that is for good
\* (comment_service.py delete_own_comment, moderate_delete_comment).
FirstDeletionStands ==
    [][\A c \in Ids : /\ comments[c].by # "NONE" => comments'[c].by \in {comments[c].by, "ADMIN"}
                      /\ comments[c].hidden => comments'[c].hidden]_commentVars

\* When a hiding ends, every comment that stood below its root when it began
\* is hidden, however deep (comment_service.py admin_hard_hide_subtree).
HidingReachesAll ==
    [][\A t \in Tabs : (tab[t].at = "HIDE" /\ comments' # comments /\ tab'[t] = Away) =>
          \A c \in tab[t].due : comments'[c].hidden]_commentVars

\* A comment a moderator removed or an administrator hid has its audit row: its
\* own, or that of the hidden comment above it (comment_service.py).
ModerationIsAudited ==
    \A c \in Ids :
        /\ comments[c].by = "MODERATOR" => [act |-> "DELETED", on |-> c] \in moderation
        /\ comments[c].hidden => \E m \in moderation : m.act = "HIDDEN" /\ c \in Subtree(m.on)

\* A thread survives overlapping edits, deletions and hidings: no text, no
\* deletion and no audit row is lost, and hiding a comment hides its replies.
CommentContract ==
    /\ [](/\ CommentTypeOK
          /\ HistoryComplete
          /\ ThreadHangsTogether
          /\ ModerationIsAudited)
    /\ FirstDeletionStands
    /\ HidingReachesAll

=============================================================================
