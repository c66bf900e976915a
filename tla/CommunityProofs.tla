---------------------------- MODULE CommunityProofs ----------------------------
(***************************************************************************)
(* Theorems about what the campus sees: the comments of a task, the         *)
(* reports, votes and reactions on them, a recruitment post and a talent    *)
(* profile.  Each has an inductive invariant relating every request to the  *)
(* rows it has read.                                                        *)
(***************************************************************************)
EXTENDS Comments, Feedback, Recruitment, Talent,
        FiniteSetTheorems, SequenceTheorems, TLAPS

-----------------------------------------------------------------------------
(* A thread of comments.                                                   *)

RowServices == {"EDIT", "DELETE", "MODERATE", "HIDE"}

\* A row's lock is with the request that works on the row.
RowLocksKept ==
    \A t \in Tabs, c \in Ids :
        holder[c] = t <=> tab[t].at \in RowServices /\ tab[t].on = c

\* What the service read of the row it holds still stands, and who replies
\* passed the gate.
RowReadStands(t) ==
    LET c == tab[t].on IN
    /\ tab[t].at \in RowServices => c \in Ids
    /\ tab[t].at \in RowServices \ {"HIDE"} => Standing(c)
    /\ tab[t].at = "EDIT" => tab[t].was = comments[c].text
    /\ tab[t].at = "REPLY" => tab[t].user \in Writers

\* The walk down a subtree: what it has gathered is of the subtree, and what
\* was there when it began is gathered once its parent has been walked over.
WalkSound(t) ==
    LET c == tab[t].on IN
    tab[t].at = "HIDE" =>
        /\ c \in tab[t].rows /\ tab[t].level \subseteq tab[t].rows
        /\ tab[t].rows \subseteq Subtree(c) /\ tab[t].due \subseteq Subtree(c)
        /\ \A d \in tab[t].due : d # c => comments[d].parent \in tab[t].due
        /\ \A d \in tab[t].due :
               comments[d].parent \in tab[t].rows \ tab[t].level => d \in tab[t].rows

CommentInv ==
    /\ CommentTypeOK
    /\ RowLocksKept
    /\ \A t \in Tabs : RowReadStands(t) /\ WalkSound(t)
    /\ HistoryComplete
    /\ ModerationIsAudited

\* Facts about the subtree of a comment.
LEMMA SubtreeFacts ==
    ASSUME CommentTypeOK, NEW c \in Ids
    PROVE  /\ c \in Subtree(c) /\ Subtree(c) \subseteq Ids
           /\ Children(Subtree(c)) \subseteq Subtree(c)
           /\ \A d \in Subtree(c) : d # c => comments[d].parent \in Subtree(c)
<1>1. c \in Subtree(c) /\ Subtree(c) \subseteq Ids BY DEF Subtree
<1>2. ASSUME NEW d \in Children(Subtree(c)) PROVE d \in Subtree(c)
  <2>1. d \in Ids /\ comments[d].parent \in Subtree(c) BY <1>2 DEF Children
  <2>2. ASSUME NEW S \in SUBSET Ids, c \in S, Children(S) \subseteq S PROVE d \in S
    <3>1. comments[d].parent \in S BY <2>1, <2>2 DEF Subtree
    <3> QED BY <2>1, <2>2, <3>1 DEF Children
  <2> QED BY <2>1, <2>2 DEF Subtree
<1>3. \A d \in Subtree(c) : d # c => comments[d].parent \in Subtree(c)
  <2> DEFINE S == {d \in Subtree(c) : d = c \/ comments[d].parent \in Subtree(c)}
  <2>1. S \in SUBSET Ids /\ c \in S BY <1>1
  <2>2. Children(S) \subseteq S BY <1>1, <1>2 DEF Children
  <2>3. \A d \in Subtree(c) : d \in S BY <2>1, <2>2 DEF Subtree
  <2> QED BY <2>3
<1> QED BY <1>1, <1>2, <1>3

\* A subtree lies in every set that has its root and is closed under replies.
LEMMA SubtreeInside ==
    ASSUME NEW c \in Ids, NEW S \in SUBSET Ids, c \in S, Children(S) \subseteq S
    PROVE  Subtree(c) \subseteq S
BY DEF Subtree

\* A thread only grows, and no comment moves: its subtrees only grow.
Grows ==
    /\ Ids \subseteq Ids'
    /\ \A d \in Ids : comments'[d].parent = comments[d].parent

LEMMA SubtreeGrows ==
    ASSUME Grows, NEW c \in Ids
    PROVE  Subtree(c) \subseteq Subtree(c)'
<1> SUFFICES ASSUME NEW d \in Subtree(c), NEW S \in SUBSET Ids', c \in S, (Children(S) \subseteq S)'
             PROVE  d \in S
  BY DEF Subtree, Grows
<1> DEFINE T == S \cap Ids
<1>1. T \in SUBSET Ids /\ c \in T OBVIOUS
<1>2. Children(T) \subseteq T BY DEF Children, Grows
<1> QED BY <1>1, <1>2 DEF Subtree

\* What is shown hangs together, whatever the rows are.
LEMMA ShownHangsTogether == CommentTypeOK => ThreadHangsTogether
<1> SUFFICES ASSUME CommentTypeOK, NEW c \in Shown, comments[c].parent # 0,
                    ~comments[comments[c].parent].hidden
             PROVE  comments[c].parent \in Shown
  BY DEF ThreadHangsTogether
<1> DEFINE p == comments[c].parent
<1>1. c \in Ids BY DEF Shown
<1>2. p \in Ids
  <2>1. Len(comments) \in Nat BY LenProperties DEF CommentTypeOK
  <2>2. p \in 0 .. c - 1 BY <1>1 DEF CommentTypeOK
  <2> QED BY <1>1, <2>1, <2>2 DEF Ids
<1>3. ASSUME NEW S \in SUBSET Ids, \A d \in Ids : Renders(d, S) => d \in S PROVE p \in S
  <2>1. c \in S BY <1>3 DEF Shown
  <2>2. c \in Children({p}) BY <1>1 DEF Children
  <2>3. Renders(p, S) BY <2>1, <2>2 DEF Renders
  <2> QED BY <1>2, <1>3, <2>3
<1> QED BY <1>2, <1>3 DEF Shown

LEMMA ThreadTyped ==
    ASSUME CommentTypeOK
    PROVE  /\ Len(comments) \in Nat /\ DOMAIN comments = Ids
           /\ Len(said) = Len(comments) /\ Len(holder) = Len(comments)
           /\ \A c \in Ids : comments[c] \in CommentRows /\ said[c] \in Seq(Texts) /\ holder[c] \in Texts
           /\ \A t \in Tabs : tab[t] \in TabRows
<1>1. Len(comments) \in Nat /\ DOMAIN comments = Ids BY LenProperties DEF CommentTypeOK, Ids
<1>2. Len(said) \in Nat /\ DOMAIN said = 1 .. Len(said) BY LenProperties DEF CommentTypeOK
<1>3. Len(holder) \in Nat /\ DOMAIN holder = 1 .. Len(holder) BY LenProperties DEF CommentTypeOK
<1>4. Len(said) = Len(comments) /\ Len(holder) = Len(comments)
  BY <1>1, <1>2, <1>3 DEF CommentTypeOK, Ids
<1>5. \A c \in Ids : comments[c] \in CommentRows /\ said[c] \in Seq(Texts) /\ holder[c] \in Texts
  BY <1>4, ElementOfSeq DEF CommentTypeOK, Ids
<1> QED BY <1>1, <1>4, <1>5 DEF CommentTypeOK

LEMMA FunctionIsSeq ==
    ASSUME NEW S, NEW n \in Nat, NEW f \in [1 .. n -> S]
    PROVE  f \in Seq(S) /\ Len(f) = n
<1>1. f \in Seq(S) BY SeqDef
<1>2. Len(f) \in Nat /\ 1 .. Len(f) = 1 .. n BY <1>1, LenProperties
<1> QED BY <1>1, <1>2

LEMMA AwayTyped == ASSUME CommentTypeOK PROVE Away \in TabRows
BY ThreadTyped DEF Away, TabRows, Texts

\* A walk no one touched goes on in a thread that grew.
LEMMA WalkStays ==
    ASSUME CommentInv, Grows, NEW t \in Tabs, tab'[t] = tab[t]
    PROVE  WalkSound(t)'
<1> SUFFICES ASSUME tab[t].at = "HIDE" PROVE WalkSound(t)' BY DEF WalkSound
<1> DEFINE c == tab[t].on
<1>1. c \in Ids /\ WalkSound(t) BY DEF CommentInv, RowReadStands, RowServices
<1>2. Subtree(c) \subseteq Subtree(c)' BY <1>1, SubtreeGrows
<1>3. tab[t].due \subseteq Ids BY <1>1 DEF WalkSound, Subtree
<1>4. \A d \in tab[t].due : comments'[d].parent = comments[d].parent BY <1>3 DEF Grows
<1> QED BY <1>1, <1>2, <1>4 DEF WalkSound

\* So does the audit row of a hidden comment.
LEMMA HidingStaysAudited ==
    ASSUME CommentTypeOK, Grows, moderation \subseteq moderation', NEW d,
           \E m \in moderation : m.act = "HIDDEN" /\ d \in Subtree(m.on)
    PROVE  \E m \in moderation' : m.act = "HIDDEN" /\ d \in Subtree(m.on)'
<1>1. PICK m \in moderation : m.act = "HIDDEN" /\ d \in Subtree(m.on) OBVIOUS
<1>2. m.on \in Ids BY DEF CommentTypeOK
<1>3. PICK r \in Ids : r = m.on BY <1>2
<1>4. d \in Subtree(r)' BY <1>1, <1>3, SubtreeGrows
<1> QED BY <1>1, <1>3, <1>4

\* A request that ends lets go of its row, and disturbs only the rows it wrote.
LEMMA ClosingKeeps ==
    ASSUME CommentInv, NEW t \in Tabs, Close(t), NEW R \in SUBSET Ids,
           Len(comments') = Len(comments),
           \A c \in R : holder[c] \in {NoTab, t},
           \A c \in Ids \ R : comments'[c] = comments[c],
           \A c \in Ids : comments'[c].parent = comments[c].parent
    PROVE  /\ holder' \in Seq(Texts) /\ DOMAIN holder' = Ids'
           /\ (tab \in [Tabs -> TabRows])'
           /\ RowLocksKept'
           /\ \A o \in Tabs : RowReadStands(o)' /\ WalkSound(o)'
           /\ tab'[t] = Away /\ \A o \in Tabs \ {t} : tab'[o] = tab[o]
           /\ Ids' = Ids /\ Grows
<1>1. /\ CommentTypeOK /\ Len(comments) \in Nat /\ Ids' = Ids /\ Ids = 1 .. Len(comments)
      /\ NoTab \notin Tabs
  BY ThreadTyped, CommentsAssumption DEF CommentInv, Ids
<1>2. Grows BY <1>1 DEF Grows
<1>3. tab'[t] = Away /\ \A o \in Tabs \ {t} : tab'[o] = tab[o] BY <1>1 DEF Close, CommentTypeOK
<1>4. (tab \in [Tabs -> TabRows])'
  <2>1. TabRows' = TabRows BY <1>1 DEF TabRows
  <2> QED BY <1>1, <2>1, AwayTyped DEF Close, CommentTypeOK
<1>5. \A c \in Ids : holder'[c] = IF holder[c] = t THEN NoTab ELSE holder[c]
  BY <1>1 DEF Close, CommentTypeOK
<1>6. holder' \in Seq(Texts) /\ DOMAIN holder' = Ids'
  <2>1. holder' \in [1 .. Len(comments) -> Texts]
    BY <1>1, ThreadTyped DEF Close, CommentTypeOK, Texts
  <2> QED BY <1>1, <2>1, FunctionIsSeq
<1>7. RowLocksKept'
  <2> SUFFICES ASSUME NEW o \in Tabs, NEW c \in Ids
               PROVE  holder'[c] = o <=> tab'[o].at \in RowServices /\ tab'[o].on = c
    BY <1>1 DEF RowLocksKept
  <2>1. CASE o = t BY <1>1, <1>3, <1>5, <2>1 DEF Away, RowServices
  <2>2. CASE o # t BY <1>1, <1>3, <1>5, <2>2 DEF CommentInv, RowLocksKept
  <2> QED BY <2>1, <2>2
<1>8. ASSUME NEW o \in Tabs PROVE RowReadStands(o)' /\ WalkSound(o)'
  <2>1. CASE o = t BY <1>3, <2>1 DEF Away, RowReadStands, WalkSound, RowServices
  <2>2. CASE o # t
    <3>1. tab'[o] = tab[o] /\ RowReadStands(o) BY <1>3, <2>2 DEF CommentInv
    <3>2. tab[o].at \in RowServices => tab[o].on \in Ids \ R
      <4> HAVE tab[o].at \in RowServices
      <4>1. tab[o].on \in Ids BY <3>1 DEF RowReadStands
      <4>2. holder[tab[o].on] = o BY <4>1 DEF CommentInv, RowLocksKept
      <4> QED BY <1>1, <2>2, <4>1, <4>2
    <3>3. RowReadStands(o)'
      BY <1>1, <3>1, <3>2 DEF RowReadStands, RowServices, Standing
    <3> QED BY <1>2, <3>1, <3>3, WalkStays
  <2> QED BY <2>1, <2>2
<1> QED BY <1>1, <1>2, <1>3, <1>4, <1>6, <1>7, <1>8

\* What the action properties say of a step.
DeletionsStand ==
    \A c \in Ids : /\ comments[c].by # "NONE" => comments'[c].by \in {comments[c].by, "ADMIN"}
                   /\ comments[c].hidden => comments'[c].hidden
HidingsReach ==
    \A t \in Tabs : (tab[t].at = "HIDE" /\ comments' # comments /\ tab'[t] = Away) =>
        \A c \in tab[t].due : comments'[c].hidden
CommentSteps == CommentInv' /\ DeletionsStand /\ HidingsReach

\* A step that writes no comment.
LEMMA QuietStep ==
    ASSUME CommentInv, UNCHANGED <<comments, said, moderation>>,
           (tab \in [Tabs -> TabRows])', holder' \in Seq(Texts), DOMAIN holder' = Ids,
           opened' \in 0 .. MaxOpened, RowLocksKept',
           \A t \in Tabs : RowReadStands(t)' /\ WalkSound(t)'
    PROVE  CommentSteps
<1>1. Ids' = Ids BY DEF Ids
<1>2. CommentTypeOK' BY <1>1 DEF CommentInv, CommentTypeOK, CommentRows
<1>3. HistoryComplete' BY <1>1 DEF CommentInv, HistoryComplete
<1>4. Grows BY <1>1 DEF Grows
<1>5. ModerationIsAudited'
  BY <1>1, <1>4, HidingStaysAudited DEF CommentInv, ModerationIsAudited
<1>6. DeletionsStand /\ HidingsReach BY DEF DeletionsStand, HidingsReach
<1> QED BY <1>2, <1>3, <1>5, <1>6 DEF CommentSteps, CommentInv

LEMMA ThreadStart == CommentInit => CommentInv
<1> SUFFICES ASSUME CommentInit PROVE CommentInv OBVIOUS
<1>1. comments = <<>> /\ said = <<>> /\ holder = <<>> /\ Len(comments) = 0 /\ Ids = {}
  <2>1. comments = <<>> /\ said = <<>> /\ holder = <<>> BY DEF CommentInit
  <2>2. Len(comments) = 0 BY <2>1, EmptySeq
  <2> QED BY <2>1, <2>2 DEF Ids
<1>2. \A t \in Tabs : tab[t] = Away BY DEF CommentInit
<1>3. CommentTypeOK
  <2>1. comments \in Seq(CommentRows) /\ said \in Seq(Seq(Texts)) /\ holder \in Seq(Texts)
    BY <1>1, EmptySeq
  <2>2. DOMAIN said = Ids /\ DOMAIN holder = Ids BY <1>1, <2>1, LenProperties DEF Ids
  <2>3. Away \in TabRows BY <1>1 DEF Away, TabRows, Texts
  <2> QED BY <1>1, <2>1, <2>2, <2>3, CommentsAssumption DEF CommentInit, CommentTypeOK
<1>4. RowLocksKept BY <1>1 DEF RowLocksKept
<1>5. \A t \in Tabs : RowReadStands(t) /\ WalkSound(t)
  BY <1>2 DEF Away, RowReadStands, WalkSound, RowServices
<1>6. HistoryComplete /\ ModerationIsAudited BY <1>1 DEF HistoryComplete, ModerationIsAudited
<1> QED BY <1>3, <1>4, <1>5, <1>6 DEF CommentInv

LEMMA BeginReplyStep ==
    ASSUME CommentInv, NEW t \in Tabs, NEW u, NEW p \in 0 .. MaxComments, BeginReply(t, u, p)
    PROVE  CommentSteps
<1> DEFINE reply == [Away EXCEPT !.at = "REPLY", !.user = u, !.on = p]
<1>1. /\ CommentTypeOK /\ tab[t] = Away /\ u \in Writers /\ tab' = [tab EXCEPT ![t] = reply]
      /\ UNCHANGED <<comments, said, holder, moderation, opened>> /\ p \in 0 .. Len(comments)
      /\ Len(comments) \in Nat
  BY ThreadTyped DEF BeginReply, CommentInv, Ids
<1>2. reply \in TabRows /\ reply.at = "REPLY" /\ reply.user = u
  BY <1>1 DEF Away, TabRows, Texts
<1> HIDE DEF reply
<1>3. \A o \in Tabs : tab'[o] = IF o = t THEN reply ELSE tab[o] BY <1>1 DEF CommentTypeOK
<1>4. Ids' = Ids /\ TabRows' = TabRows BY <1>1 DEF Ids, TabRows
<1>5. (tab \in [Tabs -> TabRows])' BY <1>1, <1>2, <1>4 DEF CommentTypeOK
<1>6. RowLocksKept'
  BY <1>1, <1>2, <1>3, <1>4 DEF CommentInv, RowLocksKept, RowServices, Away
<1>7. ASSUME NEW o \in Tabs PROVE RowReadStands(o)' /\ WalkSound(o)'
  <2>1. CASE o = t BY <1>1, <1>2, <1>3, <2>1 DEF RowReadStands, WalkSound, RowServices
  <2>2. CASE o # t
    <3>1. tab'[o] = tab[o] /\ RowReadStands(o) /\ Grows BY <1>1, <1>3, <1>4, <2>2 DEF CommentInv, Grows
    <3>2. comments' = comments BY <1>1
    <3>3. RowReadStands(o)' BY <1>4, <3>1, <3>2 DEF RowReadStands, Standing
    <3> QED BY <3>1, <3>3, WalkStays
  <2> QED BY <2>1, <2>2
<1> QED BY <1>1, <1>4, <1>5, <1>6, <1>7, QuietStep DEF CommentTypeOK

LEMMA OpenRowStep ==
    ASSUME CommentInv, NEW t \in Tabs, NEW u, NEW c \in Ids, NEW what \in RowServices,
           u \in Writers \cup Moderators \cup Admins, OpenRow(t, u, c, what)
    PROVE  CommentSteps
<1> DEFINE call == [at |-> what, user |-> u, on |-> c, was |-> comments[c].text,
                    rows |-> {c}, level |-> {c}, due |-> Subtree(c)]
<1>1. /\ CommentTypeOK /\ tab[t] = Away /\ holder[c] = NoTab /\ Admits(u, c, what)
      /\ opened' \in 0 .. MaxOpened
      /\ holder' = [holder EXCEPT ![c] = t] /\ tab' = [tab EXCEPT ![t] = call]
      /\ UNCHANGED <<comments, said, moderation>>
      /\ Len(comments) \in Nat /\ Ids = 1 .. Len(comments) /\ NoTab \notin Tabs
  BY ThreadTyped, CommentsAssumption DEF OpenRow, CommentInv, Ids, CommentTypeOK
<1>2. c \in Subtree(c) /\ Subtree(c) \subseteq Ids /\ \A d \in Subtree(c) : d # c => comments[d].parent \in Subtree(c)
  BY <1>1, SubtreeFacts
<1>3. /\ call \in TabRows /\ call.at = what /\ call.on = c /\ call.was = comments[c].text
      /\ call.rows = {c} /\ call.level = {c} /\ call.due = Subtree(c)
  <2>1. comments[c].text \in Texts BY <1>1, ThreadTyped DEF CommentRows
  <2>2. what \in {"EDIT", "DELETE", "MODERATE", "HIDE"} /\ c \in 0 .. Len(comments)
        /\ {c} \in SUBSET Ids /\ Subtree(c) \in SUBSET Ids
    BY <1>1, <1>2 DEF RowServices
  <2> QED BY <2>1, <2>2 DEF TabRows
<1> HIDE DEF call
<1>4. \A o \in Tabs : tab'[o] = IF o = t THEN call ELSE tab[o] BY <1>1 DEF CommentTypeOK
<1>5. Ids' = Ids /\ TabRows' = TabRows /\ Grows BY <1>1 DEF Ids, TabRows, Grows
<1>6. (tab \in [Tabs -> TabRows])' BY <1>1, <1>3, <1>5 DEF CommentTypeOK
<1>7. /\ holder' \in Seq(Texts) /\ DOMAIN holder' = Ids
      /\ \A d \in Ids : holder'[d] = IF d = c THEN t ELSE holder[d]
  <2>1. holder \in Seq(Texts) /\ Len(holder) = Len(comments) BY <1>1, ThreadTyped DEF CommentTypeOK
  <2> QED BY <1>1, <2>1, ExceptSeq DEF Texts, CommentTypeOK
<1>8. RowLocksKept'
  <2> SUFFICES ASSUME NEW o \in Tabs, NEW d \in Ids
               PROVE  holder'[d] = o <=> tab'[o].at \in RowServices /\ tab'[o].on = d
    BY <1>5 DEF RowLocksKept
  <2>1. holder[d] = o <=> tab[o].at \in RowServices /\ tab[o].on = d BY DEF CommentInv, RowLocksKept
  <2>2. CASE o = t BY <1>1, <1>3, <1>4, <1>7, <2>1, <2>2 DEF Away, RowServices
  <2>3. CASE o # t BY <1>1, <1>4, <1>7, <2>1, <2>3
  <2> QED BY <2>2, <2>3
<1>9. ASSUME NEW o \in Tabs PROVE RowReadStands(o)' /\ WalkSound(o)'
  <2>1. CASE o = t
    <3>1. tab'[o] = call BY <1>4, <2>1
    <3>2. what # "HIDE" => Standing(c) BY <1>1 DEF Admits
    <3>3. RowReadStands(o)' BY <1>1, <1>3, <1>5, <3>1, <3>2 DEF RowReadStands, Standing, RowServices
    <3>4. Subtree(c) \subseteq Subtree(c)' BY <1>5, SubtreeGrows
    <3>5. \A d \in Subtree(c) : d # c => comments'[d].parent \in Subtree(c) BY <1>1, <1>2
    <3>6. WalkSound(o)' BY <1>2, <1>3, <3>1, <3>4, <3>5 DEF WalkSound
    <3> QED BY <3>3, <3>6
  <2>2. CASE o # t
    <3>1. tab'[o] = tab[o] /\ RowReadStands(o) BY <1>4, <2>2 DEF CommentInv
    <3>2. RowReadStands(o)' BY <1>1, <1>5, <3>1 DEF RowReadStands, Standing
    <3> QED BY <1>5, <3>1, <3>2, WalkStays
  <2> QED BY <2>1, <2>2
<1> QED BY <1>1, <1>6, <1>7, <1>8, <1>9, QuietStep

LEMMA GatherLevelStep ==
    ASSUME CommentInv, NEW t \in Tabs, GatherLevel(t)
    PROVE  CommentSteps
<1>0. PICK c \in Ids : c = tab[t].on
  BY DEF GatherLevel, CommentInv, RowReadStands, RowServices
<1> DEFINE next == Children(tab[t].level)
           call == [tab[t] EXCEPT !.level = next, !.rows = @ \cup next]
<1>1. /\ CommentTypeOK /\ tab[t].at = "HIDE" /\ tab[t] \in TabRows /\ tab' = [tab EXCEPT ![t] = call]
      /\ UNCHANGED <<comments, said, holder, moderation, opened>>
  BY ThreadTyped DEF GatherLevel, CommentInv
<1>2. next \subseteq Ids BY DEF Children
<1>3. /\ call \in TabRows /\ call.at = "HIDE" /\ call.on = c /\ call.due = tab[t].due
      /\ call.was = tab[t].was /\ call.level = next /\ call.rows = tab[t].rows \cup next
  BY <1>0, <1>1, <1>2 DEF TabRows
<1> HIDE DEF call
<1>4. \A o \in Tabs : tab'[o] = IF o = t THEN call ELSE tab[o] BY <1>1 DEF CommentTypeOK
<1>5. Ids' = Ids /\ TabRows' = TabRows /\ Grows BY <1>1 DEF Ids, TabRows, Grows
<1>6. (tab \in [Tabs -> TabRows])' BY <1>1, <1>3, <1>5 DEF CommentTypeOK
<1>7. RowLocksKept'
  <2>1. \A o \in Tabs : tab'[o].at = tab[o].at /\ tab'[o].on = tab[o].on BY <1>0, <1>1, <1>3, <1>4
  <2>2. holder' = holder /\ Ids' = Ids /\ RowLocksKept BY <1>1, <1>5 DEF CommentInv
  <2> QED BY <2>1, <2>2 DEF RowLocksKept
<1>8. ASSUME NEW o \in Tabs PROVE RowReadStands(o)' /\ WalkSound(o)'
  <2>1. CASE o = t
    <3>1. RowReadStands(t) /\ WalkSound(t) /\ c = tab[t].on
      BY <1>0, <1>1 DEF CommentInv, RowReadStands, RowServices
    <3>2. RowReadStands(o)'
      <4>1. tab'[o].at = "HIDE" /\ tab'[o].on \in Ids' BY <1>0, <1>3, <1>4, <1>5, <2>1
      <4> QED BY <4>1 DEF RowReadStands, RowServices
    <3>3. Subtree(c) \subseteq Subtree(c)' BY <1>5, <3>1, SubtreeGrows
    <3>4. next \subseteq Subtree(c)
      BY <1>1, <3>1, SubtreeFacts DEF WalkSound, Children
    <3>5. ASSUME NEW d \in tab[t].due, comments[d].parent \in call.rows \ next
          PROVE  d \in call.rows
      <4>1. comments[d].parent \in tab[t].rows BY <1>3, <3>5
      <4>2. d \in Ids BY <1>1, <3>1 DEF WalkSound, Subtree
      <4>3. CASE comments[d].parent \in tab[t].level
        <5>1. d \in next BY <4>2, <4>3 DEF Children
        <5> QED BY <1>3, <5>1
      <4>4. CASE comments[d].parent \notin tab[t].level BY <1>1, <1>3, <3>1, <4>1, <4>4 DEF WalkSound
      <4> QED BY <4>3, <4>4
    <3>6. WalkSound(o)'
      BY <1>1, <1>3, <1>4, <2>1, <3>1, <3>3, <3>4, <3>5 DEF WalkSound
    <3> QED BY <3>2, <3>6
  <2>2. CASE o # t
    <3>1. tab'[o] = tab[o] /\ RowReadStands(o) BY <1>4, <2>2 DEF CommentInv
    <3>2. RowReadStands(o)' BY <1>1, <1>5, <3>1 DEF RowReadStands, Standing
    <3> QED BY <1>5, <3>1, <3>2, WalkStays
  <2> QED BY <2>1, <2>2
<1> QED BY <1>1, <1>5, <1>6, <1>7, <1>8, QuietStep DEF CommentTypeOK

LEMMA TabDiesStep ==
    ASSUME CommentInv, NEW t \in Tabs, TabDies(t)
    PROVE  CommentSteps
<1>1. Close(t) /\ UNCHANGED <<comments, said, moderation, opened>> BY DEF TabDies
<1>2. /\ holder' \in Seq(Texts) /\ DOMAIN holder' = Ids'
      /\ (tab \in [Tabs -> TabRows])' /\ RowLocksKept'
      /\ \A o \in Tabs : RowReadStands(o)' /\ WalkSound(o)'
      /\ Ids' = Ids
  <2> DEFINE R == {}
  <2>1. R \in SUBSET Ids OBVIOUS
  <2> HIDE DEF R
  <2> QED BY <1>1, <2>1, ClosingKeeps DEF R
<1> QED BY <1>1, <1>2, QuietStep DEF CommentInv, CommentTypeOK

\* A reply is written below a comment that stood when it was read.
LEMMA InsertReplyStep ==
    ASSUME CommentInv, NEW t \in Tabs, InsertReply(t)
    PROVE  CommentSteps
<1> DEFINE n == Len(comments)
           entry == [parent |-> tab[t].on, author |-> tab[t].user, text |-> NoTab,
                     old |-> <<>>, by |-> "NONE", hidden |-> FALSE]
<1>1. /\ CommentTypeOK /\ tab[t].at = "REPLY" /\ tab[t] \in TabRows
      /\ comments' = Append(comments, entry) /\ said' = Append(said, <<NoTab>>)
      /\ holder' = Append(holder, NoTab) /\ tab' = [tab EXCEPT ![t] = Away]
      /\ UNCHANGED <<moderation, opened>>
      /\ n \in Nat /\ Len(said) = n /\ Len(holder) = n /\ Ids = 1 .. n /\ NoTab \notin Tabs
  BY ThreadTyped, CommentsAssumption DEF InsertReply, CommentInv, Ids
<1>2. entry \in CommentRows /\ tab[t].on \in 0 .. n
  <2>1. tab[t].on \in 0 .. n /\ tab[t].user \in Writers
    BY <1>1 DEF TabRows, CommentInv, RowReadStands
  <2>2. <<>> \in Seq(Texts) BY EmptySeq
  <2> QED BY <1>1, <2>1, <2>2 DEF CommentRows, Texts
<1>3. PICK new \in CommentRows : new = entry BY <1>2
<1>4. PICK c \in Nat : c = n + 1 BY <1>1
<1> HIDE DEF entry
<1>5. /\ comments' \in Seq(CommentRows) /\ Len(comments') = n + 1 /\ Ids' = Ids \cup {c}
      /\ c \notin Ids /\ comments'[c] = new /\ \A d \in Ids : comments'[d] = comments[d]
  <2>1. comments \in Seq(CommentRows) /\ comments' = Append(comments, new)
    BY <1>1, <1>3 DEF CommentTypeOK
  <2>2. comments' \in Seq(CommentRows) /\ Len(comments') = n + 1 /\ comments'[n + 1] = new
        /\ \A d \in 1 .. n : comments'[d] = comments[d]
    BY <2>1, AppendProperties
  <2> QED BY <1>1, <1>4, <2>2 DEF Ids
<1>6. /\ said' \in Seq(Seq(Texts)) /\ DOMAIN said' = Ids' /\ said'[c] = <<NoTab>>
      /\ \A d \in Ids : said'[d] = said[d]
  <2>1. said \in Seq(Seq(Texts)) /\ <<NoTab>> \in Seq(Texts) BY <1>1 DEF CommentTypeOK, Texts
  <2>2. said' \in Seq(Seq(Texts)) /\ Len(said') = n + 1 /\ said'[n + 1] = <<NoTab>>
        /\ \A d \in 1 .. n : said'[d] = said[d]
    BY <1>1, <2>1, AppendProperties
  <2>3. DOMAIN said' = 1 .. n + 1 BY <2>2, LenProperties
  <2> QED BY <1>1, <1>4, <1>5, <2>2, <2>3
<1>7. /\ holder' \in Seq(Texts) /\ DOMAIN holder' = Ids' /\ holder'[c] = NoTab
      /\ \A d \in Ids : holder'[d] = holder[d]
  <2>1. holder \in Seq(Texts) /\ NoTab \in Texts BY <1>1 DEF CommentTypeOK, Texts
  <2>2. holder' \in Seq(Texts) /\ Len(holder') = n + 1 /\ holder'[n + 1] = NoTab
        /\ \A d \in 1 .. n : holder'[d] = holder[d]
    BY <1>1, <2>1, AppendProperties
  <2>3. DOMAIN holder' = 1 .. n + 1 BY <2>2, LenProperties
  <2> QED BY <1>1, <1>4, <1>5, <2>2, <2>3
<1>8. Grows BY <1>5 DEF Grows
<1>9. \A o \in Tabs : tab'[o] = IF o = t THEN Away ELSE tab[o] BY <1>1 DEF CommentTypeOK
<1>10. (tab \in [Tabs -> TabRows])'
  <2>1. TabRows \subseteq TabRows' BY <1>1, <1>5 DEF TabRows
  <2> QED BY <1>1, <2>1, AwayTyped DEF CommentTypeOK
<1>11. \A d \in Ids' : comments'[d].parent \in 0 .. d - 1
  BY <1>1, <1>2, <1>3, <1>4, <1>5 DEF CommentTypeOK, entry
<1>12. CommentTypeOK'
  BY <1>1, <1>5, <1>6, <1>7, <1>10, <1>11 DEF CommentTypeOK, CommentRows
<1>13. RowLocksKept'
  <2> SUFFICES ASSUME NEW o \in Tabs, NEW d \in Ids'
               PROVE  holder'[d] = o <=> tab'[o].at \in RowServices /\ tab'[o].on = d
    BY DEF RowLocksKept
  <2>1. tab[o] \in TabRows /\ RowReadStands(o) BY <1>1, ThreadTyped DEF CommentInv
  <2>2. CASE d = c
    <3>1. tab'[o].at \in RowServices => tab'[o].on \in Ids
      BY <1>9, <2>1 DEF RowReadStands, RowServices, Away
    <3> QED BY <1>1, <1>5, <1>7, <2>2, <3>1
  <2>3. CASE d # c
    <3>1. d \in Ids /\ holder'[d] = holder[d] BY <1>5, <1>7, <2>3
    <3>2. holder[d] = o <=> tab[o].at \in RowServices /\ tab[o].on = d
      BY <3>1 DEF CommentInv, RowLocksKept
    <3>3. o = t => tab[o].at \notin RowServices /\ tab'[o].at \notin RowServices
      BY <1>1, <1>9 DEF Away, RowServices
    <3> QED BY <1>9, <3>1, <3>2, <3>3
  <2> QED BY <2>2, <2>3
<1>14. ASSUME NEW o \in Tabs PROVE RowReadStands(o)' /\ WalkSound(o)'
  <2>1. CASE o = t BY <1>9, <2>1 DEF RowReadStands, WalkSound, RowServices, Away
  <2>2. CASE o # t
    <3>1. tab'[o] = tab[o] /\ RowReadStands(o) BY <1>9, <2>2 DEF CommentInv
    <3>2. RowReadStands(o)' BY <1>5, <3>1 DEF RowReadStands, Standing, RowServices
    <3> QED BY <1>8, <3>1, <3>2, WalkStays
  <2> QED BY <2>1, <2>2
<1>15. HistoryComplete'
  <2> SUFFICES ASSUME NEW d \in Ids' PROVE comments'[d].old \o <<comments'[d].text>> = said'[d]
    BY DEF HistoryComplete
  <2>1. CASE d = c
    <3>1. comments'[d].old = <<>> /\ comments'[d].text = NoTab BY <1>3, <1>5, <2>1 DEF entry
    <3>2. <<NoTab>> \in Seq(Texts) BY DEF Texts
    <3>3. <<>> \o <<NoTab>> = <<NoTab>> BY <3>2, ConcatEmptySeq
    <3> QED BY <1>6, <2>1, <3>1, <3>3
  <2>2. CASE d # c BY <1>5, <1>6, <2>2 DEF CommentInv, HistoryComplete
  <2> QED BY <2>1, <2>2
<1>16. ModerationIsAudited'
  <2> SUFFICES ASSUME NEW d \in Ids'
               PROVE  /\ comments'[d].by = "MODERATOR" => [act |-> "DELETED", on |-> d] \in moderation'
                      /\ comments'[d].hidden => \E m \in moderation' : m.act = "HIDDEN" /\ d \in Subtree(m.on)'
    BY DEF ModerationIsAudited
  <2>1. CASE d = c BY <1>3, <1>5, <2>1 DEF entry
  <2>2. CASE d # c
    <3>1. d \in Ids /\ comments'[d] = comments[d] BY <1>5, <2>2
    <3>2. comments[d].hidden => \E m \in moderation : m.act = "HIDDEN" /\ d \in Subtree(m.on)
      BY <3>1 DEF CommentInv, ModerationIsAudited
    <3> QED BY <1>1, <1>8, <3>1, <3>2, HidingStaysAudited DEF CommentInv, ModerationIsAudited
  <2> QED BY <2>1, <2>2
<1>17. DeletionsStand
  <2>1. \A d \in Ids : comments[d] \in CommentRows BY <1>1, ThreadTyped
  <2> QED BY <1>5, <2>1 DEF DeletionsStand, CommentRows
<1>18. HidingsReach
  <2> SUFFICES ASSUME NEW o \in Tabs, tab[o].at = "HIDE", tab'[o] = Away PROVE FALSE
    BY DEF HidingsReach
  <2>1. o # t /\ tab'[o] = tab[o] BY <1>1, <1>9
  <2> QED BY <2>1 DEF Away
<1> QED BY <1>12, <1>13, <1>14, <1>15, <1>16, <1>17, <1>18 DEF CommentSteps, CommentInv

\* What any service that has one row leaves of the thread.
LEMMA OneRowStep ==
    ASSUME CommentInv, NEW t \in Tabs, NEW c \in Ids, NEW entry \in CommentRows,
           c = tab[t].on, tab[t].at \in RowServices \ {"HIDE"}, Close(t),
           comments' = [comments EXCEPT ![c] = entry],
           entry.parent = comments[c].parent, entry.hidden = comments[c].hidden,
           said' \in Seq(Seq(Texts)), DOMAIN said' = Ids,
           \A d \in Ids \ {c} : said'[d] = said[d], entry.old \o <<entry.text>> = said'[c],
           moderation \subseteq moderation',
           moderation' \subseteq [act : {"DELETED", "HIDDEN"}, on : Ids],
           entry.by = "MODERATOR" => [act |-> "DELETED", on |-> c] \in moderation',
           opened' = opened
    PROVE  CommentSteps
<1>1. /\ CommentTypeOK /\ Len(comments) \in Nat /\ Ids = 1 .. Len(comments)
      /\ RowReadStands(t) /\ holder[c] = t
  BY ThreadTyped DEF CommentInv, RowLocksKept, Ids
<1>2. /\ comments' \in Seq(CommentRows) /\ Len(comments') = Len(comments)
      /\ \A d \in Ids : comments'[d] = IF d = c THEN entry ELSE comments[d]
  <2>1. comments \in Seq(CommentRows) BY <1>1 DEF CommentTypeOK
  <2> QED BY <1>1, <2>1, ExceptSeq
<1>3. /\ holder' \in Seq(Texts) /\ DOMAIN holder' = Ids'
      /\ (tab \in [Tabs -> TabRows])' /\ RowLocksKept'
      /\ \A o \in Tabs : RowReadStands(o)' /\ WalkSound(o)'
      /\ tab'[t] = Away /\ \A o \in Tabs \ {t} : tab'[o] = tab[o]
      /\ Ids' = Ids /\ Grows
  <2> DEFINE R == {c}
  <2>1. R \in SUBSET Ids /\ \A d \in R : holder[d] \in {NoTab, t} BY <1>1
  <2>2. \A d \in Ids \ R : comments'[d] = comments[d] BY <1>2
  <2>3. \A d \in Ids : comments'[d].parent = comments[d].parent BY <1>2
  <2> HIDE DEF R
  <2> QED BY <1>2, <2>1, <2>2, <2>3, ClosingKeeps
<1>4. CommentTypeOK'
  <2>1. \A d \in Ids : comments'[d].parent \in 0 .. d - 1
    <3>1. \A d \in Ids : comments[d].parent \in 0 .. d - 1 BY <1>1 DEF CommentTypeOK
    <3>2. \A d \in Ids : comments'[d].parent = comments[d].parent BY <1>2
    <3> QED BY <3>1, <3>2
  <2>2. (comments \in Seq(CommentRows))' BY <1>2 DEF CommentRows, Texts
  <2>3. (moderation \subseteq [act : {"DELETED", "HIDDEN"}, on : Ids])' BY <1>3
  <2>4. opened' \in 0 .. MaxOpened BY <1>1 DEF CommentTypeOK
  <2> QED BY <1>3, <2>1, <2>2, <2>3, <2>4 DEF CommentTypeOK
<1>5. HistoryComplete'
  <2> SUFFICES ASSUME NEW d \in Ids PROVE comments'[d].old \o <<comments'[d].text>> = said'[d]
    BY <1>3 DEF HistoryComplete
  <2>1. CASE d = c
    <3>1. comments'[d] = entry BY <1>2, <2>1
    <3> QED BY <2>1, <3>1
  <2>2. CASE d # c
    <3>1. comments'[d] = comments[d] /\ said'[d] = said[d] BY <1>2, <2>2
    <3> QED BY <3>1 DEF CommentInv, HistoryComplete
  <2> QED BY <2>1, <2>2
<1>6. ModerationIsAudited'
  <2> SUFFICES ASSUME NEW d \in Ids
               PROVE  /\ comments'[d].by = "MODERATOR" => [act |-> "DELETED", on |-> d] \in moderation'
                      /\ comments'[d].hidden => \E m \in moderation' : m.act = "HIDDEN" /\ d \in Subtree(m.on)'
    BY <1>3 DEF ModerationIsAudited
  <2>1. comments'[d].hidden => comments[d].hidden BY <1>2
  <2>2. comments[d].hidden => \E m \in moderation : m.act = "HIDDEN" /\ d \in Subtree(m.on)
    BY DEF CommentInv, ModerationIsAudited
  <2>3. comments'[d].by = "MODERATOR" => [act |-> "DELETED", on |-> d] \in moderation'
    BY <1>2 DEF CommentInv, ModerationIsAudited
  <2> QED BY <1>1, <1>3, <2>1, <2>2, <2>3, HidingStaysAudited
<1>7. DeletionsStand
  <2>1. Standing(c) BY <1>1 DEF RowReadStands
  <2> QED BY <1>2, <2>1 DEF DeletionsStand, Standing
<1>8. HidingsReach
  <2> SUFFICES ASSUME NEW o \in Tabs, tab[o].at = "HIDE", tab'[o] = Away PROVE FALSE
    BY DEF HidingsReach
  <2>1. o # t /\ tab'[o] = tab[o] BY <1>3
  <2> QED BY <2>1 DEF Away
<1> QED BY <1>3, <1>4, <1>5, <1>6, <1>7, <1>8 DEF CommentSteps, CommentInv

\* The text an edit replaces is the one it read: no other request could write
\* the row meanwhile.
LEMMA SaveEditStep ==
    ASSUME CommentInv, NEW t \in Tabs, SaveEdit(t)
    PROVE  CommentSteps
<1>0. PICK c \in Ids : c = tab[t].on
  BY DEF SaveEdit, CommentInv, RowReadStands, RowServices
<1>1. /\ CommentTypeOK /\ tab[t].at = "EDIT" /\ Close(t) /\ UNCHANGED <<moderation, opened>>
      /\ comments' = [comments EXCEPT ![c].text = t, ![c].old = Append(@, tab[t].was)]
      /\ said' = [said EXCEPT ![c] = Append(@, t)]
      /\ Len(comments) \in Nat /\ Len(said) = Len(comments) /\ Ids = 1 .. Len(comments)
      /\ comments[c] \in CommentRows /\ said[c] \in Seq(Texts)
      /\ Standing(c) /\ tab[t].was = comments[c].text
  <2>1. RowReadStands(t) /\ CommentTypeOK BY DEF CommentInv
  <2> QED BY <1>0, <2>1, ThreadTyped DEF SaveEdit, RowReadStands, RowServices, Ids
<1> DEFINE old == Append(comments[c].old, comments[c].text)
           entry == [comments[c] EXCEPT !.text = t, !.old = old]
<1>2. comments' = [comments EXCEPT ![c] = entry] BY <1>1, ThreadTyped
<1>3. old \in Seq(Texts) /\ old = comments[c].old \o <<comments[c].text>>
  <2>1. comments[c].old \in Seq(Texts) /\ comments[c].text \in Texts BY <1>1 DEF CommentRows
  <2>2. old \in Seq(Texts) BY <2>1, AppendProperties
  <2> QED BY <2>1, <2>2, AppendIsConcat
<1>4. old = said[c] BY <1>3 DEF CommentInv, HistoryComplete
<1> HIDE DEF old
<1>5. /\ entry \in CommentRows /\ entry.text = t /\ entry.old = old /\ entry.by = "NONE"
      /\ entry.parent = comments[c].parent /\ entry.hidden = comments[c].hidden
  BY <1>1, <1>3 DEF CommentRows, Texts, Standing
<1>6. PICK new \in CommentRows : new = entry BY <1>5
<1> HIDE DEF entry
<1>7. /\ said' \in Seq(Seq(Texts)) /\ DOMAIN said' = Ids
      /\ \A d \in Ids \ {c} : said'[d] = said[d]
      /\ said'[c] = said[c] \o <<t>>
  <2>1. said \in Seq(Seq(Texts)) /\ t \in Texts BY <1>1 DEF CommentTypeOK, Texts
  <2>2. Append(said[c], t) \in Seq(Texts) /\ Append(said[c], t) = said[c] \o <<t>>
    BY <1>1, <2>1, AppendProperties, AppendIsConcat
  <2>3. PICK e \in Seq(Texts) : e = Append(said[c], t) BY <2>2
  <2>4. said' = [said EXCEPT ![c] = e] BY <1>1, <2>3
  <2>5. said' \in Seq(Seq(Texts)) /\ Len(said') = Len(said)
        /\ \A d \in Ids : said'[d] = IF d = c THEN e ELSE said[d]
    <3>1. c \in 1 .. Len(said) BY <1>1
    <3>2. /\ [said EXCEPT ![c] = e] \in Seq(Seq(Texts)) /\ Len([said EXCEPT ![c] = e]) = Len(said)
          /\ \A d \in 1 .. Len(said) : [said EXCEPT ![c] = e][d] = IF d = c THEN e ELSE said[d]
      BY <2>1, <3>1, ExceptSeq
    <3>3. Ids = 1 .. Len(said) BY <1>1
    <3> QED BY <2>4, <3>2, <3>3
  <2>6. DOMAIN said' = Ids BY <1>1, <2>5, LenProperties
  <2> QED BY <2>2, <2>3, <2>5, <2>6
<1>8. new.old \o <<new.text>> = said'[c] BY <1>4, <1>5, <1>6, <1>7
<1> QED
  <2>1. tab[t].at \in RowServices \ {"HIDE"} BY <1>1 DEF RowServices
  <2>2. comments' = [comments EXCEPT ![c] = new] BY <1>2, <1>6
  <2>3. new.by # "MODERATOR" /\ new.parent = comments[c].parent /\ new.hidden = comments[c].hidden
    BY <1>5, <1>6
  <2>4. moderation' \subseteq [act : {"DELETED", "HIDDEN"}, on : Ids]
    BY <1>1 DEF CommentTypeOK
  <2>5. moderation \subseteq moderation' /\ opened' = opened /\ Close(t) BY <1>1
  <2> QED BY <1>0, <1>7, <1>8, <2>1, <2>2, <2>3, <2>4, <2>5, OneRowStep

\* What a deletion writes.
Deletion(t, by) ==
    /\ comments' = [comments EXCEPT ![tab[t].on].by = by]
    /\ moderation' = IF by = "OWNER" THEN moderation
                     ELSE moderation \cup {[act |-> "DELETED", on |-> tab[t].on]}
    /\ UNCHANGED <<said, opened>>

\* Whoever deletes a comment, its text and its history stay.
LEMMA DeletionStep ==
    ASSUME CommentInv, NEW t \in Tabs, tab[t].at \in {"DELETE", "MODERATE"}, Close(t),
           NEW by \in {"OWNER", "MODERATOR"}, Deletion(t, by)
    PROVE  CommentSteps
<1>1. PICK c \in Ids : c = tab[t].on BY DEF CommentInv, RowReadStands, RowServices
<1>2. /\ CommentTypeOK /\ comments[c] \in CommentRows /\ DOMAIN said = Ids /\ said \in Seq(Seq(Texts))
  BY ThreadTyped DEF CommentInv, CommentTypeOK
<1> DEFINE entry == [comments[c] EXCEPT !.by = by]
<1>3. comments' = [comments EXCEPT ![c] = entry] BY <1>1 DEF Deletion
<1>4. /\ entry \in CommentRows /\ entry.by = by /\ entry.parent = comments[c].parent
      /\ entry.hidden = comments[c].hidden /\ entry.old = comments[c].old /\ entry.text = comments[c].text
  BY <1>2 DEF CommentRows
<1>5. PICK new \in CommentRows : new = entry BY <1>4
<1> HIDE DEF entry
<1>6. new.old \o <<new.text>> = said'[c]
  BY <1>4, <1>5 DEF CommentInv, HistoryComplete, Deletion
<1>7. /\ moderation \subseteq moderation'
      /\ moderation' \subseteq [act : {"DELETED", "HIDDEN"}, on : Ids]
      /\ new.by = "MODERATOR" => [act |-> "DELETED", on |-> c] \in moderation'
  BY <1>1, <1>2, <1>4, <1>5 DEF CommentTypeOK, Deletion
<1>8. tab[t].at \in RowServices \ {"HIDE"} BY DEF RowServices
<1>9. /\ comments' = [comments EXCEPT ![c] = new]
      /\ new.parent = comments[c].parent /\ new.hidden = comments[c].hidden
  BY <1>3, <1>4, <1>5
<1>10. /\ said' \in Seq(Seq(Texts)) /\ DOMAIN said' = Ids /\ opened' = opened
       /\ \A d \in Ids \ {c} : said'[d] = said[d]
  BY <1>2 DEF Deletion
<1> QED BY <1>1, <1>6, <1>7, <1>8, <1>9, <1>10, OneRowStep

\* When a walk ends, it has gathered all that stood below its root when it
\* began: what it has gathered, with all that was not there then, is closed
\* under replies.
LEMMA WalkIsWhole ==
    ASSUME CommentInv, NEW t \in Tabs, tab[t].at = "HIDE", tab[t].level = {}
    PROVE  tab[t].due \subseteq tab[t].rows
<1> DEFINE S == tab[t].rows \cup (Ids \ tab[t].due)
<1>1. PICK c \in Ids : c = tab[t].on BY DEF CommentInv, RowReadStands, RowServices
<1>2. WalkSound(t) /\ CommentTypeOK BY DEF CommentInv
<1>3. S \in SUBSET Ids /\ c \in S BY <1>1, <1>2, SubtreeFacts DEF WalkSound
<1>4. ASSUME NEW d \in Children(S) PROVE d \in S
  <2>1. d \in Ids /\ comments[d].parent \in S BY <1>4 DEF Children
  <2>2. CASE d \in tab[t].due /\ d # c
    <3>1. comments[d].parent \in tab[t].rows \ tab[t].level BY <1>1, <1>2, <2>1, <2>2 DEF WalkSound
    <3> QED BY <1>2, <2>2, <3>1 DEF WalkSound
  <2>3. CASE ~(d \in tab[t].due /\ d # c) BY <1>3, <2>1, <2>3
  <2> QED BY <2>2, <2>3
<1>5. Subtree(c) \subseteq S BY <1>3, <1>4, SubtreeInside
<1> QED BY <1>1, <1>2, <1>5 DEF WalkSound

LEMMA SaveHideStep ==
    ASSUME CommentInv, NEW t \in Tabs, SaveHide(t)
    PROVE  CommentSteps
<1>0. PICK c \in Ids : c = tab[t].on
  BY DEF SaveHide, CommentInv, RowReadStands, RowServices
<1>1. PICK R \in SUBSET Ids : R = tab[t].rows
  BY ThreadTyped DEF TabRows, CommentInv
<1>2. /\ CommentTypeOK /\ WalkSound(t) /\ tab[t].at = "HIDE" /\ tab[t].level = {} /\ Close(t)
      /\ \A d \in R : holder[d] \in {NoTab, t}
      /\ comments' = [d \in Ids |-> IF d \in R THEN [comments[d] EXCEPT !.by = "ADMIN", !.hidden = TRUE]
                                    ELSE comments[d]]
      /\ moderation' = moderation \cup {[act |-> "HIDDEN", on |-> c]}
      /\ UNCHANGED <<said, opened>>
      /\ Len(comments) \in Nat /\ Ids = 1 .. Len(comments)
      /\ \A d \in Ids : comments[d] \in CommentRows
  BY <1>0, <1>1, ThreadTyped DEF SaveHide, CommentInv, Ids
<1>3. ASSUME NEW d \in Ids
      PROVE  /\ comments'[d] \in CommentRows
             /\ comments'[d].parent = comments[d].parent /\ comments'[d].author = comments[d].author
             /\ comments'[d].old = comments[d].old /\ comments'[d].text = comments[d].text
             /\ d \in R => comments'[d].by = "ADMIN" /\ comments'[d].hidden
             /\ d \notin R => comments'[d] = comments[d]
  <2>1. comments[d] \in CommentRows BY <1>2
  <2>2. CASE d \in R
    <3>1. comments'[d] = [comments[d] EXCEPT !.by = "ADMIN", !.hidden = TRUE] BY <1>2, <2>2
    <3> QED BY <2>1, <2>2, <3>1 DEF CommentRows
  <2>3. CASE d \notin R BY <1>2, <2>1, <2>3
  <2> QED BY <2>2, <2>3
<1>4. comments' \in Seq(CommentRows) /\ Len(comments') = Len(comments)
  <2>1. comments' \in [1 .. Len(comments) -> CommentRows] BY <1>2, <1>3
  <2> QED BY <1>2, <2>1, FunctionIsSeq
<1>5. /\ holder' \in Seq(Texts) /\ DOMAIN holder' = Ids'
      /\ (tab \in [Tabs -> TabRows])' /\ RowLocksKept'
      /\ \A o \in Tabs : RowReadStands(o)' /\ WalkSound(o)'
      /\ tab'[t] = Away /\ \A o \in Tabs \ {t} : tab'[o] = tab[o]
      /\ Ids' = Ids /\ Grows
  <2>1. \A d \in Ids \ R : comments'[d] = comments[d] BY <1>3
  <2>2. \A d \in Ids : comments'[d].parent = comments[d].parent BY <1>3
  <2> QED BY <1>2, <1>4, <2>1, <2>2, ClosingKeeps
<1>6. CommentTypeOK'
  <2>1. \A d \in Ids : comments'[d].parent \in 0 .. d - 1 BY <1>2, <1>3 DEF CommentTypeOK
  <2>2. (comments \in Seq(CommentRows))' BY <1>4 DEF CommentRows, Texts
  <2>3. (moderation \subseteq [act : {"DELETED", "HIDDEN"}, on : Ids])'
    <3>1. moderation \subseteq [act : {"DELETED", "HIDDEN"}, on : Ids] BY <1>2 DEF CommentTypeOK
    <3>2. [act |-> "HIDDEN", on |-> c] \in [act : {"DELETED", "HIDDEN"}, on : Ids] OBVIOUS
    <3>3. moderation' = moderation \cup {[act |-> "HIDDEN", on |-> c]} /\ Ids' = Ids BY <1>2, <1>5
    <3> QED BY <3>1, <3>2, <3>3
  <2>4. opened' \in 0 .. MaxOpened BY <1>2 DEF CommentTypeOK
  <2>5. (said \in Seq(Seq(Texts)) /\ DOMAIN said = Ids)' BY <1>2, <1>5 DEF CommentTypeOK, Texts
  <2> QED BY <1>5, <2>1, <2>2, <2>3, <2>4, <2>5 DEF CommentTypeOK
<1>7. HistoryComplete'
  <2> SUFFICES ASSUME NEW d \in Ids PROVE comments'[d].old \o <<comments'[d].text>> = said'[d]
    BY <1>5 DEF HistoryComplete
  <2>1. comments'[d].old = comments[d].old /\ comments'[d].text = comments[d].text BY <1>3
  <2> QED BY <1>2, <2>1 DEF CommentInv, HistoryComplete
<1>8. ModerationIsAudited'
  <2> SUFFICES ASSUME NEW d \in Ids
               PROVE  /\ comments'[d].by = "MODERATOR" => [act |-> "DELETED", on |-> d] \in moderation'
                      /\ comments'[d].hidden => \E m \in moderation' : m.act = "HIDDEN" /\ d \in Subtree(m.on)'
    BY <1>5 DEF ModerationIsAudited
  <2>1. CASE d \in R
    <3>1. d \in Subtree(c) BY <1>0, <1>1, <1>2, <2>1 DEF WalkSound
    <3>2. d \in Subtree(c)' BY <1>5, <3>1, SubtreeGrows
    <3>3. PICK m \in moderation' : m = [act |-> "HIDDEN", on |-> c] BY <1>2
    <3>4. m.act = "HIDDEN" /\ m.on = c BY <3>3
    <3> QED BY <1>3, <2>1, <3>2, <3>4
  <2>2. CASE d \notin R
    <3>1. comments'[d] = comments[d] /\ moderation \subseteq moderation' BY <1>2, <1>3, <2>2
    <3>2. comments[d].hidden => \E m \in moderation : m.act = "HIDDEN" /\ d \in Subtree(m.on)
      BY DEF CommentInv, ModerationIsAudited
    <3>3. comments[d].by = "MODERATOR" => [act |-> "DELETED", on |-> d] \in moderation
      BY DEF CommentInv, ModerationIsAudited
    <3> QED BY <1>2, <1>5, <3>1, <3>2, <3>3, HidingStaysAudited
  <2> QED BY <2>1, <2>2
<1>9. DeletionsStand
  <2> SUFFICES ASSUME NEW d \in Ids
               PROVE  /\ comments[d].by # "NONE" => comments'[d].by \in {comments[d].by, "ADMIN"}
                      /\ comments[d].hidden => comments'[d].hidden
    BY DEF DeletionsStand
  <2> QED BY <1>3
<1>10. HidingsReach
  <2> SUFFICES ASSUME NEW o \in Tabs, tab[o].at = "HIDE", tab'[o] = Away,
                      NEW d \in tab[o].due
               PROVE  comments'[d].hidden
    BY DEF HidingsReach
  <2>1. o = t BY <1>5 DEF Away
  <2>2. d \in R BY <1>1, <1>2, <2>1, WalkIsWhole
  <2> QED BY <1>3, <2>2
<1> QED BY <1>5, <1>6, <1>7, <1>8, <1>9, <1>10 DEF CommentSteps, CommentInv

LEMMA CommentNextSteps ==
    ASSUME CommentInv, [CommentNext]_commentVars
    PROVE  CommentInv' /\ ((DeletionsStand /\ HidingsReach) \/ UNCHANGED commentVars)
<1>1. CASE UNCHANGED commentVars
  <2>1. UNCHANGED <<comments, said, holder, tab, moderation, opened>> BY <1>1 DEF commentVars
  <2>2. Ids' = Ids /\ Grows BY <2>1 DEF Ids, Grows
  <2>3. /\ CommentTypeOK /\ RowLocksKept /\ \A t \in Tabs : tab'[t] = tab[t] /\ RowReadStands(t)
    BY <2>1 DEF CommentInv
  <2>4. \A t \in Tabs : WalkSound(t)' BY <2>2, <2>3, WalkStays
  <2>5. \A t \in Tabs : RowReadStands(t)' BY <2>1, <2>2, <2>3 DEF RowReadStands, Standing
  <2>6. (tab \in [Tabs -> TabRows])' BY <2>1, <2>2, <2>3 DEF CommentTypeOK, TabRows
  <2>7. RowLocksKept' BY <2>1, <2>2, <2>3 DEF RowLocksKept
  <2>8. holder' \in Seq(Texts) /\ DOMAIN holder' = Ids /\ opened' \in 0 .. MaxOpened
    BY <2>1, <2>3 DEF CommentTypeOK
  <2> QED BY <1>1, <2>1, <2>4, <2>5, <2>6, <2>7, <2>8, QuietStep DEF CommentSteps
<1>2. CASE AuthorRequests
  <2>1. PICK t \in Tabs, u \in Writers :
            \/ \E p \in 0 .. MaxComments : BeginReply(t, u, p)
            \/ \E c \in Ids : OpenRow(t, u, c, "EDIT") \/ OpenRow(t, u, c, "DELETE")
    BY <1>2 DEF AuthorRequests
  <2>2. "EDIT" \in RowServices /\ "DELETE" \in RowServices BY DEF RowServices
  <2> QED BY <2>1, <2>2, BeginReplyStep, OpenRowStep DEF CommentSteps
<1>3. CASE ModerationRequests
  <2>1. PICK t \in Tabs, c \in Ids :
            \/ \E u \in Moderators : OpenRow(t, u, c, "MODERATE")
            \/ \E u \in Admins : OpenRow(t, u, c, "HIDE")
    BY <1>3 DEF ModerationRequests
  <2>2. "MODERATE" \in RowServices /\ "HIDE" \in RowServices BY DEF RowServices
  <2> QED BY <2>1, <2>2, OpenRowStep DEF CommentSteps
<1>4. ASSUME NEW t \in Tabs,
             \/ InsertReply(t) \/ SaveEdit(t) \/ SaveOwnDelete(t) \/ SaveModeration(t)
             \/ GatherLevel(t) \/ SaveHide(t) \/ TabDies(t)
      PROVE  CommentSteps
  <2>1. CASE SaveOwnDelete(t)
    <3>1. "OWNER" \in {"OWNER", "MODERATOR"} OBVIOUS
    <3> QED BY <2>1, <3>1, DeletionStep DEF SaveOwnDelete, Deletion
  <2>2. CASE SaveModeration(t)
    <3>1. "MODERATOR" \in {"OWNER", "MODERATOR"} OBVIOUS
    <3> QED BY <2>2, <3>1, DeletionStep DEF SaveModeration, Deletion
  <2> QED BY <1>4, <2>1, <2>2, InsertReplyStep, SaveEditStep, GatherLevelStep, SaveHideStep, TabDiesStep
<1> QED BY <1>1, <1>2, <1>3, <1>4 DEF CommentNext, CommentSteps

\* A thread survives any overlap of replies, edits, deletions and hidings: no
\* text, deletion or audit row is lost, and hiding a comment hides all that
\* stood below it when the hiding began (CommentService).
THEOREM CommentsKeepContract == CommentSpec => CommentContract
<1>1. CommentInv => CommentTypeOK /\ HistoryComplete /\ ThreadHangsTogether /\ ModerationIsAudited
  BY ShownHangsTogether DEF CommentInv
<1>2. CommentInv /\ [CommentNext]_commentVars => CommentInv' BY CommentNextSteps
<1>3. CommentInv /\ [CommentNext]_commentVars => [DeletionsStand]_commentVars /\ [HidingsReach]_commentVars
  BY CommentNextSteps
<1>4. CommentSpec => [][DeletionsStand]_commentVars /\ [][HidingsReach]_commentVars
      /\ [](CommentTypeOK /\ HistoryComplete /\ ThreadHangsTogether /\ ModerationIsAudited)
  BY <1>1, <1>2, <1>3, ThreadStart, PTL DEF CommentSpec
<1> QED
  BY <1>4, PTL DEF CommentContract, FirstDeletionStands, HidingReachesAll, DeletionsStand, HidingsReach

-----------------------------------------------------------------------------
(* Reports, votes, ratings and reactions.                                  *)

ClosureRows == [on : Reports, as : {"HANDLED", "DISMISSED"}]
PostRows == [at : {"READY", "FILE", "HANDLED", "DISMISSED", "MARK", "AGAIN", "TELL", "ADD", "REMOVE"},
             on : Rows \cup {NoPost}, to : Values, saw : Values \cup {0, 1}, try : {1, 2}]

FeedbackTyped ==
    /\ report \in [Reports -> {"NONE", "OPEN", "HANDLED", "DISMISSED"}]
    /\ closures \in Seq(ClosureRows)
    /\ mark \in [Marks -> Values] /\ confirmed \in [Marks -> Values]
    /\ reaction \in [Reactions -> BOOLEAN]
    /\ rowOf \in [Rows -> Posts \cup {NoPost}] /\ post \in [Posts -> PostRows]

\* Each request is about a row of its kind; one that closes a report holds the row
\* of a report that is still open.
PostSound(p) ==
    /\ post[p].at \in {"FILE", "HANDLED", "DISMISSED"} => post[p].on \in Reports
    /\ post[p].at \in {"MARK", "AGAIN", "TELL"} => post[p].on \in Marks
    /\ post[p].at \in {"ADD", "REMOVE"} => post[p].on \in Reactions
    /\ Closing(p) => rowOf[post[p].on] = p /\ report[post[p].on] = "OPEN"

ClosureSound(k) ==
    /\ report[k] \in {"NONE", "OPEN"} => \A i \in 1..Len(closures) : closures[i].on # k
    /\ report[k] \in {"HANDLED", "DISMISSED"} =>
         \E i \in 1..Len(closures) :
             /\ closures[i].on = k /\ closures[i].as = report[k]
             /\ \A j \in 1..Len(closures) : closures[j].on = k => j = i

FeedbackInv ==
    /\ FeedbackTyped
    /\ \A p \in Posts : PostSound(p)
    /\ \A k \in Reports : ClosureSound(k)

LEMMA ReadyRow == Ready \in PostRows /\ Ready.at = "READY"
BY FeedbackAssumption DEF Ready, PostRows

LEMMA FeedbackStart == FeedbackInit => FeedbackInv
<1> SUFFICES ASSUME FeedbackInit PROVE FeedbackInv OBVIOUS
<1>1. closures = <<>> /\ Len(closures) = 0 BY DEF FeedbackInit
<1>2. post \in [Posts -> PostRows] /\ \A p \in Posts : post[p].at = "READY"
  BY ReadyRow DEF FeedbackInit
<1>3. FeedbackTyped BY <1>1, <1>2, FeedbackAssumption DEF FeedbackInit, FeedbackTyped
<1>4. ASSUME NEW k \in Reports PROVE ClosureSound(k)
  <2>1. report[k] = "NONE" BY DEF FeedbackInit
  <2>2. \A i \in 1..Len(closures) : FALSE BY <1>1
  <2> QED BY <2>1, <2>2 DEF ClosureSound
<1> QED BY <1>2, <1>3, <1>4 DEF FeedbackInit, FeedbackInv, PostSound, Closing

\* A request that ends frees its row and leaves the others alone.
LEMMA DoneFrees ==
    ASSUME FeedbackInv, NEW p \in Posts, Done(p)
    PROVE  /\ post' \in [Posts -> PostRows] /\ post'[p] = Ready
           /\ rowOf' \in [Rows -> Posts \cup {NoPost}]
           /\ \A q \in Posts : q # p =>
                /\ post'[q] = post[q]
                /\ \A k \in Rows : rowOf[k] = q => rowOf'[k] = q
<1>1. post \in [Posts -> PostRows] /\ rowOf \in [Rows -> Posts \cup {NoPost}]
  BY DEF FeedbackInv, FeedbackTyped
<1>2. post' = [post EXCEPT ![p] = Ready]
      /\ rowOf' = [k \in Rows |-> IF rowOf[k] = p THEN NoPost ELSE rowOf[k]]
  BY DEF Done, Freed
<1>3. post' \in [Posts -> PostRows] /\ post'[p] = Ready BY <1>1, <1>2, ReadyRow
<1>4. rowOf' \in [Rows -> Posts \cup {NoPost}] BY <1>1, <1>2
<1> QED BY <1>1, <1>2, <1>3, <1>4

\* The others still hold what they hold: reports they are closing are not touched.
LEMMA DoneKeeps ==
    ASSUME FeedbackInv, NEW p \in Posts, Done(p),
           \A q \in Posts : q # p /\ Closing(q) => report'[post[q].on] = "OPEN"
    PROVE  \A q \in Posts : PostSound(q)'
<1>1. \A q \in Posts : q # p => /\ post'[q] = post[q]
                                /\ \A k \in Rows : rowOf[k] = q => rowOf'[k] = q
  BY DoneFrees
<1>2. post'[p] = Ready BY DoneFrees
<1>3. ASSUME NEW q \in Posts, q # p PROVE PostSound(q)'
  <2>1. post'[q] = post[q] BY <1>1, <1>3
  <2>2. Closing(q) => post[q].on \in Reports /\ rowOf[post[q].on] = q
    BY DEF FeedbackInv, PostSound, Closing
  <2>3. Closing(q) => rowOf'[post[q].on] = q BY <1>1, <1>3, <2>2 DEF Rows
  <2> QED BY <1>3, <2>1, <2>3 DEF FeedbackInv, PostSound, Closing
<1>4. PostSound(p)' BY <1>2, ReadyRow DEF PostSound, Closing
<1> QED BY <1>3, <1>4

LEMMA EndsKeep ==
    ASSUME FeedbackInv, NEW p \in Posts, Done(p), UNCHANGED <<report, closures>>,
           mark' \in [Marks -> Values], confirmed' \in [Marks -> Values], reaction' \in [Reactions -> BOOLEAN]
    PROVE  FeedbackInv'
<1>1. FeedbackTyped' BY DoneFrees DEF FeedbackInv, FeedbackTyped
<1>2. \A q \in Posts : PostSound(q)'
  <2>1. \A q \in Posts : q # p /\ Closing(q) => report'[post[q].on] = "OPEN"
    BY DEF FeedbackInv, PostSound
  <2> QED BY <2>1, DoneKeeps
<1>3. \A k \in Reports : ClosureSound(k)' BY DEF FeedbackInv, ClosureSound
<1> QED BY <1>1, <1>2, <1>3 DEF FeedbackInv

LEMMA FileReportKeeps == ASSUME FeedbackInv, NEW p \in Posts, FileReport(p) PROVE FeedbackInv'
<1>1. PICK k : k = post[p].on OBVIOUS
<1>2. /\ k \in Reports /\ report' = [report EXCEPT ![k] = IF @ = "NONE" THEN "OPEN" ELSE @]
      /\ Done(p) /\ UNCHANGED <<closures, mark, confirmed, reaction>>
  BY <1>1 DEF FileReport, FeedbackInv, PostSound
<1>3. report \in [Reports -> {"NONE", "OPEN", "HANDLED", "DISMISSED"}]
  BY DEF FeedbackInv, FeedbackTyped
<1>4. /\ report' \in [Reports -> {"NONE", "OPEN", "HANDLED", "DISMISSED"}]
      /\ \A j \in Reports : report'[j] = report[j] \/ (report[j] = "NONE" /\ report'[j] = "OPEN")
  BY <1>2, <1>3
<1>5. FeedbackTyped' BY <1>2, <1>4, DoneFrees DEF FeedbackInv, FeedbackTyped
<1>6. \A q \in Posts : PostSound(q)'
  <2>1. \A q \in Posts : Closing(q) => post[q].on \in Reports /\ report[post[q].on] = "OPEN"
    BY DEF FeedbackInv, PostSound, Closing
  <2>2. \A q \in Posts : q # p /\ Closing(q) => report'[post[q].on] = "OPEN" BY <1>4, <2>1
  <2> QED BY <1>2, <2>2, DoneKeeps
<1>7. \A j \in Reports : ClosureSound(j)' BY <1>2, <1>4 DEF FeedbackInv, ClosureSound
<1> QED BY <1>2, <1>5, <1>6, <1>7 DEF FeedbackInv

LEMMA CloseReportKeeps == ASSUME FeedbackInv, NEW p \in Posts, CloseReport(p) PROVE FeedbackInv'
<1>1. PICK k, as : k = post[p].on /\ as = post[p].at OBVIOUS
<1> DEFINE line == [on |-> k, as |-> as]
<1>2. /\ k \in Reports /\ as \in {"HANDLED", "DISMISSED"} /\ report[k] = "OPEN" /\ rowOf[k] = p
      /\ report' = [report EXCEPT ![k] = as] /\ closures' = Append(closures, line)
      /\ Done(p) /\ UNCHANGED <<mark, confirmed, reaction>>
  BY <1>1 DEF CloseReport, Closing, FeedbackInv, PostSound
<1>3. report \in [Reports -> {"NONE", "OPEN", "HANDLED", "DISMISSED"}]
      /\ closures \in Seq(ClosureRows)
  BY DEF FeedbackInv, FeedbackTyped
<1>4. line \in ClosureRows /\ line.on = k /\ line.as = as BY <1>2 DEF ClosureRows
<1> HIDE DEF line
<1>5. PICK n : n = Len(closures) OBVIOUS
<1>6. /\ n \in Nat /\ closures' \in Seq(ClosureRows) /\ Len(closures') = n + 1
      /\ closures'[n + 1] = line /\ \A i \in 1..n : closures'[i] = closures[i]
  BY <1>2, <1>3, <1>4, <1>5
<1>7. /\ report' \in [Reports -> {"NONE", "OPEN", "HANDLED", "DISMISSED"}] /\ report'[k] = as
      /\ \A j \in Reports : j # k => report'[j] = report[j]
  BY <1>2, <1>3
<1>8. FeedbackTyped' BY <1>2, <1>6, <1>7, DoneFrees DEF FeedbackInv, FeedbackTyped
<1>9. \A q \in Posts : PostSound(q)'
  <2>1. \A q \in Posts : Closing(q) => post[q].on \in Reports /\ report[post[q].on] = "OPEN"
                                       /\ rowOf[post[q].on] = q
    BY DEF FeedbackInv, PostSound, Closing
  <2>2. \A q \in Posts : q # p /\ Closing(q) => report'[post[q].on] = "OPEN"
    BY <1>2, <1>7, <2>1
  <2> QED BY <1>2, <2>2, DoneKeeps
<1>10. \A j \in Reports : ClosureSound(j)'
  <2>1. ClosureSound(k)'
    <3>1. \A i \in 1..n : closures[i].on # k BY <1>2, <1>5 DEF FeedbackInv, ClosureSound
    <3>2. n + 1 \in 1..Len(closures') BY <1>6
    <3>3. \A j \in 1..Len(closures') : closures'[j].on = k => j = n + 1
      BY <1>6, <3>1
    <3> QED BY <1>2, <1>4, <1>6, <1>7, <3>2, <3>3 DEF ClosureSound
  <2>2. ASSUME NEW j \in Reports, j # k PROVE ClosureSound(j)'
    <3>1. ClosureSound(j) /\ report'[j] = report[j] BY <1>7, <2>2 DEF FeedbackInv
    <3>2. closures'[n + 1].on # j BY <1>4, <1>6, <2>2
    <3>3. ASSUME report[j] \in {"NONE", "OPEN"} PROVE \A i \in 1..Len(closures') : closures'[i].on # j
      <4>1. \A i \in 1..n : closures[i].on # j BY <1>5, <3>1, <3>3 DEF ClosureSound
      <4> QED BY <1>6, <3>2, <4>1
    <3>4. ASSUME report[j] \in {"HANDLED", "DISMISSED"}
          PROVE \E i \in 1..Len(closures') :
                   /\ closures'[i].on = j /\ closures'[i].as = report[j]
                   /\ \A h \in 1..Len(closures') : closures'[h].on = j => h = i
      <4>1. PICK i \in 1..n : /\ closures[i].on = j /\ closures[i].as = report[j]
                              /\ \A h \in 1..n : closures[h].on = j => h = i
        BY <1>5, <3>1, <3>4 DEF ClosureSound
      <4>2. i \in 1..Len(closures') /\ closures'[i] = closures[i] BY <1>6
      <4>3. \A h \in 1..Len(closures') : closures'[h].on = j => h = i BY <1>6, <3>2, <4>1
      <4> QED BY <4>1, <4>2, <4>3
    <3> QED BY <3>1, <3>3, <3>4 DEF ClosureSound
  <2> QED BY <2>1, <2>2
<1> QED BY <1>2, <1>8, <1>9, <1>10 DEF FeedbackInv

\* A request takes up a row that nobody holds, or goes on with its own.
LEMMA BeginKeeps ==
    ASSUME FeedbackInv, NEW p \in Posts, NEW q \in PostRows, NEW k \in Rows, ~Closing(p),
           post' = [post EXCEPT ![p] = q], q.on = k,
           rowOf' = rowOf \/ (rowOf[k] = NoPost /\ rowOf'[k] \in {p, NoPost}
                              /\ rowOf' = [rowOf EXCEPT ![k] = rowOf'[k]]),
           q.at \in {"FILE", "HANDLED", "DISMISSED"} => k \in Reports,
           q.at \in {"MARK", "AGAIN", "TELL"} => k \in Marks,
           q.at \in {"ADD", "REMOVE"} => k \in Reactions,
           q.at \in {"HANDLED", "DISMISSED"} => rowOf'[k] = p /\ report[k] = "OPEN",
           UNCHANGED <<report, closures, mark, confirmed, reaction>>
    PROVE  FeedbackInv'
<1>1. post \in [Posts -> PostRows] /\ rowOf \in [Rows -> Posts \cup {NoPost}]
  BY DEF FeedbackInv, FeedbackTyped
<1>2. post' \in [Posts -> PostRows] /\ post'[p] = q /\ \A r \in Posts : r # p => post'[r] = post[r]
  BY <1>1
<1>3. rowOf' \in [Rows -> Posts \cup {NoPost}]
      /\ \A r \in Posts : \A j \in Rows : r # NoPost /\ rowOf[j] = r => rowOf'[j] = r
  BY <1>1
<1>4. FeedbackTyped' BY <1>2, <1>3 DEF FeedbackInv, FeedbackTyped
<1>5. \A r \in Posts : PostSound(r)'
  <2>1. PostSound(p)' BY <1>2 DEF PostSound, Closing
  <2>2. ASSUME NEW r \in Posts, r # p PROVE PostSound(r)'
    <3>1. post'[r] = post[r] /\ PostSound(r) BY <1>2, <2>2 DEF FeedbackInv
    <3>2. Closing(r) => post[r].on \in Rows /\ rowOf[post[r].on] = r
      BY <3>1 DEF PostSound, Closing, Rows
    <3>3. Closing(r) => rowOf'[post[r].on] = r BY <1>3, <3>2, FeedbackAssumption
    <3> QED BY <3>1, <3>3 DEF PostSound, Closing
  <2> QED BY <2>1, <2>2
<1>6. \A j \in Reports : ClosureSound(j)' BY DEF FeedbackInv, ClosureSound
<1> QED BY <1>4, <1>5, <1>6 DEF FeedbackInv

LEMMA ReadyClosesNothing == ASSUME NEW p, post[p] = Ready PROVE ~Closing(p)
BY ReadyRow DEF Closing

LEMMA FindReportKeeps ==
    ASSUME FeedbackInv, NEW p \in Posts, NEW k \in Reports, FindReport(p, k) PROVE FeedbackInv'
<1> DEFINE q == [Ready EXCEPT !.at = "FILE", !.on = k]
<1>1. post[p] = Ready /\ post' = [post EXCEPT ![p] = q]
      /\ UNCHANGED <<report, closures, mark, confirmed, reaction, rowOf>>
  BY DEF FindReport
<1>2. q \in PostRows /\ q.at = "FILE" /\ q.on = k BY ReadyRow DEF PostRows, Rows
<1>3. k \in Rows BY DEF Rows
<1> HIDE DEF q
<1> QED BY <1>1, <1>2, <1>3, BeginKeeps, ReadyClosesNothing

LEMMA LockReportKeeps ==
    ASSUME FeedbackInv, NEW p \in Posts, NEW k \in Reports, NEW target \in {"HANDLED", "DISMISSED"},
           LockReport(p, k, target)
    PROVE  FeedbackInv'
<1> DEFINE q == [Ready EXCEPT !.at = target, !.on = k]
<1>1. /\ post[p] = Ready /\ post' = [post EXCEPT ![p] = q] /\ rowOf[k] = NoPost /\ report[k] = "OPEN"
      /\ rowOf' = [rowOf EXCEPT ![k] = p]
      /\ UNCHANGED <<report, closures, mark, confirmed, reaction>>
  BY DEF LockReport
<1>2. q \in PostRows /\ q.at = target /\ q.on = k BY ReadyRow DEF PostRows, Rows
<1>3. k \in Rows BY DEF Rows
<1>4. rowOf'[k] = p BY <1>1, <1>3 DEF FeedbackInv, FeedbackTyped
<1> HIDE DEF q
<1> QED BY <1>1, <1>2, <1>3, <1>4, BeginKeeps, ReadyClosesNothing

LEMMA ReadMarkKeeps ==
    ASSUME FeedbackInv, NEW p \in Posts, NEW k \in Marks, NEW v \in Values, ReadMark(p, k, v)
    PROVE  FeedbackInv'
<1> DEFINE q == [at |-> "MARK", on |-> k, to |-> v, saw |-> mark[k], try |-> 1]
           by == IF mark[k] # 0 THEN p ELSE NoPost
<1>1. /\ post[p] = Ready /\ post' = [post EXCEPT ![p] = q] /\ rowOf[k] = NoPost
      /\ rowOf' = [rowOf EXCEPT ![k] = by]
      /\ UNCHANGED <<report, closures, mark, confirmed, reaction>>
  BY DEF ReadMark, Found
<1>2. mark[k] \in Values /\ k \in Rows /\ rowOf \in [Rows -> Posts \cup {NoPost}]
  BY DEF FeedbackInv, FeedbackTyped, Rows
<1>3. q \in PostRows /\ q.at = "MARK" /\ q.on = k BY <1>2 DEF PostRows
<1>4. rowOf'[k] = by /\ by \in {p, NoPost} BY <1>1, <1>2
<1> HIDE DEF q, by
<1> QED BY <1>1, <1>2, <1>3, <1>4, BeginKeeps, ReadyClosesNothing

LEMMA ReadReactionKeeps ==
    ASSUME FeedbackInv, NEW p \in Posts, NEW k \in Reactions, ReadReaction(p, k)
    PROVE  FeedbackInv'
<1> DEFINE at == IF reaction[k] THEN "REMOVE" ELSE "ADD"
           s == IF reaction[k] THEN 1 ELSE 0
           q == [Ready EXCEPT !.at = at, !.on = k, !.saw = s]
           by == IF reaction[k] THEN p ELSE NoPost
<1>1. /\ post[p] = Ready /\ post' = [post EXCEPT ![p] = q] /\ rowOf[k] = NoPost
      /\ rowOf' = [rowOf EXCEPT ![k] = by]
      /\ UNCHANGED <<report, closures, mark, confirmed, reaction>>
  BY DEF ReadReaction
<1>2. k \in Rows /\ rowOf \in [Rows -> Posts \cup {NoPost}]
  BY DEF FeedbackInv, FeedbackTyped, Rows
<1>3. at \in {"ADD", "REMOVE"} /\ s \in {0, 1} OBVIOUS
<1>4. rowOf'[k] = by /\ by \in {p, NoPost} BY <1>1, <1>2
<1> HIDE DEF at, s, by
<1>5. q \in PostRows /\ q.at = at /\ q.on = k BY <1>2, <1>3, ReadyRow DEF PostRows
<1> HIDE DEF q
<1> QED BY <1>1, <1>2, <1>3, <1>4, <1>5, BeginKeeps, ReadyClosesNothing

LEMMA LoseInsertKeeps == ASSUME FeedbackInv, NEW p \in Posts, LoseInsert(p) PROVE FeedbackInv'
<1>1. Clashes(p) /\ UNCHANGED <<report, closures, mark, confirmed, reaction>> BY DEF LoseInsert
<1>2. CASE Done(p) BY <1>1, <1>2, EndsKeep DEF FeedbackInv, FeedbackTyped
<1>3. CASE post' = [post EXCEPT ![p].at = "AGAIN", ![p].try = 2] /\ UNCHANGED rowOf
  <2> DEFINE q == [post[p] EXCEPT !.at = "AGAIN", !.try = 2]
  <2>1. post[p] \in PostRows /\ post[p].on \in Marks /\ post[p].at = "MARK"
    BY <1>1 DEF FeedbackInv, FeedbackTyped, PostSound, Clashes
  <2>2. q \in PostRows /\ q.at = "AGAIN" /\ q.on = post[p].on BY <2>1 DEF PostRows
  <2>3. post' = [post EXCEPT ![p] = q] BY <1>3 DEF FeedbackInv, FeedbackTyped
  <2>4. ~Closing(p) /\ post[p].on \in Rows BY <2>1 DEF Closing, Rows
  <2> HIDE DEF q
  <2> QED BY <1>1, <1>3, <2>1, <2>2, <2>3, <2>4, BeginKeeps
<1> QED BY <1>2, <1>3 DEF LoseInsert

LEMMA ReadAgainKeeps == ASSUME FeedbackInv, NEW p \in Posts, ReadAgain(p) PROVE FeedbackInv'
<1>1. PICK k : k = post[p].on OBVIOUS
<1>2. /\ post[p].at = "AGAIN" /\ rowOf[k] = NoPost
      /\ post' = [post EXCEPT ![p].at = "MARK", ![p].saw = mark[k]]
      /\ rowOf' = [rowOf EXCEPT ![k] = IF mark[k] # 0 THEN p ELSE NoPost]
      /\ UNCHANGED <<report, closures, mark, confirmed, reaction>>
  BY <1>1 DEF ReadAgain, Found
<1>3. post[p] \in PostRows /\ k \in Marks /\ rowOf \in [Rows -> Posts \cup {NoPost}]
  BY <1>1, <1>2 DEF FeedbackInv, FeedbackTyped, PostSound
<1>4. mark[k] \in Values /\ k \in Rows BY <1>3 DEF FeedbackInv, FeedbackTyped, Rows
<1> DEFINE q == [post[p] EXCEPT !.at = "MARK", !.saw = mark[k]]
           by == IF mark[k] # 0 THEN p ELSE NoPost
<1>5. q \in PostRows /\ q.at = "MARK" /\ q.on = k BY <1>1, <1>3, <1>4 DEF PostRows
<1>6. post' = [post EXCEPT ![p] = q] BY <1>2 DEF FeedbackInv, FeedbackTyped
<1>7. rowOf' = [rowOf EXCEPT ![k] = by] /\ rowOf'[k] = by /\ by \in {p, NoPost} BY <1>2, <1>3, <1>4
<1>8. ~Closing(p) BY <1>2 DEF Closing
<1> HIDE DEF q, by
<1> QED BY <1>2, <1>3, <1>4, <1>5, <1>6, <1>7, <1>8, BeginKeeps

\* What a commit writes, and that it frees its row.
LEMMA WriteMarkEffect ==
    ASSUME FeedbackInv, NEW p \in Posts, WriteMark(p)
    PROVE  \E k \in Marks, to \in Values :
               /\ k = post[p].on /\ to = post[p].to /\ post[p] \in PostRows
               /\ mark' = [mark EXCEPT ![k] = IF post[p].saw = to THEN @ ELSE to]
               /\ confirmed' = [confirmed EXCEPT ![k] = to]
               /\ post' = [post EXCEPT ![p].at = "TELL"]
               /\ rowOf' = Freed(p)
               /\ UNCHANGED <<report, closures, reaction>>
BY DEF WriteMark, FeedbackInv, FeedbackTyped, PostSound, PostRows

LEMMA WriteMarkKeeps == ASSUME FeedbackInv, NEW p \in Posts, WriteMark(p) PROVE FeedbackInv'
<1>1. PICK k \in Marks, to \in Values :
          /\ k = post[p].on /\ post[p] \in PostRows
          /\ mark' = [mark EXCEPT ![k] = IF post[p].saw = to THEN @ ELSE to]
          /\ confirmed' = [confirmed EXCEPT ![k] = to]
          /\ post' = [post EXCEPT ![p].at = "TELL"]
          /\ rowOf' = Freed(p) /\ UNCHANGED <<report, closures, reaction>>
  BY WriteMarkEffect
<1>2. /\ post \in [Posts -> PostRows] /\ rowOf \in [Rows -> Posts \cup {NoPost}]
      /\ mark \in [Marks -> Values] /\ confirmed \in [Marks -> Values]
  BY DEF FeedbackInv, FeedbackTyped
<1>3. mark' \in [Marks -> Values] /\ confirmed' \in [Marks -> Values] BY <1>1, <1>2
<1>4. /\ post' \in [Posts -> PostRows] /\ post'[p].at = "TELL" /\ post'[p].on = k
      /\ \A q \in Posts : q # p => post'[q] = post[q]
  BY <1>1, <1>2 DEF PostRows
<1>5. /\ rowOf' \in [Rows -> Posts \cup {NoPost}]
      /\ \A q \in Posts, j \in Rows : q # p /\ rowOf[j] = q => rowOf'[j] = q
  BY <1>1, <1>2 DEF Freed
<1>6. FeedbackTyped' BY <1>1, <1>3, <1>4, <1>5 DEF FeedbackInv, FeedbackTyped
<1>7. PostSound(p)' BY <1>4 DEF PostSound, Closing
<1>8. ASSUME NEW q \in Posts, q # p PROVE PostSound(q)'
  <2>1. post'[q] = post[q] /\ PostSound(q) BY <1>4, <1>8 DEF FeedbackInv
  <2>2. Closing(q) => post[q].on \in Rows BY <2>1 DEF PostSound, Closing, Rows
  <2> QED BY <1>1, <1>5, <1>8, <2>1, <2>2 DEF PostSound, Closing
<1>9. \A j \in Reports : ClosureSound(j)' BY <1>1 DEF FeedbackInv, ClosureSound
<1> QED BY <1>6, <1>7, <1>8, <1>9 DEF FeedbackInv

LEMMA FeedbackStep == FeedbackInv /\ [FeedbackNext]_feedbackVars => FeedbackInv'
<1> SUFFICES ASSUME FeedbackInv, [FeedbackNext]_feedbackVars PROVE FeedbackInv' OBVIOUS
<1>0. /\ mark \in [Marks -> Values] /\ confirmed \in [Marks -> Values] /\ reaction \in [Reactions -> BOOLEAN]
      /\ \A p \in Posts : PostSound(p) /\ post[p] \in PostRows
  BY DEF FeedbackInv, FeedbackTyped
<1>1. CASE StanceRequests BY <1>1, ReadMarkKeeps, ReadReactionKeeps DEF StanceRequests
<1>2. CASE ReportRequests BY <1>2, FindReportKeeps DEF ReportRequests
<1>3. CASE ClosureRequests BY <1>3, LockReportKeeps DEF ClosureRequests
<1>4. ASSUME NEW p \in Posts, FileReport(p) \/ CloseReport(p) \/ LoseInsert(p) \/ ReadAgain(p)
      PROVE  FeedbackInv'
  BY <1>4, FileReportKeeps, CloseReportKeeps, LoseInsertKeeps, ReadAgainKeeps
<1>5. ASSUME NEW p \in Posts, WriteMark(p) PROVE FeedbackInv' BY <1>5, WriteMarkKeeps
<1>6. ASSUME NEW p \in Posts, AddReaction(p) \/ RemoveReaction(p) \/ Answer(p) \/ PostDies(p) PROVE FeedbackInv'
  <2>1. /\ Done(p) /\ UNCHANGED <<report, closures, mark, confirmed>>
        /\ reaction' \in [Reactions -> BOOLEAN]
    BY <1>0, <1>6 DEF AddReaction, RemoveReaction, Answer, PostDies
  <2> QED BY <1>0, <2>1, EndsKeep
<1>7. CASE UNCHANGED feedbackVars
  BY <1>7 DEF feedbackVars, FeedbackInv, FeedbackTyped, PostSound, Closing, ClosureSound
<1> QED BY <1>1, <1>2, <1>3, <1>4, <1>5, <1>6, <1>7 DEF FeedbackNext

-----------------------------------------------------------------------------
(* The marks: what a request has read stands until it commits.              *)

\* A request that found a mark holds its row, which says what was read; what the
\* mark says is among the values it has had since, and so is every answer.
MarkSound(p) ==
    /\ post[p].at = "MARK" =>
           /\ post[p].saw \in held[p]
           /\ post[p].saw # 0 => rowOf[post[p].on] = p /\ mark[post[p].on] = post[p].saw
    /\ post[p].at \in {"MARK", "AGAIN"} => mark[post[p].on] \in held[p]
    /\ post[p].at = "TELL" => post[p].to \in held[p]

MarksInv ==
    /\ held \in [Posts -> SUBSET Values]
    /\ \A p \in Posts : MarkSound(p)
    /\ MarkIsConfirmed

LEMMA MarksStart == FeedbackInit => MarksInv
BY ReadyRow DEF FeedbackInit, MarksInv, MarkSound, MarkIsConfirmed

\* A request that a step leaves alone.
LEMMA OthersKeep ==
    ASSUME FeedbackInv, MarksInv, NEW q \in Posts, post'[q] = post[q], held'[q] = held[q],
           UNCHANGED mark, \A k \in Rows : rowOf[k] = q => rowOf'[k] = q
    PROVE  MarkSound(q)'
<1>1. post[q].at = "MARK" => post[q].on \in Rows BY DEF FeedbackInv, PostSound, Rows
<1> QED BY <1>1 DEF MarksInv, MarkSound

\* A request ends without having changed a mark.
LEMMA DoneKeepsMarks ==
    ASSUME FeedbackInv, MarksInv, NEW p \in Posts, Done(p), UNCHANGED <<mark, confirmed>>
    PROVE  MarksInv'
<1>1. /\ held' = [held EXCEPT ![p] = {}] /\ held \in [Posts -> SUBSET Values]
  BY DEF Done, MarksInv
<1>2. post'[p] = Ready /\ \A q \in Posts : q # p =>
          post'[q] = post[q] /\ \A k \in Rows : rowOf[k] = q => rowOf'[k] = q
  BY DoneFrees
<1>3. MarkSound(p)' BY <1>2, ReadyRow DEF MarkSound
<1>4. \A q \in Posts : q # p => MarkSound(q)' BY <1>1, <1>2, OthersKeep
<1>5. MarkIsConfirmed' BY DEF MarksInv, MarkIsConfirmed
<1> QED BY <1>1, <1>3, <1>4, <1>5 DEF MarksInv

\* A request begins, or begins again: it takes a row that nobody holds, if any.
LEMMA BeginKeepsMarks ==
    ASSUME FeedbackInv, MarksInv, NEW p \in Posts, NEW q, NEW h \in SUBSET Values,
           post' = [post EXCEPT ![p] = q], held' = [held EXCEPT ![p] = h],
           UNCHANGED <<mark, confirmed>>,
           \A r \in Posts, k \in Rows : r # p /\ rowOf[k] = r => rowOf'[k] = r,
           q.at = "MARK" => q.saw \in h /\ (q.saw # 0 => rowOf'[q.on] = p /\ mark[q.on] = q.saw),
           q.at \in {"MARK", "AGAIN"} => mark[q.on] \in h,
           q.at # "TELL"
    PROVE  MarksInv'
<1>1. held \in [Posts -> SUBSET Values] /\ post \in [Posts -> PostRows]
  BY DEF MarksInv, FeedbackInv, FeedbackTyped
<1>2. /\ held' \in [Posts -> SUBSET Values] /\ held'[p] = h /\ post'[p] = q
      /\ \A r \in Posts : r # p => held'[r] = held[r] /\ post'[r] = post[r]
  BY <1>1
<1>3. MarkSound(p)' BY <1>2 DEF MarkSound
<1>4. \A r \in Posts : r # p => MarkSound(r)' BY <1>2, OthersKeep
<1>5. MarkIsConfirmed' BY DEF MarksInv, MarkIsConfirmed
<1> QED BY <1>2, <1>3, <1>4, <1>5 DEF MarksInv

LEMMA RowTaken ==
    ASSUME FeedbackInv, NEW k \in Rows, rowOf[k] = NoPost, NEW by, rowOf' = [rowOf EXCEPT ![k] = by]
    PROVE  rowOf'[k] = by /\ \A r \in Posts, j \in Rows : rowOf[j] = r => rowOf'[j] = r
BY FeedbackAssumption DEF FeedbackInv, FeedbackTyped

LEMMA OtherBeginsKeepMarks ==
    ASSUME FeedbackInv, MarksInv, NEW p \in Posts,
           \/ \E k \in Reports : FindReport(p, k)
           \/ \E k \in Reports, target \in {"HANDLED", "DISMISSED"} : LockReport(p, k, target)
           \/ \E k \in Reactions : ReadReaction(p, k)
    PROVE  MarksInv'
<1>0. held = [held EXCEPT ![p] = held[p]] /\ held[p] \in SUBSET Values BY DEF MarksInv
<1>1. ASSUME NEW k \in Reports, FindReport(p, k) PROVE MarksInv'
  <2> DEFINE q == [Ready EXCEPT !.at = "FILE", !.on = k]
  <2>1. post' = [post EXCEPT ![p] = q] /\ UNCHANGED <<mark, confirmed, held, rowOf>>
    BY <1>1 DEF FindReport
  <2>2. q.at = "FILE" BY DEF Ready
  <2> HIDE DEF q
  <2> QED BY <1>0, <2>1, <2>2, BeginKeepsMarks
<1>2. ASSUME NEW k \in Reports, NEW target \in {"HANDLED", "DISMISSED"}, LockReport(p, k, target)
      PROVE  MarksInv'
  <2> DEFINE q == [Ready EXCEPT !.at = target, !.on = k]
  <2>1. /\ post' = [post EXCEPT ![p] = q] /\ UNCHANGED <<mark, confirmed, held>>
        /\ rowOf[k] = NoPost /\ rowOf' = [rowOf EXCEPT ![k] = p]
    BY <1>2 DEF LockReport
  <2>2. q.at = target BY DEF Ready
  <2>3. \A r \in Posts, j \in Rows : rowOf[j] = r => rowOf'[j] = r BY <2>1, RowTaken DEF Rows
  <2> HIDE DEF q
  <2> QED BY <1>0, <2>1, <2>2, <2>3, BeginKeepsMarks
<1>3. ASSUME NEW k \in Reactions, ReadReaction(p, k) PROVE MarksInv'
  <2> DEFINE at == IF reaction[k] THEN "REMOVE" ELSE "ADD"
             q == [Ready EXCEPT !.at = at, !.on = k, !.saw = IF reaction[k] THEN 1 ELSE 0]
             by == IF reaction[k] THEN p ELSE NoPost
  <2>1. /\ post' = [post EXCEPT ![p] = q] /\ UNCHANGED <<mark, confirmed, held>>
        /\ rowOf[k] = NoPost /\ rowOf' = [rowOf EXCEPT ![k] = by]
    BY <1>3 DEF ReadReaction
  <2>2. q.at \in {"ADD", "REMOVE"} BY DEF Ready
  <2> HIDE DEF q, by
  <2>3. \A r \in Posts, j \in Rows : rowOf[j] = r => rowOf'[j] = r BY <2>1, RowTaken DEF Rows
  <2> QED BY <1>0, <2>1, <2>2, <2>3, BeginKeepsMarks
<1> QED BY <1>1, <1>2, <1>3

LEMMA ReadMarkKeepsMarks ==
    ASSUME FeedbackInv, MarksInv, NEW p \in Posts, NEW k \in Marks, NEW v \in Values, ReadMark(p, k, v)
    PROVE  MarksInv'
<1> DEFINE q == [at |-> "MARK", on |-> k, to |-> v, saw |-> mark[k], try |-> 1]
           by == IF mark[k] # 0 THEN p ELSE NoPost
<1>1. /\ post' = [post EXCEPT ![p] = q] /\ held' = [held EXCEPT ![p] = {mark[k]}]
      /\ UNCHANGED <<mark, confirmed>> /\ rowOf[k] = NoPost /\ rowOf' = [rowOf EXCEPT ![k] = by]
  BY DEF ReadMark, Found
<1>2. q.at = "MARK" /\ q.on = k /\ q.saw = mark[k] OBVIOUS
<1>3. mark[k] \in Values BY DEF FeedbackInv, FeedbackTyped
<1>4. mark[k] # 0 => by = p OBVIOUS
<1> HIDE DEF q, by
<1>5. rowOf'[k] = by /\ \A r \in Posts, j \in Rows : rowOf[j] = r => rowOf'[j] = r
  BY <1>1, RowTaken DEF Rows
<1>6. PICK h \in SUBSET Values : h = {mark[k]} BY <1>3
<1>7. /\ q.at = "MARK" => q.saw \in h /\ (q.saw # 0 => rowOf'[q.on] = p /\ mark[q.on] = q.saw)
      /\ q.at \in {"MARK", "AGAIN"} => mark[q.on] \in h
      /\ q.at # "TELL" /\ held' = [held EXCEPT ![p] = h]
  BY <1>1, <1>2, <1>4, <1>5, <1>6
<1>8. \A r \in Posts, j \in Rows : r # p /\ rowOf[j] = r => rowOf'[j] = r BY <1>5
<1>9. post' = [post EXCEPT ![p] = q] /\ UNCHANGED <<mark, confirmed>> BY <1>1
<1> QED BY <1>7, <1>8, <1>9, BeginKeepsMarks

LEMMA ReadAgainKeepsMarks ==
    ASSUME FeedbackInv, MarksInv, NEW p \in Posts, ReadAgain(p)
    PROVE  MarksInv'
<1>1. PICK k : k = post[p].on OBVIOUS
<1> DEFINE q == [post[p] EXCEPT !.at = "MARK", !.saw = mark[k]]
           by == IF mark[k] # 0 THEN p ELSE NoPost
<1>2. post[p] \in PostRows /\ k \in Marks /\ mark[k] \in held[p]
  BY <1>1 DEF ReadAgain, FeedbackInv, FeedbackTyped, PostSound, MarksInv, MarkSound
<1>3. post' = [post EXCEPT ![p] = q]
  BY <1>1 DEF ReadAgain, FeedbackInv, FeedbackTyped
<1>4. /\ held' = [held EXCEPT ![p] = held[p]] /\ held[p] \in SUBSET Values
      /\ UNCHANGED <<mark, confirmed>> /\ rowOf[k] = NoPost /\ rowOf' = [rowOf EXCEPT ![k] = by]
  BY <1>1 DEF ReadAgain, Found, MarksInv
<1>5. q.at = "MARK" /\ q.on = k /\ q.saw = mark[k] BY <1>1, <1>2 DEF PostRows
<1>6. mark[k] # 0 => by = p OBVIOUS
<1> HIDE DEF q, by
<1>7. rowOf'[k] = by /\ \A r \in Posts, j \in Rows : rowOf[j] = r => rowOf'[j] = r
  BY <1>2, <1>4, RowTaken DEF Rows
<1>8. PICK h \in SUBSET Values : h = held[p] BY <1>4
<1>9. /\ q.at = "MARK" => q.saw \in h /\ (q.saw # 0 => rowOf'[q.on] = p /\ mark[q.on] = q.saw)
      /\ q.at \in {"MARK", "AGAIN"} => mark[q.on] \in h
      /\ q.at # "TELL" /\ held' = [held EXCEPT ![p] = h]
  BY <1>2, <1>4, <1>5, <1>6, <1>7, <1>8
<1>10. \A r \in Posts, j \in Rows : r # p /\ rowOf[j] = r => rowOf'[j] = r BY <1>7
<1>11. UNCHANGED <<mark, confirmed>> BY <1>4
<1> QED BY <1>3, <1>9, <1>10, <1>11, BeginKeepsMarks

LEMMA LoseInsertKeepsMarks ==
    ASSUME FeedbackInv, MarksInv, NEW p \in Posts, LoseInsert(p)
    PROVE  MarksInv'
<1>1. Clashes(p) /\ UNCHANGED <<mark, confirmed>> BY DEF LoseInsert
<1>2. CASE Done(p) BY <1>1, <1>2, DoneKeepsMarks
<1>3. CASE post' = [post EXCEPT ![p].at = "AGAIN", ![p].try = 2] /\ UNCHANGED <<held, rowOf>>
  <2> DEFINE q == [post[p] EXCEPT !.at = "AGAIN", !.try = 2]
  <2>1. post[p] \in PostRows /\ mark[post[p].on] \in held[p]
    BY <1>1 DEF FeedbackInv, FeedbackTyped, Clashes, MarksInv, MarkSound
  <2>2. q.at = "AGAIN" /\ q.on = post[p].on BY <2>1 DEF PostRows
  <2>3. post' = [post EXCEPT ![p] = q] BY <1>3 DEF FeedbackInv, FeedbackTyped
  <2>4. held' = [held EXCEPT ![p] = held[p]] /\ held[p] \in SUBSET Values BY <1>3 DEF MarksInv
  <2> HIDE DEF q
  <2> QED BY <1>1, <1>3, <2>1, <2>2, <2>3, <2>4, BeginKeepsMarks
<1> QED BY <1>2, <1>3 DEF LoseInsert

LEMMA WriteMarkKeepsMarks ==
    ASSUME FeedbackInv, MarksInv, NEW p \in Posts, WriteMark(p)
    PROVE  MarksInv'
<1>0. PICK saw : saw = post[p].saw OBVIOUS
<1>1. PICK k \in Marks, to \in Values :
          /\ k = post[p].on /\ to = post[p].to /\ saw = post[p].saw /\ post[p] \in PostRows
          /\ mark' = [mark EXCEPT ![k] = IF saw = to THEN @ ELSE to]
          /\ confirmed' = [confirmed EXCEPT ![k] = to]
          /\ post' = [post EXCEPT ![p].at = "TELL"]
          /\ rowOf' = Freed(p)
  BY <1>0, WriteMarkEffect
<1>2. /\ post \in [Posts -> PostRows] /\ rowOf \in [Rows -> Posts \cup {NoPost}]
      /\ mark \in [Marks -> Values] /\ confirmed \in [Marks -> Values]
      /\ held \in [Posts -> SUBSET Values] /\ mark[k] \in Values
  BY DEF FeedbackInv, FeedbackTyped, MarksInv
<1>3. /\ post[p].at = "MARK" /\ (saw = 0 /\ to # 0 => mark[k] = 0)
      /\ saw \in held[p] /\ mark[k] \in held[p]
      /\ saw # 0 => rowOf[k] = p /\ mark[k] = saw
  BY <1>1 DEF WriteMark, Clashes, MarksInv, MarkSound
<1>4. /\ mark' \in [Marks -> Values] /\ mark'[k] = IF saw = to THEN mark[k] ELSE to
      /\ \A j \in Marks : j # k => mark'[j] = mark[j]
  BY <1>1, <1>2
<1>5. /\ confirmed'[k] = to /\ \A j \in Marks : j # k => confirmed'[j] = confirmed[j]
  BY <1>1, <1>2
<1>6. MarkIsConfirmed'
  <2>1. to \in {mark'[k], 0} BY <1>3, <1>4
  <2> QED BY <1>4, <1>5, <2>1 DEF MarksInv, MarkIsConfirmed
<1>7. /\ post'[p].at = "TELL" /\ post'[p].to = to
      /\ \A q \in Posts : q # p => post'[q] = post[q]
  BY <1>1, <1>2 DEF PostRows
<1>8. /\ held' \in [Posts -> SUBSET Values]
      /\ \A q \in Posts : /\ held[q] \subseteq held'[q]
                          /\ held[q] # {} /\ post[q].on = k => mark'[k] \in held'[q]
  BY <1>1, <1>2, <1>4 DEF WriteMark
<1>9. MarkSound(p)'
  <2>1. to \in held'[p] BY <1>1, <1>3, <1>4, <1>8
  <2> QED BY <1>7, <2>1 DEF MarkSound
<1>10. ASSUME NEW q \in Posts, q # p PROVE MarkSound(q)'
  <2>1. post'[q] = post[q] /\ MarkSound(q) /\ held[q] \subseteq held'[q]
    BY <1>7, <1>8, <1>10 DEF MarksInv
  <2>2. ASSUME post[q].at \in {"MARK", "AGAIN"} PROVE mark'[post[q].on] \in held'[q]
    <3>1. post[q].on \in Marks /\ mark[post[q].on] \in held[q]
      BY <2>1, <2>2 DEF FeedbackInv, PostSound, MarkSound
    <3> QED BY <1>4, <1>8, <2>1, <3>1
  <2>3. ASSUME post[q].at = "MARK", post[q].saw # 0
        PROVE  rowOf'[post[q].on] = q /\ mark'[post[q].on] = post[q].saw
    <3>1. /\ post[q].on \in Marks /\ rowOf[post[q].on] = q
          /\ mark[post[q].on] = post[q].saw
      BY <2>1, <2>3 DEF FeedbackInv, PostSound, MarkSound
    <3>2. rowOf'[post[q].on] = q BY <1>1, <1>10, <3>1 DEF Freed, Rows
    <3>3. post[q].on = k => mark'[k] = mark[k] BY <1>3, <1>4, <1>10, <2>3, <3>1
    <3> QED BY <1>4, <3>1, <3>2, <3>3
  <2> QED BY <2>1, <2>2, <2>3 DEF MarkSound
<1> QED BY <1>6, <1>8, <1>9, <1>10 DEF MarksInv

LEMMA MarksStep ==
    ASSUME FeedbackInv, MarksInv, [FeedbackNext]_feedbackVars
    PROVE  MarksInv'
<1>1. ASSUME NEW p \in Posts,
             \/ FileReport(p) \/ CloseReport(p) \/ Answer(p)
             \/ AddReaction(p) \/ RemoveReaction(p) \/ PostDies(p)
      PROVE  MarksInv'
  <2>1. Done(p) /\ UNCHANGED <<mark, confirmed>>
    BY <1>1 DEF FileReport, CloseReport, Answer, AddReaction, RemoveReaction, PostDies
  <2> QED BY <2>1, DoneKeepsMarks
<1>2. CASE StanceRequests BY <1>2, ReadMarkKeepsMarks, OtherBeginsKeepMarks DEF StanceRequests
<1>3. CASE ReportRequests BY <1>3, OtherBeginsKeepMarks DEF ReportRequests
<1>4. CASE ClosureRequests BY <1>4, OtherBeginsKeepMarks DEF ClosureRequests
<1>5. CASE UNCHANGED feedbackVars
  BY <1>5 DEF feedbackVars, MarksInv, MarkSound, MarkIsConfirmed
<1> QED
  BY <1>1, <1>2, <1>3, <1>4, <1>5, WriteMarkKeepsMarks, LoseInsertKeepsMarks, ReadAgainKeepsMarks
  DEF FeedbackNext

\* A toggle that found no reaction ends with the reaction there, if it changed any.
LEMMA AddStep ==
    ASSUME FeedbackInv, FeedbackNext, NEW p \in Posts, post[p].at = "ADD", reaction' # reaction,
           post'[p] = Ready
    PROVE  reaction'[post[p].on]
<1>1. PICK q \in Posts : AddReaction(q) \/ RemoveReaction(q)
  BY DEF FeedbackNext, StanceRequests, ReportRequests, ClosureRequests, ReadMark, ReadReaction,
     FindReport, LockReport, FileReport, CloseReport, WriteMark, Answer, LoseInsert, ReadAgain, PostDies
<1>2. Done(q) BY <1>1 DEF AddReaction, RemoveReaction
<1>3. q = p BY <1>2, DoneFrees, ReadyRow
<1>4. AddReaction(p) BY <1>1, <1>3 DEF RemoveReaction
<1>5. post[p].on \in Reactions /\ reaction \in [Reactions -> BOOLEAN]
  BY DEF FeedbackInv, FeedbackTyped, PostSound
<1> QED BY <1>4, <1>5 DEF AddReaction

\* Reports, votes, ratings and reactions say what their users were told, a removal
\* that a first vote overtakes apart, and every answer was true when it was
\* decided, whoever races whom for a row, for any number of users, targets and requests
\* (report_service.py, vote_service.py, rating_service.py, reaction_service.py).
THEOREM FeedbackKeepsContract == FeedbackSpec => FeedbackContract
<1> DEFINE Adds == \A p \in Posts : (post[p].at = "ADD" /\ reaction' # reaction /\ post'[p] = Ready) =>
                      reaction'[post[p].on]
           Safe == FeedbackTypeOK /\ OneClosurePerReport /\ MarkIsConfirmed /\ AnswerWasTrue
<1>1. FeedbackInv /\ [FeedbackNext]_feedbackVars => FeedbackInv' BY FeedbackStep
<1>0. MarksInv /\ FeedbackInv /\ [FeedbackNext]_feedbackVars => MarksInv' BY MarksStep
<1>2. FeedbackInv /\ MarksInv => Safe
  <2> SUFFICES ASSUME FeedbackInv, MarksInv PROVE Safe OBVIOUS
  <2>1. FeedbackTypeOK
    BY DEF FeedbackInv, FeedbackTyped, FeedbackTypeOK, MarksInv, ClosureRows, PostRows
  <2>2. ASSUME NEW k \in Reports
        PROVE  LET of == {i \in DOMAIN closures : closures[i].on = k} IN
               IF report[k] \in {"NONE", "OPEN"} THEN of = {}
               ELSE \E i \in of : of = {i} /\ closures[i].as = report[k]
    <3>1. DOMAIN closures = 1..Len(closures) /\ ClosureSound(k)
          /\ report[k] \in {"NONE", "OPEN", "HANDLED", "DISMISSED"}
      BY DEF FeedbackInv, FeedbackTyped
    <3>2. CASE report[k] \in {"NONE", "OPEN"} BY <3>1, <3>2 DEF ClosureSound
    <3>3. CASE report[k] \in {"HANDLED", "DISMISSED"}
      <4>1. PICK i \in 1..Len(closures) :
                /\ closures[i].on = k /\ closures[i].as = report[k]
                /\ \A j \in 1..Len(closures) : closures[j].on = k => j = i
        BY <3>1, <3>3 DEF ClosureSound
      <4>2. {j \in DOMAIN closures : closures[j].on = k} = {i} BY <3>1, <4>1
      <4> QED BY <3>3, <4>1, <4>2
    <3> QED BY <3>1, <3>2, <3>3
  <2>3. OneClosurePerReport BY <2>2 DEF OneClosurePerReport
  <2> QED BY <2>1, <2>3 DEF MarksInv, MarkSound, AnswerWasTrue
<1>3. FeedbackInv /\ [FeedbackNext]_feedbackVars => [Adds]_feedbackVars BY AddStep
<1>4. (FeedbackSpec => [][Adds]_feedbackVars) => (FeedbackSpec => DoubleClickAdds)
  BY DEF DoubleClickAdds
<1> HIDE DEF Adds
<1>5. FeedbackSpec => [][Adds]_feedbackVars BY <1>1, <1>3, FeedbackStart, PTL DEF FeedbackSpec
<1>6. FeedbackSpec => []Safe
  BY <1>0, <1>1, <1>2, FeedbackStart, MarksStart, PTL DEF FeedbackSpec
<1> QED BY <1>4, <1>5, <1>6, PTL DEF FeedbackContract

-----------------------------------------------------------------------------
(* A recruitment post.                                                      *)

RecruitmentTyped ==
    /\ now \in 1 .. MaxNow /\ ownerActive \in BOOLEAN /\ found \in BOOLEAN
    /\ draft \in [contacts : SUBSET Channels, deadline : Deadlines]
    /\ row \in [status : {"DRAFT", "OPEN", "CLOSED", "EXPIRED"}, version : Nat, cycle : Nat,
                deadline : Deadlines, confirmed : Nat, remind : Nat]
    /\ row.confirmed <= now
    /\ contacts \subseteq Channels /\ withdrawn \subseteq Channels
    /\ command = [q \in Requests |-> command[q]]
    /\ \A q \in Requests : command[q] = NoRequest \/ command[q].act \in Commands
    /\ receipts \subseteq Requests /\ refused \subseteq Requests
    /\ \A m \in reminders : m \in [cycle : Nat, due : Nat, at : Nat]
    /\ sent \subseteq reminders

\* The next reminder is due after the last confirmation; the reminders of the
\* current cycle were due after it, and all of them before the next one.
CycleSound ==
    /\ row.deadline = 0 /\ row.remind # 0 => row.confirmed < row.remind
    /\ \A m \in reminders :
           /\ m.cycle <= row.cycle
           /\ m.cycle = row.cycle =>
                  row.deadline = 0 /\ m.at < row.remind /\ row.confirmed < m.due

RecruitmentInv ==
    /\ RecruitmentTyped
    /\ RevokedStaysHidden
    /\ ExpiredIsPast
    /\ OpenCanBeAnswered
    /\ CycleSound
    /\ NoReminderBurst

\* The next reminder is in the future, however many were missed.
LEMMA DueLater ==
    ASSUME NEW due \in Nat, now \in Nat
    PROVE  NextDue(due) \in Nat /\ (due <= now => now < NextDue(due))
<1> DEFINE n == (now - due) \div Period
<1>1. CASE now < due BY <1>1 DEF NextDue
<1>2. CASE due <= now
  <2>1. now - due \in Nat /\ Period \in Nat \ {0} BY <1>2, RecruitmentAssumption
  <2>2. n \in Nat /\ now - due < (n + 1) * Period
    <3> DEFINE d == now - due
    <3>1. d \in Nat BY <2>1
    <3>2. \A x \in Nat, p \in Nat \ {0} : x \div p \in Nat /\ x < ((x \div p) + 1) * p
      OBVIOUS
    <3> QED BY <2>1, <3>1, <3>2
  <2>3. NextDue(due) = due + (n + 1) * Period BY <1>2 DEF NextDue
  <2>4. (n + 1) * Period \in Nat BY <2>1, <2>2
  <2> HIDE DEF n
  <2> QED BY <2>2, <2>3, <2>4, <1>2
<1> QED BY <1>1, <1>2

\* What the updates of the post make of it, field by field.
LEMMA RowUpdates ==
    ASSUME NEW x, NEW y, NEW r, NEW s,
           r \in [status : {"DRAFT", "OPEN", "CLOSED", "EXPIRED"}, version : Nat, cycle : Nat,
                  deadline : Deadlines, confirmed : Nat, remind : Nat]
    PROVE  /\ s = [r EXCEPT !.status = x, !.version = y] =>
                s = [status |-> x, version |-> y, cycle |-> r.cycle,
                     deadline |-> r.deadline, confirmed |-> r.confirmed, remind |-> r.remind]
           /\ s = [r EXCEPT !.remind = x, !.version = y] =>
                s = [status |-> r.status, version |-> y, cycle |-> r.cycle,
                     deadline |-> r.deadline, confirmed |-> r.confirmed, remind |-> x]
<1>1. ASSUME s = [r EXCEPT !.status = x, !.version = y]
      PROVE  s = [status |-> x, version |-> y, cycle |-> r.cycle,
                  deadline |-> r.deadline, confirmed |-> r.confirmed, remind |-> r.remind]
  BY <1>1
<1>2. ASSUME s = [r EXCEPT !.remind = x, !.version = y]
      PROVE  s = [status |-> r.status, version |-> y, cycle |-> r.cycle,
                  deadline |-> r.deadline, confirmed |-> r.confirmed, remind |-> x]
  BY <1>2
<1> QED BY <1>1, <1>2

LEMMA CommandParts ==
    ASSUME NEW c \in Commands
    PROVE  /\ c.kind \in {"update", "publish", "reopen", "close", "confirm", "revoke"}
           /\ c.kind = "update" => c.fields \in [contacts : SUBSET Channels, deadline : Deadlines]
           /\ c.kind = "revoke" => c.channel \in Channels
BY DEF Commands

LEMMA RecruitmentStarts == RecruitmentInit => RecruitmentInv
<1> SUFFICES ASSUME RecruitmentInit PROVE RecruitmentInv OBVIOUS
<1>1. RecruitmentTyped
  <2>1. 1 \in 1 .. MaxNow /\ 0 \in Deadlines /\ 1 + Period \in Nat BY RecruitmentAssumption
  <2>2. now = 1 /\ 1 <= now BY DEF RecruitmentInit
  <2>3. /\ row \in [status : {"DRAFT", "OPEN", "CLOSED", "EXPIRED"}, version : Nat, cycle : Nat,
                   deadline : Deadlines, confirmed : Nat, remind : Nat]
        /\ row.confirmed <= now /\ contacts \subseteq Channels
    BY <2>1, <2>2 DEF RecruitmentInit
  <2> QED BY <2>1, <2>2, <2>3 DEF RecruitmentInit, RecruitmentTyped
<1>2. CycleSound BY RecruitmentAssumption DEF RecruitmentInit, CycleSound
<1>3. RevokedStaysHidden /\ ExpiredIsPast /\ OpenCanBeAnswered /\ NoReminderBurst
  BY RecruitmentAssumption DEF RecruitmentInit, RevokedStaysHidden, ExpiredIsPast,
     OpenCanBeAnswered, NoReminderBurst
<1> QED BY <1>1, <1>2, <1>3 DEF RecruitmentInv

\* What a command makes of the post: it stays of its type, an open one has a
\* contact, only a passed deadline expires it, and a new cycle begins whenever
\* the dates of the reminders are set anew.
LEMMA CommandActs ==
    ASSUME RecruitmentInv, NEW c \in Commands, Suits(c),
           NEW who \in SUBSET Channels,
           who = CASE c.kind \in {"publish", "reopen"} -> draft.contacts
                   [] c.kind = "revoke" -> contacts \ {c.channel}
                   [] OTHER -> contacts
    PROVE  LET r == Acted(c)
           IN  /\ r \in [status : {"DRAFT", "OPEN", "CLOSED", "EXPIRED"}, version : Nat,
                         cycle : Nat, deadline : Deadlines, confirmed : Nat, remind : Nat]
               /\ r.confirmed <= now /\ row.cycle <= r.cycle
               /\ r.status = "EXPIRED" => r.deadline # 0 /\ r.deadline <= now
               /\ r.status = "OPEN" => who # {}
               /\ r.deadline = 0 /\ r.remind # 0 => r.confirmed < r.remind
               /\ r.cycle = row.cycle =>
                      \/ r.deadline = row.deadline /\ r.remind = row.remind /\ r.confirmed = row.confirmed
                      \/ row.deadline # 0
<1> DEFINE RowType == [status : {"DRAFT", "OPEN", "CLOSED", "EXPIRED"}, version : Nat,
                       cycle : Nat, deadline : Deadlines, confirmed : Nat, remind : Nat]
<1>1. /\ RecruitmentTyped /\ row \in RowType /\ now \in Nat /\ Deadlines \subseteq Nat
      /\ Period \in Nat \ {0} /\ draft.deadline \in Deadlines
  BY RecruitmentAssumption DEF RecruitmentInv, RecruitmentTyped
<1>2. c.kind \in {"update", "publish", "reopen", "close", "confirm", "revoke"} BY CommandParts
<1>3. CASE c.kind \in {"publish", "reopen"}
  <2>1. PICK new \in BOOLEAN : Acted(c) = Published(row, new) /\ who = draft.contacts
        /\ draft.contacts # {} /\ (c.kind = "reopen" => new) /\ (~new => row.status = "OPEN")
    <3>1. CASE c.kind = "publish" BY <3>1 DEF Acted, Suits, Status
    <3>2. CASE c.kind = "reopen" BY <3>2 DEF Acted, Suits
    <3> QED BY <1>3, <3>1, <3>2
  <2> DEFINE starts == new \/ (row.deadline # 0 /\ draft.deadline = 0)
             turns  == new \/ (row.deadline = 0) # (draft.deadline = 0)
             r == Published(row, new)
  <2>2. /\ r.status = "OPEN" /\ r.deadline = draft.deadline /\ r.version = row.version
        /\ r.cycle = (IF turns THEN row.cycle + 1 ELSE row.cycle)
        /\ r.confirmed = (IF draft.deadline # 0 THEN 0 ELSE IF starts THEN now ELSE row.confirmed)
        /\ r.remind = (IF draft.deadline # 0 THEN 0 ELSE IF starts THEN now + Period ELSE row.remind)
        /\ r = [status |-> r.status, version |-> r.version, cycle |-> r.cycle,
                deadline |-> r.deadline, confirmed |-> r.confirmed, remind |-> r.remind]
    <3> DEFINE turned == IF turns THEN row.cycle + 1 ELSE row.cycle
               asked == IF draft.deadline # 0 THEN 0 ELSE IF starts THEN now ELSE row.confirmed
               remind == IF draft.deadline # 0 THEN 0 ELSE IF starts THEN now + Period ELSE row.remind
    <3>1. r = [row EXCEPT !.status = "OPEN", !.deadline = draft.deadline, !.cycle = turned,
                          !.confirmed = asked, !.remind = remind]
      BY <1>1 DEF Published
    <3> HIDE DEF turned, asked, remind, r
    <3>2. r = [status |-> "OPEN", version |-> row.version, cycle |-> turned,
               deadline |-> draft.deadline, confirmed |-> asked, remind |-> remind]
      BY <1>1, <3>1
    <3> QED BY <3>2 DEF turned, asked, remind
  <2>3. row.confirmed <= now /\ (row.deadline = 0 /\ row.remind # 0 => row.confirmed < row.remind)
    BY DEF RecruitmentInv, RecruitmentTyped, CycleSound
  <2> HIDE DEF r
  <2>4. r \in RowType BY <1>1, <2>2
  <2>5. r.confirmed <= now /\ row.cycle <= r.cycle BY <1>1, <2>2, <2>3
  <2>6. r.deadline = 0 /\ r.remind # 0 => r.confirmed < r.remind
    BY <1>1, <2>1, <2>2, <2>3
  <2>7. r.cycle = row.cycle =>
            \/ r.deadline = row.deadline /\ r.remind = row.remind /\ r.confirmed = row.confirmed
            \/ row.deadline # 0
    BY <1>1, <2>1, <2>2
  <2>8. Acted(c) = r BY <2>1 DEF r
  <2> QED BY <2>1, <2>2, <2>4, <2>5, <2>6, <2>7, <2>8
<1>4. CASE c.kind = "update"
  BY <1>1, <1>4 DEF Acted, RecruitmentInv, RecruitmentTyped, ExpiredIsPast, OpenCanBeAnswered,
     CycleSound
<1>5. CASE c.kind = "close"
  BY <1>1, <1>5 DEF Acted, RecruitmentInv, RecruitmentTyped, CycleSound
<1>6. CASE c.kind = "confirm"
  <2> DEFINE r == [row EXCEPT !.cycle = row.cycle + 1, !.confirmed = now, !.remind = now + Period]
  <2>1. Acted(c) = r /\ who = contacts BY <1>1, <1>6 DEF Acted, Confirmed
  <2>2. row.status = "OPEN" /\ contacts # {}
    <3>1. Status = "OPEN" BY <1>6 DEF Suits
    <3>2. row.status = "OPEN" BY <3>1, Zenon DEF Status
    <3> QED BY <3>2 DEF RecruitmentInv, OpenCanBeAnswered
  <2>3. /\ r \in RowType /\ r.status = "OPEN" /\ r.confirmed = now /\ r.remind = now + Period
        /\ r.cycle = row.cycle + 1
    <3>1. now + Period \in Nat BY <1>1
    <3> DEFINE turned == row.cycle + 1
               remind == now + Period
    <3>2. r = [row EXCEPT !.cycle = turned, !.confirmed = now, !.remind = remind] OBVIOUS
    <3> HIDE DEF turned, remind, r
    <3>3. r = [status |-> row.status, version |-> row.version, cycle |-> turned,
               deadline |-> row.deadline, confirmed |-> now, remind |-> remind]
      BY <1>1, <3>2
    <3> QED BY <1>1, <2>2, <3>1, <3>3 DEF turned, remind
  <2> HIDE DEF r
  <2> QED BY <1>1, <2>1, <2>2, <2>3
<1>7. CASE c.kind = "revoke"
  <2>1. Acted(c) = WithoutContact(row, c.channel) /\ who = contacts \ {c.channel}
        /\ c.channel \in contacts
    BY <1>7 DEF Acted, Suits
  <2> QED
    BY <1>1, <2>1 DEF WithoutContact, RecruitmentInv, RecruitmentTyped, ExpiredIsPast,
       OpenCanBeAnswered, CycleSound
<1> QED BY <1>2, <1>3, <1>4, <1>5, <1>6, <1>7


LEMMA ArriveStep ==
    ASSUME RecruitmentInv, NEW q \in Requests, Arrive(q)
    PROVE  RecruitmentInv'
<1> DEFINE c == command[q].act
           RowType == [status : {"DRAFT", "OPEN", "CLOSED", "EXPIRED"}, version : Nat,
                       cycle : Nat, deadline : Deadlines, confirmed : Nat, remind : Nat]
<1>1. RecruitmentTyped /\ c \in Commands /\ row \in RowType
  BY DEF RecruitmentInv, RecruitmentTyped, Arrive
<1>2. CASE refused' = refused \cup {q} /\ UNCHANGED <<draft, row, contacts, receipts, withdrawn>>
  BY <1>1, <1>2 DEF Arrive, RecruitmentInv, RecruitmentTyped, RevokedStaysHidden, ExpiredIsPast,
     OpenCanBeAnswered, CycleSound, NoReminderBurst
<1>3. CASE Current(q) /\ Suits(c) /\ Apply(q, c) /\ UNCHANGED refused
  <2> DEFINE r == Acted(c)
  <2>1. /\ row' = [r EXCEPT !.version = @ + 1] /\ receipts' = receipts \cup {q}
        /\ UNCHANGED <<now, ownerActive, command, found, reminders, sent, refused>>
    BY <1>3 DEF Apply, Arrive
  <2>2. /\ draft' \in [contacts : SUBSET Channels, deadline : Deadlines]
        /\ contacts' \subseteq Channels /\ withdrawn' \subseteq Channels
        /\ (contacts' \cup draft'.contacts) \cap withdrawn' = {}
        /\ contacts' = CASE c.kind \in {"publish", "reopen"} -> draft.contacts
                         [] c.kind = "revoke" -> contacts \ {c.channel}
                         [] OTHER -> contacts
    <3>1. /\ draft \in [contacts : SUBSET Channels, deadline : Deadlines]
          /\ contacts \subseteq Channels /\ withdrawn \subseteq Channels
          /\ (contacts \cup draft.contacts) \cap withdrawn = {}
      BY DEF RecruitmentInv, RecruitmentTyped, RevokedStaysHidden
    <3>2. command[q].version = row.version BY <1>3 DEF Current
    <3>3. c.kind \in {"update", "publish", "reopen", "close", "confirm", "revoke"} BY <1>1, CommandParts
    <3>4. CASE c.kind = "update"
      <4>1. draft' = c.fields /\ contacts' = contacts /\ withdrawn' = withdrawn \ c.fields.contacts
        BY <1>3, <3>2, <3>4 DEF Apply
      <4>2. c.fields \in [contacts : SUBSET Channels, deadline : Deadlines]
        BY <1>1, <3>4, CommandParts
      <4> HIDE DEF c
      <4> QED BY <3>1, <3>4, <4>1, <4>2
    <3>5. CASE c.kind = "revoke"
      <4>1. /\ draft' = [draft EXCEPT !.contacts = @ \ {c.channel}]
            /\ contacts' = contacts \ {c.channel} /\ withdrawn' = withdrawn \cup {c.channel}
        BY <1>3, <3>5 DEF Apply, Dropped
      <4>2. c.channel \in Channels BY <1>1, <3>5, CommandParts
      <4> HIDE DEF c
      <4> QED BY <3>1, <3>5, <4>1, <4>2
    <3>6. CASE c.kind \in {"publish", "reopen"}
      <4>1. draft' = draft /\ contacts' = draft.contacts /\ withdrawn' = withdrawn
        BY <1>3, <3>6 DEF Apply
      <4> HIDE DEF c
      <4> QED BY <3>1, <3>6, <4>1
    <3>7. CASE c.kind \in {"close", "confirm"}
      <4>1. draft' = draft /\ contacts' = contacts /\ withdrawn' = withdrawn
        BY <1>3, <3>7 DEF Apply
      <4> HIDE DEF c
      <4> QED BY <3>1, <3>7, <4>1
    <3> QED BY <3>3, <3>4, <3>5, <3>6, <3>7
  <2>3. /\ r \in RowType /\ r.confirmed <= now /\ row.cycle <= r.cycle
        /\ r.status = "EXPIRED" => r.deadline # 0 /\ r.deadline <= now
        /\ r.status = "OPEN" => contacts' # {}
        /\ r.deadline = 0 /\ r.remind # 0 => r.confirmed < r.remind
        /\ r.cycle = row.cycle =>
               \/ r.deadline = row.deadline /\ r.remind = row.remind /\ r.confirmed = row.confirmed
               \/ row.deadline # 0
    <3> HIDE DEF c
    <3> QED BY <1>1, <1>3, <2>2, CommandActs
  <2> HIDE DEF r, c
  <2>4. /\ row' \in RowType /\ row'.status = r.status /\ row'.cycle = r.cycle
        /\ row'.deadline = r.deadline /\ row'.confirmed = r.confirmed /\ row'.remind = r.remind
    BY <2>1, <2>3
  <2>5. RecruitmentTyped'
    BY <1>1, <2>1, <2>2, <2>3, <2>4 DEF RecruitmentTyped
  <2>6. CycleSound'
    <3>1. row'.deadline = 0 /\ row'.remind # 0 => row'.confirmed < row'.remind BY <2>3, <2>4
    <3>2. ASSUME NEW m \in reminders'
          PROVE  /\ m.cycle <= row'.cycle
                 /\ m.cycle = row'.cycle =>
                        row'.deadline = 0 /\ m.at < row'.remind /\ row'.confirmed < m.due
      <4>1. /\ m \in reminders /\ m \in [cycle : Nat, due : Nat, at : Nat] /\ m.cycle <= row.cycle
            /\ m.cycle = row.cycle => row.deadline = 0 /\ m.at < row.remind /\ row.confirmed < m.due
        BY <1>1, <2>1, <3>2 DEF RecruitmentInv, CycleSound, RecruitmentTyped
      <4> QED BY <1>1, <2>3, <2>4, <4>1
    <3> QED BY <3>1, <3>2 DEF CycleSound
  <2>7. ExpiredIsPast' /\ OpenCanBeAnswered' /\ RevokedStaysHidden'
    BY <2>1, <2>2, <2>3, <2>4 DEF ExpiredIsPast, OpenCanBeAnswered, RevokedStaysHidden
  <2>8. NoReminderBurst' BY <2>1 DEF RecruitmentInv, NoReminderBurst
  <2> QED BY <2>5, <2>6, <2>7, <2>8 DEF RecruitmentInv
<1> QED BY <1>2, <1>3 DEF Arrive

LEMMA RemindStep ==
    ASSUME RecruitmentInv, Remind
    PROVE  RecruitmentInv'
<1> DEFINE RowType == [status : {"DRAFT", "OPEN", "CLOSED", "EXPIRED"}, version : Nat,
                       cycle : Nat, deadline : Deadlines, confirmed : Nat, remind : Nat]
           m == [cycle |-> row.cycle, due |-> row.remind, at |-> now]
           next == NextDue(row.remind)
<1>1. RecruitmentTyped /\ row \in RowType /\ now \in Nat
  BY RecruitmentAssumption DEF RecruitmentInv, RecruitmentTyped
<1>2. row.deadline = 0 /\ row.remind # 0 /\ row.remind <= now /\ row.status = "OPEN"
  BY <1>1 DEF Remind, Remindable, Effective
<1>3. next \in Nat /\ now < next BY <1>1, <1>2, DueLater
<1>4. /\ row' = [row EXCEPT !.remind = next, !.version = @ + 1]
      /\ reminders' = reminders \cup {m} /\ found' = FALSE
      /\ UNCHANGED <<now, ownerActive, draft, contacts, command, receipts, refused, withdrawn, sent>>
  BY DEF Remind
<1> HIDE DEF next
<1>5. /\ row' \in RowType /\ row'.status = row.status /\ row'.cycle = row.cycle
      /\ row'.deadline = row.deadline /\ row'.confirmed = row.confirmed /\ row'.remind = next
  <2>1. row' = [status |-> row.status, version |-> row.version + 1, cycle |-> row.cycle,
                deadline |-> row.deadline, confirmed |-> row.confirmed, remind |-> next]
    BY <1>1, <1>3, <1>4, RowUpdates
  <2> QED BY <1>1, <1>3, <2>1
<1>6. m \in [cycle : Nat, due : Nat, at : Nat] BY <1>1
<1>7. RecruitmentTyped' BY <1>1, <1>4, <1>5, <1>6 DEF RecruitmentTyped
<1>8. row.confirmed < row.remind /\ row.confirmed < next
  BY <1>1, <1>2, <1>3 DEF RecruitmentInv, CycleSound
<1>9. \A x \in reminders :
          /\ x.cycle <= row.cycle /\ x \in [cycle : Nat, due : Nat, at : Nat]
          /\ x.cycle = row.cycle => x.at < row.remind /\ row.confirmed < x.due
  BY <1>1 DEF RecruitmentInv, CycleSound, RecruitmentTyped
<1>10. CycleSound'
  BY <1>1, <1>2, <1>3, <1>4, <1>5, <1>8, <1>9 DEF CycleSound
<1>11. NoReminderBurst'
  <2>1. \A x \in reminders : ~(x.cycle = m.cycle /\ x.at = m.at) BY <1>1, <1>2, <1>9
  <2> QED BY <1>4, <2>1 DEF RecruitmentInv, NoReminderBurst
<1>12. ExpiredIsPast' /\ OpenCanBeAnswered' /\ RevokedStaysHidden'
  BY <1>4, <1>5 DEF RecruitmentInv, ExpiredIsPast, OpenCanBeAnswered, RevokedStaysHidden
<1> QED BY <1>7, <1>10, <1>11, <1>12 DEF RecruitmentInv

LEMMA RecruitmentStep == RecruitmentInv /\ [RecruitmentNext]_recruitmentVars => RecruitmentInv'
<1> SUFFICES ASSUME RecruitmentInv, [RecruitmentNext]_recruitmentVars PROVE RecruitmentInv'
  OBVIOUS
<1> USE DEF RevokedStaysHidden, ExpiredIsPast, OpenCanBeAnswered, CycleSound, NoReminderBurst,
            RecruitmentInv, RecruitmentTyped
<1>1. ASSUME NEW q \in Requests, NEW c \in Commands, Compose(q, c) PROVE RecruitmentInv'
  BY <1>1 DEF Compose
<1>2. CASE Expire
  <2>1. /\ row' = [row EXCEPT !.status = "EXPIRED", !.version = @ + 1] /\ found' = FALSE
        /\ UNCHANGED <<now, ownerActive, draft, contacts, command, receipts, refused, withdrawn,
                       reminders, sent>>
        /\ row.deadline # 0 /\ now >= row.deadline
    BY <1>2 DEF Expire, Expirable
  <2>2. /\ row' \in [status : {"DRAFT", "OPEN", "CLOSED", "EXPIRED"}, version : Nat,
                     cycle : Nat, deadline : Deadlines, confirmed : Nat, remind : Nat]
        /\ row'.status = "EXPIRED" /\ row'.cycle = row.cycle
        /\ row'.deadline = row.deadline /\ row'.confirmed = row.confirmed /\ row'.remind = row.remind
    <3>1. row \in [status : {"DRAFT", "OPEN", "CLOSED", "EXPIRED"}, version : Nat,
                   cycle : Nat, deadline : Deadlines, confirmed : Nat, remind : Nat]
      OBVIOUS
    <3>2. row' = [status |-> "EXPIRED", version |-> row.version + 1, cycle |-> row.cycle,
                  deadline |-> row.deadline, confirmed |-> row.confirmed, remind |-> row.remind]
      BY <2>1, <3>1, RowUpdates
    <3> QED BY <3>1, <3>2
  <2>3. row'.deadline <= now' BY <2>1, <2>2, RecruitmentAssumption
  <2> QED BY <2>1, <2>2, <2>3
<1>3. CASE Scan \/ Skip \/ ToggleOwner \/ UNCHANGED recruitmentVars
  BY <1>3 DEF Scan, Skip, ToggleOwner, recruitmentVars
<1>4. ASSUME NEW m \in reminders, SendReminder(m) PROVE RecruitmentInv'
  BY <1>4 DEF SendReminder
<1>5. CASE Pass
  <2>1. now' \in 1 .. MaxNow /\ now <= now' /\ now \in Nat /\ row.confirmed \in Nat /\ row.deadline \in Nat
    BY <1>5, RecruitmentAssumption DEF Pass
  <2>2. UNCHANGED <<ownerActive, draft, row, contacts, command, receipts, refused, withdrawn,
                   found, reminders, sent>>
    BY <1>5 DEF Pass
  <2>3. row'.confirmed <= now' /\ (row.deadline <= now => row'.deadline <= now') BY <2>1, <2>2
  <2> QED BY <2>1, <2>2, <2>3
<1> QED BY <1>1, <1>2, <1>3, <1>4, <1>5, ArriveStep, RemindStep
    DEF RecruitmentNext, OwnerRequests, ScanNext

\* A recruitment post keeps its promises to its owner, for any number of
\* channels, requests, retries and missed reminders
\* (innovation/recruitment_service.py, recruitment_scheduler.py).
THEOREM RecruitmentKeepsContract == RecruitmentSpec => RecruitmentContract
<1>1. RecruitmentInv => /\ RecruitmentTypeOK /\ RevokedStaysHidden /\ ExpiredIsPast
                        /\ OpenCanBeAnswered /\ NoReminderBurst
  <2>1. RecruitmentInv => RecruitmentTypeOK
    BY RecruitmentAssumption DEF RecruitmentInv, RecruitmentTyped, RecruitmentTypeOK
  <2> QED BY <2>1 DEF RecruitmentInv
<1>2. RecruitmentInv /\ [RecruitmentNext]_recruitmentVars =>
          [\A q \in receipts : q \in refused' => q \in refused]_recruitmentVars
  <2> SUFFICES ASSUME RecruitmentInv, RecruitmentNext, NEW q \in receipts, q \in refused'
               PROVE  q \in refused
    BY DEF recruitmentVars
  <2>1. ASSUME NEW p \in Requests, Arrive(p) PROVE q \in refused
    BY <2>1 DEF Arrive, Replays
  <2>2. CASE refused' = refused BY <2>2
  <2> QED BY <2>1, <2>2 DEF RecruitmentNext, OwnerRequests, ScanNext, Compose, Scan, Expire, Remind,
             Skip, SendReminder, ToggleOwner, Pass
<1>3. RecruitmentInv /\ [RecruitmentNext]_recruitmentVars =>
          [\A m \in sent' \ sent : row.status = "OPEN" /\ row.confirmed < m.due]_recruitmentVars
  <2> SUFFICES ASSUME RecruitmentInv, RecruitmentNext, NEW m \in sent' \ sent
               PROVE  row.status = "OPEN" /\ row.confirmed < m.due
    BY DEF recruitmentVars
  <2>1. ASSUME NEW n \in reminders, SendReminder(n) PROVE row.status = "OPEN" /\ row.confirmed < m.due
    BY <2>1 DEF SendReminder, Effective, RecruitmentInv, CycleSound
  <2>2. CASE sent' = sent BY <2>2
  <2> QED BY <2>1, <2>2 DEF RecruitmentNext, OwnerRequests, ScanNext, Compose, Arrive, Scan, Expire,
             Remind, Skip, ToggleOwner, Pass
<1> QED
  BY <1>1, <1>2, <1>3, RecruitmentStarts, RecruitmentStep, PTL
  DEF RecruitmentSpec, RecruitmentContract, AppliedIsNotRefused, ConfirmedIsNotAsked

-----------------------------------------------------------------------------
(* Talent profiles.                                                        *)

\* What a window shows is the profile, unless the profile has moved on.
WindowsSound ==
    \A m \in Windows : window[m] # Absence =>
        /\ window[m].version <= profile.version
        /\ window[m].version = profile.version => window[m].base = profile.fields

\* So is what a viewer was shown of the contacts; what a viewer has loaded has
\* the digest it opened.
ViewsSound ==
    \A v \in Viewers :
        /\ view[v].at = "SEEN" =>
              /\ view[v].number <= profile.number
              /\ view[v].number = profile.number =>
                    public # Absence /\ public.contacts = view[v].shown
        /\ view[v].at \in {"LOADING", "LOADED"} => view[v].of \in Works
        /\ view[v].at = "LOADED" => view[v].got = {view[v].digest}

ProbesSound == \A p \in Probes : probe[p].at \in {"READING", "FOUND"} => probe[p].of \in Works

TalentInv ==
    /\ TalentTypeOK /\ VisibleWorksUsable /\ ContactsAsShown /\ AppliedIsNotDenied
    /\ WindowsSound /\ ViewsSound /\ ProbesSound

LEMMA TalentStart == TalentInit => TalentInv
<1> SUFFICES ASSUME TalentInit PROVE TalentInv OBVIOUS
<1>1. 0 \in Bytes /\ 0 \notin Clean /\ Absence \notin Probes BY TalentAssumption
<1>2. NoWork \in FileRows /\ NoWork.token = Absence /\ NoWork.state = "NONE" /\ NoWork.digest = 0
  BY DEF NoWork, FileRows
<1>3. \A f \in Works : /\ work[f] \in FileRows
                       /\ (work[f].token # Absence) = (work[f].state = "CHECKING")
                       /\ (work[f].digest # 0) = (work[f].state = "READY")
  BY <1>1, <1>2 DEF TalentInit, FileRows
<1>4. work \in [Works -> FileRows] BY <1>3 DEF TalentInit
<1>5. address \in [Works -> Bytes] BY <1>3, TalentAssumption DEF TalentInit, FileRows
<1>6. profile \in [version : Nat, fields : Content, visible : BOOLEAN, number : Nat] /\ ~profile.visible
  <2>1. Empty \in Content BY DEF Empty, Content
  <2>2. PICK n \in {0, 1}, content \in Content :
            profile = [version |-> n, fields |-> content, visible |-> FALSE, number |-> 0]
    BY <2>1 DEF TalentInit
  <2> QED BY <2>2
<1>7. window \in [Windows -> WindowRows \cup {Absence}] /\ \A m \in Windows : window[m] = Absence
  BY DEF TalentInit
<1>8. probe \in [Probes -> ProbeRows] /\ \A p \in Probes : probe[p].at = "NEW"
  BY <1>1 DEF TalentInit, ProbeRows
<1>9. view \in [Viewers -> ViewRows] /\ \A v \in Viewers : view[v].at = "NEW"
  BY <1>1 DEF TalentInit, ViewRows
<1>10. TalentTypeOK BY <1>3, <1>4, <1>5, <1>6, <1>7, <1>8, <1>9 DEF TalentInit, TalentTypeOK
<1>11. VisibleWorksUsable BY <1>6 DEF VisibleWorksUsable
<1>12. AppliedIsNotDenied /\ WindowsSound BY <1>7 DEF AppliedIsNotDenied, WindowsSound
<1>13. ProbesSound BY <1>8 DEF ProbesSound
<1>14. ContactsAsShown /\ ViewsSound BY <1>9 DEF ContactsAsShown, ViewsSound
<1> QED BY <1>10, <1>11, <1>12, <1>13, <1>14 DEF TalentInv

-----------------------------------------------------------------------------
(* The owner's windows.                                                    *)

LEMMA ShowStep ==
    ASSUME TalentInv, NEW m \in Windows, Show(m)
    PROVE  TalentInv'
<1> DEFINE fresh == [version |-> profile.version, base |-> profile.fields, done |-> FALSE,
                     answer |-> "none"]
<1>1. /\ window' = [window EXCEPT ![m] = fresh] /\ TalentTypeOK
      /\ UNCHANGED <<profile, public, work, address, probe, view, inOffice>>
  BY DEF Show, profileVars, TalentInv
<1>2. fresh \in WindowRows /\ fresh.version = profile.version /\ fresh.base = profile.fields /\ ~fresh.done
      /\ profile.version \in Nat
  BY <1>1 DEF TalentTypeOK, WindowRows
<1> HIDE DEF fresh
<1>3. \A w \in Windows : window'[w] = IF w = m THEN fresh ELSE window[w] BY <1>1 DEF TalentTypeOK
<1>4. TalentTypeOK' BY <1>1, <1>2 DEF TalentTypeOK
<1>5. WindowsSound' BY <1>1, <1>2, <1>3 DEF TalentInv, WindowsSound
<1>6. AppliedIsNotDenied' BY <1>2, <1>3 DEF TalentInv, AppliedIsNotDenied
<1> QED
  BY <1>1, <1>4, <1>5, <1>6
     DEF TalentInv, VisibleWorksUsable, Readable, ContactsAsShown, ViewsSound, ProbesSound

LEMMA RepeatStep ==
    ASSUME TalentInv, NEW m \in Windows, Repeat(m)
    PROVE  TalentInv'
<1>1. /\ window' = [window EXCEPT ![m].answer = "ok"] /\ TalentTypeOK
      /\ window[m] \in WindowRows
      /\ UNCHANGED <<profile, public, work, address, probe, view, inOffice>>
  BY DEF Repeat, Answered, profileVars, TalentInv, TalentTypeOK
<1>2. [window[m] EXCEPT !.answer = "ok"] \in WindowRows BY <1>1 DEF WindowRows
<1>3. \A w \in Windows : window'[w] = IF w = m THEN [window[m] EXCEPT !.answer = "ok"] ELSE window[w]
  BY <1>1 DEF TalentTypeOK
<1>4. TalentTypeOK' BY <1>1, <1>2 DEF TalentTypeOK
<1>5. WindowsSound'
  BY <1>1, <1>3, TalentAssumption DEF TalentInv, WindowsSound, WindowRows
<1>6. AppliedIsNotDenied' BY <1>1, <1>3 DEF TalentInv, AppliedIsNotDenied, WindowRows
<1> QED
  BY <1>1, <1>4, <1>5, <1>6
     DEF TalentInv, VisibleWorksUsable, Readable, ContactsAsShown, ViewsSound, ProbesSound

LEMMA ApplyStep ==
    ASSUME TalentInv, NEW m \in Windows, NEW a \in Acts, ApplyWindow(m, a.act, a.of)
    PROVE  TalentInv'
<1> DEFINE act == a.act
           of == a.of
           fresh == [window[m] EXCEPT !.done = TRUE, !.answer = "ok"]
<1>1. /\ TalentTypeOK /\ window[m] \in WindowRows /\ Allowed(act, of)
      /\ profile' = [version |-> profile.version + 1, fields |-> NewFields(act, of),
                     visible |-> NewVisible(act), number |-> NextNumber(act)]
      /\ public' = NewPublic(act, of) /\ work' = NewWork(act, of)
      /\ window' = [window EXCEPT ![m] = fresh]
      /\ UNCHANGED <<address, probe, view, inOffice>>
  BY DEF ApplyWindow, TalentInv, TalentTypeOK
<1>2. \/ act = "save" /\ of \in Content
      \/ act \in {"publish", "hide"}
      \/ act = "revoke-contact"
      \/ act \in {"remove", "revoke"} /\ of \in Works
  <2>1. CASE \E fields \in Content : a = [act |-> "save", of |-> fields] BY <2>1
  <2>2. CASE \E k \in {"publish", "hide"} : a = [act |-> k, of |-> Absence] BY <2>2
  <2>3. CASE \E c \in Contacts : a = [act |-> "revoke-contact", of |-> c] BY <2>3
  <2>4. CASE \E k \in {"remove", "revoke"}, f \in Works : a = [act |-> k, of |-> f] BY <2>4
  <2> QED BY <2>1, <2>2, <2>3, <2>4 DEF Acts
<1>3. /\ profile.fields \in Content /\ profile.visible \in BOOLEAN /\ profile.number \in Nat
      /\ profile.version \in Nat /\ public \in Content \cup {Absence} /\ Absence \notin Content
  BY <1>1, TalentAssumption DEF TalentTypeOK
<1>4. \A content \in Content : \A f, c : Without(content, f, c) \in Content BY DEF Without, Content
<1>5. /\ NewFields(act, of) \in Content /\ NewVisible(act) \in BOOLEAN /\ NextNumber(act) \in Nat
      /\ NewPublic(act, of) \in Content \cup {Absence}
  <2>1. NewFields(act, of) \in Content BY <1>2, <1>3, <1>4 DEF NewFields
  <2>2. NewVisible(act) \in BOOLEAN /\ NextNumber(act) \in Nat
    <3>1. NewVisible(act) \in {TRUE, FALSE, profile.visible} BY DEF NewVisible
    <3>2. NextNumber(act) \in Nat BY <1>3 DEF NextNumber
    <3> QED BY <1>3, <3>1, <3>2
  <2>3. act \in {"revoke-contact", "revoke"} => public \in Content
    BY <1>1, <1>3 DEF Allowed
  <2>4. NewPublic(act, of) \in Content \cup {Absence}
    <3>1. CASE act \in {"save", "hide", "remove"} BY <1>3, <3>1 DEF NewPublic
    <3>2. CASE act = "publish" BY <1>3, <3>2 DEF NewPublic
    <3>3. CASE act \in {"revoke-contact", "revoke"} BY <1>4, <2>3, <3>3 DEF NewPublic
    <3> QED BY <1>2, <3>1, <3>2, <3>3
  <2> QED BY <2>1, <2>2, <2>4
<1>6. fresh \in WindowRows /\ fresh.done /\ fresh.answer = "ok" /\ fresh.version = window[m].version
  BY <1>1 DEF WindowRows
<1> HIDE DEF fresh
<1>7. \A w \in Windows : window'[w] = IF w = m THEN fresh ELSE window[w] BY <1>1 DEF TalentTypeOK
<1>8. /\ work' \in [Works -> FileRows]
      /\ \A f \in Works :
            /\ work'[f].token # Absence <=> work'[f].state = "CHECKING"
            /\ work'[f].digest # 0 <=> work'[f].state = "READY"
            /\ Readable(f) /\ (f = of => act \notin {"remove", "revoke"}) => Readable(f)'
  <2>1. CASE act \notin {"remove", "revoke"}
    <3>1. work' = work BY <1>1, <2>1 DEF NewWork
    <3> QED BY <1>1, <3>1 DEF TalentTypeOK, Readable
  <2>2. CASE act \in {"remove", "revoke"}
    <3> DEFINE file == [work[of] EXCEPT !.removed = @ \/ act = "remove",
                                        !.revoked = @ \/ act = "revoke", !.token = Absence,
                                        !.state = IF @ = "CHECKING" THEN "PENDING" ELSE @]
    <3>1. of \in Works /\ work[of] \in FileRows BY <1>1, <1>2, <2>2 DEF TalentTypeOK
    <3>2. work' = [work EXCEPT ![of] = file] BY <1>1, <2>2, <3>1 DEF NewWork, TalentTypeOK
    <3>3. file \in FileRows /\ file.token = Absence /\ file.digest = work[of].digest
          /\ file.state = (IF work[of].state = "CHECKING" THEN "PENDING" ELSE work[of].state)
      BY <3>1 DEF FileRows
    <3> HIDE DEF file
    <3>4. \A f \in Works : work'[f] = IF f = of THEN file ELSE work[f] BY <1>1, <3>2 DEF TalentTypeOK
    <3>5. work' \in [Works -> FileRows] BY <1>1, <3>2, <3>3 DEF TalentTypeOK
    <3> QED BY <1>1, <2>2, <3>1, <3>3, <3>4, <3>5 DEF TalentTypeOK, Readable
  <2> QED BY <2>1, <2>2
<1>9. TalentTypeOK'
  <2>1. window' \in [Windows -> WindowRows \cup {Absence}] BY <1>1, <1>6 DEF TalentTypeOK
  <2>2. profile' \in [version : Nat, fields : Content, visible : BOOLEAN, number : Nat]
    BY <1>1, <1>3, <1>5
  <2> QED BY <1>1, <1>5, <1>8, <2>1, <2>2 DEF TalentTypeOK
<1>10. VisibleWorksUsable'
  <2> SUFFICES ASSUME profile'.visible
               PROVE  public' # Absence /\ \A f \in public'.works : Readable(f)'
    BY DEF VisibleWorksUsable
  <2>1. CASE act = "publish"
    <3>1. public' = profile.fields /\ \A f \in profile.fields.works : Readable(f) /\ f \in Works
      BY <1>1, <1>3, <2>1 DEF NewPublic, Allowed, Content
    <3> QED BY <1>3, <1>8, <2>1, <3>1
  <2>2. CASE act # "publish"
    <3>1. profile.visible /\ public # Absence /\ public \in Content
          /\ \A f \in public.works : Readable(f) /\ f \in Works
      BY <1>1, <1>2, <1>3, <2>2 DEF NewVisible, TalentInv, VisibleWorksUsable, Content
    <3>2. public' # Absence /\ public'.works \subseteq public.works
          /\ (act \in {"remove", "revoke"} => of \notin public'.works)
      <4>1. CASE act \in {"save", "hide"} BY <1>1, <3>1, <4>1 DEF NewPublic
      <4>2. CASE act = "remove" BY <1>1, <3>1, <4>2 DEF NewPublic, Allowed, InUse
      <4>3. CASE act = "revoke"
        <5>1. public' = Without(public, {of}, {}) BY <1>1, <4>3 DEF NewPublic
        <5>2. public' \in Content BY <1>4, <3>1, <5>1
        <5> QED BY <1>3, <5>1, <5>2 DEF Without
      <4>4. CASE act = "revoke-contact"
        <5>1. public' = Without(public, {}, {of}) BY <1>1, <4>4 DEF NewPublic
        <5>2. public' \in Content BY <1>4, <3>1, <5>1
        <5> QED BY <1>3, <4>4, <5>1, <5>2 DEF Without
      <4> QED BY <1>2, <2>2, <4>1, <4>2, <4>3, <4>4
    <3> QED BY <1>8, <3>1, <3>2
  <2> QED BY <2>1, <2>2
<1>11. ContactsAsShown' /\ ProbesSound' BY <1>1 DEF TalentInv, ContactsAsShown, ProbesSound
<1>12. AppliedIsNotDenied' BY <1>6, <1>7 DEF TalentInv, AppliedIsNotDenied
<1>13. WindowsSound'
  <2>1. profile'.version = profile.version + 1 BY <1>1
  <2>2. \A w \in Windows : window[w] # Absence => window[w].version \in Nat
    BY <1>1 DEF TalentTypeOK, WindowRows
  <2>3. \A w \in Windows : window[w] # Absence => window[w].version <= profile.version
    BY DEF TalentInv, WindowsSound
  <2>4. window[m] # Absence BY DEF ApplyWindow
  <2>5. ASSUME NEW w \in Windows, window'[w] # Absence
        PROVE  window'[w].version \in Nat /\ window'[w].version <= profile.version
    BY <1>6, <1>7, <2>2, <2>3, <2>4, <2>5
  <2> QED BY <1>3, <2>1, <2>5 DEF WindowsSound
<1>14. ViewsSound'
  <2>1. \/ act \in {"save", "remove"} /\ profile'.number = profile.number /\ public' = public
        \/ profile'.number = profile.number + 1
    BY <1>1, <1>2, <1>3 DEF NextNumber, NewPublic
  <2>2. \A v \in Viewers : view[v].number \in Nat BY <1>1 DEF TalentTypeOK, ViewRows
  <2> QED BY <1>1, <1>3, <2>1, <2>2 DEF TalentInv, ViewsSound
<1> QED BY <1>9, <1>10, <1>11, <1>12, <1>13, <1>14 DEF TalentInv

-----------------------------------------------------------------------------
(* The uploaded works and their checks.                                    *)

\* One file changes, and none that can be read becomes unreadable.
LEMMA FileChanges ==
    ASSUME TalentInv, NEW f \in Works, NEW fresh \in FileRows, ~Readable(f),
           work' = [work EXCEPT ![f] = fresh], (fresh.token # Absence) = (fresh.state = "CHECKING"),
           (fresh.digest # 0) = (fresh.state = "READY"),
           UNCHANGED <<profile, public, window, view, inOffice>>,
           address' \in [Works -> Bytes], probe' \in [Probes -> ProbeRows], ProbesSound'
    PROVE  TalentInv'
<1>1. TalentTypeOK BY DEF TalentInv
<1>2. \A g \in Works : work'[g] = IF g = f THEN fresh ELSE work[g] BY <1>1 DEF TalentTypeOK
<1>3. TalentTypeOK' BY <1>1, <1>2 DEF TalentTypeOK
<1>4. VisibleWorksUsable'
  <2> SUFFICES ASSUME profile.visible
               PROVE  public # Absence /\ \A g \in public.works : Readable(g)'
    BY DEF VisibleWorksUsable
  <2>1. public \in Content /\ \A g \in public.works : Readable(g) /\ g \in Works
    BY <1>1 DEF TalentInv, VisibleWorksUsable, TalentTypeOK, Content
  <2>2. ASSUME NEW g \in public.works PROVE Readable(g)'
    <3>1. g \in Works /\ g # f /\ Readable(g) BY <2>1, <2>2
    <3>2. work'[g] = work[g] BY <1>2, <3>1
    <3> QED BY <3>1, <3>2 DEF Readable
  <2> QED BY <2>2 DEF TalentInv, VisibleWorksUsable
<1>5. ContactsAsShown' /\ AppliedIsNotDenied' /\ WindowsSound' /\ ViewsSound'
  BY DEF TalentInv, ContactsAsShown, AppliedIsNotDenied, WindowsSound, ViewsSound
<1> QED BY <1>3, <1>4, <1>5 DEF TalentInv

LEMMA CreateWorkStep ==
    ASSUME TalentInv, NEW f \in Works, CreateWork(f)
    PROVE  TalentInv'
<1> DEFINE fresh == [NoWork EXCEPT !.state = "PENDING"]
<1>1. /\ work' = [work EXCEPT ![f] = fresh] /\ work[f] = NoWork
      /\ UNCHANGED <<profile, public, address, window, probe, view, inOffice>>
  BY DEF CreateWork, TalentInv, TalentTypeOK, profileVars
<1>2. fresh \in FileRows /\ fresh.token = Absence /\ fresh.digest = 0 /\ fresh.state = "PENDING"
  BY DEF NoWork, FileRows
<1>3. ~Readable(f) BY <1>1 DEF Readable, NoWork
<1>4. ProbesSound' /\ address' \in [Works -> Bytes] /\ probe' \in [Probes -> ProbeRows]
  BY <1>1 DEF TalentInv, ProbesSound, TalentTypeOK
<1> HIDE DEF fresh
<1> QED BY <1>1, <1>2, <1>3, <1>4, FileChanges

LEMMA PutStep ==
    ASSUME TalentInv, NEW f \in Works, NEW x \in Bytes, Put(f, x)
    PROVE  TalentInv'
<1>1. /\ address' \in [Works -> Bytes]
      /\ UNCHANGED <<profile, public, work, window, probe, view, inOffice>>
  BY DEF Put, TalentInv, TalentTypeOK, profileVars
<1>2. TalentTypeOK' BY <1>1 DEF TalentInv, TalentTypeOK
<1>3. VisibleWorksUsable' BY <1>1 DEF TalentInv, VisibleWorksUsable, Readable
<1> QED
  BY <1>1, <1>2, <1>3
     DEF TalentInv, ContactsAsShown, AppliedIsNotDenied, WindowsSound, ViewsSound, ProbesSound

LEMMA StartProbeStep ==
    ASSUME TalentInv, NEW p \in Probes, NEW f \in Works, StartProbe(p, f)
    PROVE  TalentInv'
<1> DEFINE fresh == [work[f] EXCEPT !.state = "CHECKING", !.token = p]
           call == [at |-> "READING", of |-> f, found |-> 0]
<1>1. /\ TalentTypeOK /\ work[f] \in FileRows /\ work[f].state \in {"PENDING", "CHECKING"}
      /\ work[f].digest = 0 /\ p # Absence
  BY TalentAssumption DEF StartProbe, TalentInv, TalentTypeOK
<1>2. /\ work' = [work EXCEPT ![f] = fresh] /\ probe' = [probe EXCEPT ![p] = call]
      /\ UNCHANGED <<profile, public, address, window, view, inOffice>>
  BY <1>1 DEF StartProbe, TalentTypeOK, profileVars
<1>3. fresh \in FileRows /\ fresh.token = p /\ fresh.digest = 0 /\ fresh.state = "CHECKING"
  BY <1>1 DEF FileRows
<1>4. call \in ProbeRows /\ call.of \in Works BY TalentAssumption DEF ProbeRows
<1>5. ~Readable(f) BY <1>1 DEF Readable
<1> HIDE DEF fresh, call
<1>6. probe' \in [Probes -> ProbeRows] /\ ProbesSound'
  BY <1>1, <1>2, <1>4 DEF TalentTypeOK, TalentInv, ProbesSound
<1>7. address' \in [Works -> Bytes] BY <1>1, <1>2 DEF TalentTypeOK
<1> QED BY <1>1, <1>2, <1>3, <1>5, <1>6, <1>7, FileChanges

\* A check that ends, or finds something, leaves the rows as they are.
LEMMA ProbeMoves ==
    ASSUME TalentInv, UNCHANGED <<profile, public, work, address, window, view, inOffice>>,
           probe' \in [Probes -> ProbeRows], ProbesSound'
    PROVE  TalentInv'
<1>1. TalentTypeOK' BY DEF TalentInv, TalentTypeOK
<1>2. VisibleWorksUsable' BY DEF TalentInv, VisibleWorksUsable, Readable
<1> QED
  BY <1>1, <1>2
     DEF TalentInv, ContactsAsShown, AppliedIsNotDenied, WindowsSound, ViewsSound

LEMMA EndProbeStep ==
    ASSUME TalentInv, NEW p \in Probes, NEW x \in Bytes, EndProbe(p, x)
    PROVE  TalentInv'
<1> DEFINE call == [probe[p] EXCEPT !.at = "FOUND", !.found = x]
<1>1. TalentTypeOK /\ probe[p] \in ProbeRows BY DEF TalentInv, TalentTypeOK
<1>2. /\ probe' = [probe EXCEPT ![p] = call] /\ probe[p].at = "READING"
      /\ UNCHANGED <<profile, public, work, address, window, view, inOffice>>
  BY <1>1 DEF EndProbe, TalentTypeOK, profileVars
<1>3. call \in ProbeRows /\ call.of = probe[p].of BY <1>1 DEF ProbeRows
<1>4. call.of \in Works BY <1>2, <1>3 DEF TalentInv, ProbesSound
<1> HIDE DEF call
<1>5. probe' \in [Probes -> ProbeRows] /\ ProbesSound'
  BY <1>1, <1>2, <1>3, <1>4 DEF TalentTypeOK, TalentInv, ProbesSound
<1> QED BY <1>2, <1>5, ProbeMoves

LEMMA ProbeEnds ==
    ASSUME TalentInv, NEW p \in Probes, probe' = [probe EXCEPT ![p] = Ended]
    PROVE  probe' \in [Probes -> ProbeRows] /\ ProbesSound'
<1>1. Ended \in ProbeRows /\ Ended.at = "ENDED" BY TalentAssumption DEF Ended, ProbeRows
<1> HIDE DEF Ended
<1> QED BY <1>1 DEF TalentInv, TalentTypeOK, ProbesSound

LEMMA ReportStep ==
    ASSUME TalentInv, NEW p \in Probes, ReportProbe(p)
    PROVE  TalentInv'
<1> DEFINE f == probe[p].of
           fresh == [work[f] EXCEPT
                       !.state = CASE probe[p].found = 0 -> "PENDING"
                                   [] probe[p].found \in Clean -> "READY"
                                   [] OTHER -> "REJECTED",
                       !.digest = IF probe[p].found \in Clean THEN probe[p].found ELSE 0,
                       !.token = Absence]
<1>1. /\ probe' \in [Probes -> ProbeRows] /\ ProbesSound' /\ TalentTypeOK
      /\ UNCHANGED <<profile, public, address, window, view, inOffice>>
  BY ProbeEnds DEF ReportProbe, profileVars, TalentInv
<1>2. CASE ~Reportable(p) BY <1>1, <1>2, ProbeMoves DEF ReportProbe
<1>3. CASE Reportable(p)
  <2>1. /\ f \in Works /\ work[f] \in FileRows /\ work[f].state = "CHECKING"
        /\ probe[p].found \in Bytes
    BY <1>1, <1>3 DEF Reportable, Kept, TalentTypeOK, ProbeRows
  <2>2. work' = [work EXCEPT ![f] = fresh] BY <1>1, <1>3, <2>1 DEF ReportProbe, TalentTypeOK
  <2>3. fresh \in FileRows /\ fresh.token = Absence
        /\ fresh.digest = (IF probe[p].found \in Clean THEN probe[p].found ELSE 0)
        /\ fresh.state = (CASE probe[p].found = 0 -> "PENDING"
                          [] probe[p].found \in Clean -> "READY"
                          [] OTHER -> "REJECTED")
    BY <2>1 DEF FileRows
  <2>4. fresh.state # "CHECKING" /\ ((fresh.digest # 0) = (fresh.state = "READY"))
    BY <2>3, TalentAssumption
  <2>5. ~Readable(f) BY <2>1 DEF Readable
  <2>6. address' \in [Works -> Bytes] BY <1>1 DEF TalentTypeOK
  <2>7. PICK g \in Works : g = f BY <2>1
  <2>8. PICK new \in FileRows : new = fresh BY <2>3
  <2> HIDE DEF fresh, f
  <2>9. (new.token # Absence) = (new.state = "CHECKING") BY <2>3, <2>4, <2>8
  <2> QED BY <1>1, <2>2, <2>4, <2>5, <2>6, <2>7, <2>8, <2>9, FileChanges
<1> QED BY <1>2, <1>3

-----------------------------------------------------------------------------
(* The viewers.                                                            *)

\* One viewer moves, to a view that is sound.
LEMMA ViewMoves ==
    ASSUME TalentInv, NEW v \in Viewers, NEW fresh \in ViewRows, view' = [view EXCEPT ![v] = fresh],
           UNCHANGED <<profile, public, work, address, window, probe, inOffice>>,
           fresh.at = "SEEN" => /\ fresh.number <= profile.number
                                /\ fresh.number = profile.number =>
                                      public # Absence /\ public.contacts = fresh.shown,
           fresh.at \in {"LOADING", "LOADED"} => fresh.of \in Works,
           fresh.at = "LOADED" => fresh.got = {fresh.digest},
           fresh.at = "CONTACTS" => fresh.got = fresh.shown
    PROVE  TalentInv'
<1>1. TalentTypeOK BY DEF TalentInv
<1>2. \A w \in Viewers : view'[w] = IF w = v THEN fresh ELSE view[w] BY <1>1 DEF TalentTypeOK
<1>3. TalentTypeOK' BY <1>1 DEF TalentTypeOK
<1>4. ViewsSound' BY <1>2 DEF TalentInv, ViewsSound
<1>5. ContactsAsShown' BY <1>2 DEF TalentInv, ContactsAsShown
<1>6. VisibleWorksUsable' BY DEF TalentInv, VisibleWorksUsable, Readable
<1> QED
  BY <1>3, <1>4, <1>5, <1>6 DEF TalentInv, AppliedIsNotDenied, WindowsSound, ProbesSound

LEMMA TurnedAway ==
    ASSUME TalentInv, NEW v \in Viewers, view' = [view EXCEPT ![v] = Turned],
           UNCHANGED <<profile, public, work, address, window, probe, inOffice>>
    PROVE  TalentInv'
<1>1. Turned \in ViewRows /\ Turned.at = "REFUSED" BY TalentAssumption DEF Turned, ViewRows
<1> HIDE DEF Turned
<1> QED BY <1>1, ViewMoves

LEMMA SeeStep == ASSUME TalentInv, NEW v \in Viewers, See(v) PROVE TalentInv'
<1> DEFINE fresh == [view[v] EXCEPT !.at = "SEEN", !.number = profile.number,
                                    !.shown = public.contacts]
<1>1. TalentTypeOK /\ view[v] \in ViewRows /\ public # Absence /\ public \in Content
  BY DEF TalentInv, TalentTypeOK, See, Listed
<1>2. /\ view' = [view EXCEPT ![v] = fresh]
      /\ UNCHANGED <<profile, public, work, address, window, probe, inOffice>>
  BY <1>1 DEF See, TalentTypeOK, profileVars
<1>3. /\ fresh \in ViewRows /\ fresh.at = "SEEN" /\ fresh.number = profile.number
      /\ fresh.shown = public.contacts /\ profile.number \in Nat
  BY <1>1 DEF TalentTypeOK, ViewRows, Content
<1> HIDE DEF fresh
<1>4. fresh.number <= profile.number BY <1>3
<1>5. ~(fresh.at \in {"LOADING", "LOADED"}) /\ fresh.at # "CONTACTS" BY <1>3
<1>6. fresh \in ViewRows BY <1>3
<1>7. fresh.number = profile.number => public # Absence /\ public.contacts = fresh.shown BY <1>1, <1>3
<1> QED BY <1>2, <1>4, <1>5, <1>6, <1>7, ViewMoves

LEMMA GetContactsStep == ASSUME TalentInv, NEW v \in Viewers, GetContacts(v) PROVE TalentInv'
<1> DEFINE fresh == [view[v] EXCEPT !.at = "CONTACTS", !.got = public.contacts]
<1>1. TalentTypeOK /\ view[v] \in ViewRows BY DEF TalentInv, TalentTypeOK
<1>2. UNCHANGED <<profile, public, work, address, window, probe, inOffice>>
  BY DEF GetContacts, profileVars
<1>3. CASE ~StillShown(v) BY <1>2, <1>3, TurnedAway DEF GetContacts
<1>4. CASE StillShown(v)
  <2>1. public \in Content /\ public.contacts = view[v].shown
    BY <1>1, <1>4 DEF StillShown, Listed, TalentTypeOK, GetContacts, TalentInv, ViewsSound
  <2>2. view' = [view EXCEPT ![v] = fresh] BY <1>1, <1>4 DEF GetContacts, TalentTypeOK
  <2>3. fresh \in ViewRows /\ fresh.at = "CONTACTS" /\ fresh.got = fresh.shown
    BY <1>1, <2>1 DEF ViewRows, Content
  <2> HIDE DEF fresh
  <2> QED BY <1>2, <2>2, <2>3, ViewMoves
<1> QED BY <1>3, <1>4

LEMMA OpenWorkStep ==
    ASSUME TalentInv, NEW v \in Viewers, NEW f \in Works, OpenWork(v, f)
    PROVE  TalentInv'
<1> DEFINE fresh == [view[v] EXCEPT !.at = "LOADING", !.of = f, !.digest = work[f].digest]
<1>1. TalentTypeOK /\ view[v] \in ViewRows /\ work[f] \in FileRows BY DEF TalentInv, TalentTypeOK
<1>2. UNCHANGED <<profile, public, work, address, window, probe, inOffice>>
  BY DEF OpenWork, profileVars
<1>3. CASE ~Offered(v, f) BY <1>2, <1>3, TurnedAway DEF OpenWork
<1>4. CASE Offered(v, f)
  <2>1. view' = [view EXCEPT ![v] = fresh] BY <1>1, <1>4 DEF OpenWork, TalentTypeOK
  <2>2. fresh \in ViewRows /\ fresh.at = "LOADING" /\ fresh.of \in Works
    BY <1>1, TalentAssumption DEF ViewRows, FileRows
  <2> HIDE DEF fresh
  <2> QED BY <1>2, <2>1, <2>2, ViewMoves
<1> QED BY <1>3, <1>4

LEMMA LoadStep == ASSUME TalentInv, NEW v \in Viewers, LoadWork(v) PROVE TalentInv'
<1> DEFINE fresh == [view[v] EXCEPT !.at = "LOADED", !.got = {address[view[v].of]}]
<1>1. /\ TalentTypeOK /\ view[v] \in ViewRows /\ view[v].of \in Works
      /\ address[view[v].of] \in Bytes
  BY DEF TalentInv, TalentTypeOK, ViewsSound, LoadWork
<1>2. UNCHANGED <<profile, public, work, address, window, probe, inOffice>>
  BY DEF LoadWork, profileVars
<1>3. CASE ~Matches(v) BY <1>2, <1>3, TurnedAway DEF LoadWork
<1>4. CASE Matches(v)
  <2>1. view' = [view EXCEPT ![v] = fresh] BY <1>1, <1>4 DEF LoadWork, TalentTypeOK
  <2>2. fresh \in ViewRows /\ fresh.at = "LOADED" /\ fresh.of \in Works /\ fresh.got = {fresh.digest}
    BY <1>1, <1>4 DEF ViewRows, Matches
  <2> HIDE DEF fresh
  <2> QED BY <1>2, <2>1, <2>2, ViewMoves
<1> QED BY <1>3, <1>4

LEMMA DeliverStep == ASSUME TalentInv, NEW v \in Viewers, DeliverWork(v) PROVE TalentInv'
<1> DEFINE fresh == [view[v] EXCEPT !.at = "WORK"]
<1>1. TalentTypeOK /\ view[v] \in ViewRows BY DEF TalentInv, TalentTypeOK
<1>2. UNCHANGED <<profile, public, work, address, window, probe, inOffice>>
  BY DEF DeliverWork, profileVars
<1>3. CASE ~Deliverable(v) BY <1>2, <1>3, TurnedAway DEF DeliverWork
<1>4. CASE Deliverable(v)
  <2>1. view' = [view EXCEPT ![v] = fresh] BY <1>1, <1>4 DEF DeliverWork, TalentTypeOK
  <2>2. fresh \in ViewRows /\ fresh.at = "WORK" BY <1>1 DEF ViewRows
  <2> HIDE DEF fresh
  <2> QED BY <1>2, <2>1, <2>2, ViewMoves
<1> QED BY <1>3, <1>4

\* What is delivered has just been found offered and of the digest that passed.
LEMMA DeliversOffered ==
    ASSUME TalentInv, TalentNext, NEW v \in Viewers, view[v].at # "WORK", view'[v].at = "WORK"
    PROVE  view[v].got \subseteq Clean /\ Offered(v, view[v].of)
<1>1. TalentTypeOK /\ Turned.at = "REFUSED" BY DEF TalentInv, Turned
<1>2. PICK w \in Viewers : See(w) \/ GetContacts(w) \/ LoadWork(w) \/ DeliverWork(w)
                          \/ \E f \in Works : OpenWork(w, f)
  BY DEF TalentNext, Show, ApplyWindow, Repeat, CreateWork, Put, StartProbe, EndProbe, ReportProbe,
         ProbeDies, MoveOwner
<1>3. w = v
  BY <1>1, <1>2 DEF TalentTypeOK, See, GetContacts, LoadWork, DeliverWork, OpenWork
<1>4. DeliverWork(v)
  <2>1. view[v] \in ViewRows BY <1>1 DEF TalentTypeOK
  <2>2. \A fresh : view' = [view EXCEPT ![v] = fresh] => view'[v] = fresh BY <1>1 DEF TalentTypeOK
  <2>3. ASSUME See(v) PROVE FALSE BY <1>1, <2>1, <2>3 DEF See, TalentTypeOK, ViewRows
  <2>4. ASSUME GetContacts(v) PROVE FALSE
    BY <1>1, <2>1, <2>4 DEF GetContacts, TalentTypeOK, ViewRows
  <2>5. ASSUME LoadWork(v) PROVE FALSE BY <1>1, <2>1, <2>5 DEF LoadWork, TalentTypeOK, ViewRows
  <2>6. ASSUME NEW f \in Works, OpenWork(v, f) PROVE FALSE
    BY <1>1, <2>1, <2>6 DEF OpenWork, TalentTypeOK, ViewRows
  <2> QED BY <1>2, <1>3, <2>3, <2>4, <2>5, <2>6
<1>5. Deliverable(v) BY <1>1, <1>4 DEF DeliverWork, TalentTypeOK
<1>6. view[v].of \in Works /\ view[v].got = {view[v].digest}
  BY <1>4 DEF TalentInv, ViewsSound, DeliverWork
<1>7. work[view[v].of] \in FileRows /\ work[view[v].of].digest # 0
  BY <1>1, <1>5, <1>6 DEF Deliverable, Offered, Readable, TalentTypeOK
<1> QED BY <1>5, <1>6, <1>7 DEF Deliverable, FileRows

\* A window that is done now was fresh.
LEMMA EditsWhatItShowed ==
    ASSUME TalentInv, TalentNext, NEW m \in Windows, window[m] # Absence, window'[m].done,
           ~window[m].done
    PROVE  window[m].base = profile.fields
<1>1. TalentTypeOK /\ window[m] \in WindowRows BY DEF TalentInv, TalentTypeOK
<1>2. PICK w \in Windows : Show(w) \/ Repeat(w) \/ \E a \in Acts : ApplyWindow(w, a.act, a.of)
  BY DEF TalentNext, CreateWork, Put, StartProbe, EndProbe, ReportProbe, ProbeDies, See, GetContacts,
         LoadWork, DeliverWork, OpenWork, MoveOwner
<1>3. w = m BY <1>1, <1>2 DEF TalentTypeOK, Show, Repeat, ApplyWindow
<1>4. window[m].version = profile.version BY <1>2, <1>3 DEF Show, Repeat, ApplyWindow, Fresh
<1> QED BY <1>4 DEF TalentInv, WindowsSound

\* Only a report judges a file.
LEMMA ReportsJudge ==
    ASSUME TalentInv, TalentNext, NEW f \in Works, work'[f].state \in {"READY", "REJECTED"},
           work[f].state # work'[f].state
    PROVE  \E p \in Probes : work[f].token = p /\ probe[p].at = "FOUND" /\ probe'[p].at = "ENDED"
<1>1. TalentTypeOK /\ work[f] \in FileRows BY DEF TalentInv, TalentTypeOK
<1>2. ASSUME NEW g \in Works, CreateWork(g) PROVE FALSE
  BY <1>1, <1>2 DEF CreateWork, TalentTypeOK, FileRows
<1>3. ASSUME NEW p \in Probes, NEW g \in Works, StartProbe(p, g) PROVE FALSE
  BY <1>1, <1>3 DEF StartProbe, TalentTypeOK, FileRows
<1>4. ASSUME NEW m \in Windows, NEW a \in Acts, ApplyWindow(m, a.act, a.of) PROVE FALSE
  <2>1. work' = NewWork(a.act, a.of) BY <1>4 DEF ApplyWindow
  <2>2. work'[f].state \in {work[f].state, "PENDING"}
    BY <1>1, <2>1 DEF NewWork, TalentTypeOK, FileRows
  <2> QED BY <2>2
<1>5. PICK p \in Probes : ReportProbe(p)
  BY <1>2, <1>3, <1>4
     DEF TalentNext, Show, Repeat, Put, EndProbe, ProbeDies, See, GetContacts, LoadWork, DeliverWork,
         OpenWork, MoveOwner
<1>6. Reportable(p) /\ probe[p].of = f BY <1>1, <1>5 DEF ReportProbe, TalentTypeOK, FileRows
<1>7. work[f].token = p BY <1>6 DEF Reportable
<1>8. probe[p].at = "FOUND" /\ probe'[p].at = "ENDED"
  BY <1>1, <1>5 DEF ReportProbe, TalentTypeOK, Ended
<1> QED BY <1>7, <1>8

\* Whichever windows, checks and viewers overlap: what is on display can be read, a
\* viewer gets the contacts it was shown and bytes that passed and are offered, no
\* edit overwrites one it has not seen, and only the check that holds a file judges it.
THEOREM TalentKeepsContract == TalentSpec => TalentContract
<1>1. TalentInv /\ [TalentNext]_talentVars => TalentInv'
  <2> SUFFICES ASSUME TalentInv, [TalentNext]_talentVars PROVE TalentInv' OBVIOUS
  <2>1. CASE UNCHANGED <<profile, public, work, address, window, probe, view>> /\ inOffice' \in BOOLEAN
    <3>1. TalentTypeOK' BY <2>1 DEF TalentInv, TalentTypeOK
    <3>2. VisibleWorksUsable' BY <2>1 DEF TalentInv, VisibleWorksUsable, Readable
    <3> QED
      BY <2>1, <3>1, <3>2
         DEF TalentInv, ContactsAsShown, AppliedIsNotDenied, WindowsSound, ViewsSound, ProbesSound
  <2>2. CASE UNCHANGED talentVars \/ MoveOwner
    BY <2>1, <2>2 DEF talentVars, MoveOwner, profileVars, TalentInv, TalentTypeOK
  <2>3. ASSUME NEW m \in Windows, Show(m) \/ (\E a \in Acts : ApplyWindow(m, a.act, a.of)) \/ Repeat(m)
        PROVE  TalentInv'
    BY <2>3, ShowStep, ApplyStep, RepeatStep
  <2>4. ASSUME NEW f \in Works, CreateWork(f) \/ \E x \in Bytes \ {0} : Put(f, x)
        PROVE  TalentInv'
    BY <2>4, CreateWorkStep, PutStep
  <2>5. ASSUME NEW p \in Probes,
               \/ \E f \in Works : StartProbe(p, f) \/ EndProbe(p, address[f])
               \/ EndProbe(p, 0) \/ ReportProbe(p) \/ ProbeDies(p)
        PROVE  TalentInv'
    <3>1. 0 \in Bytes /\ \A f \in Works : address[f] \in Bytes
      BY TalentAssumption DEF TalentInv, TalentTypeOK
    <3>2. CASE ProbeDies(p) BY <3>2, ProbeEnds, ProbeMoves DEF ProbeDies, profileVars
    <3> QED BY <2>5, <3>1, <3>2, StartProbeStep, EndProbeStep, ReportStep
  <2>6. ASSUME NEW v \in Viewers,
               \/ See(v) \/ GetContacts(v) \/ LoadWork(v) \/ DeliverWork(v)
               \/ \E f \in Works : OpenWork(v, f)
        PROVE  TalentInv'
    BY <2>6, SeeStep, GetContactsStep, LoadStep, DeliverStep, OpenWorkStep
  <2> QED BY <2>2, <2>3, <2>4, <2>5, <2>6 DEF TalentNext
<1>2. TalentInv /\ [TalentNext]_talentVars =>
         [\A v \in Viewers : view[v].at # "WORK" /\ view'[v].at = "WORK" =>
             view[v].got \subseteq Clean /\ Offered(v, view[v].of)]_talentVars
  BY DeliversOffered
<1>3. TalentInv /\ [TalentNext]_talentVars =>
         [\A m \in Windows : window[m] # Absence /\ window'[m].done /\ ~window[m].done
             => window[m].base = profile.fields]_talentVars
  BY EditsWhatItShowed
<1>4. TalentInv /\ [TalentNext]_talentVars =>
         [\A f \in Works : work'[f].state \in {"READY", "REJECTED"} /\ work[f].state # work'[f].state =>
             \E p \in Probes : /\ work[f].token = p /\ probe[p].at = "FOUND"
                              /\ probe'[p].at = "ENDED"]_talentVars
  BY ReportsJudge
<1>5. TalentInv => TalentTypeOK /\ VisibleWorksUsable /\ ContactsAsShown /\ AppliedIsNotDenied
  BY DEF TalentInv
<1> QED
  BY <1>1, <1>2, <1>3, <1>4, <1>5, TalentStart, PTL
     DEF TalentSpec, TalentContract, DeliveredIsOffered, NoLostEdit, HolderDecides

==============================================================================
