------------------------------ MODULE CodeReview ------------------------------
(***************************************************************************)
(* The review service: review_service.dart.  Teachers apply reviews, a     *)
(* comment on the whole and comments on lines, to submissions; a review    *)
(* that is there already is replaced, and left alone if it is the same.    *)
(*                                                                         *)
(* A step is one query, or one call of another service.  Times and authors *)
(* are left out.                                                           *)
(***************************************************************************)
EXTENDS Integers, Sequences, FiniteSets

CONSTANTS
  Teachers,
  Reviewed,     \* the submissions that are reviewed
  Contents,     \* a comment on the whole, and a set of comments on lines
  NewStatuses   \* newStatus of a review

\* "apply"  a teacher applies a review       "error"  a query or a call fails
ReviewEvents == {"apply", "error"}

VARIABLES
  codeReviews,   \* rows of code_reviews, numbered by id
  lineComments,  \* rows of review_line_comments
  lastRow,       \* the last id given to one of these
  verdict,       \* what updateSubmissionStatus has written
  applying,      \* the call of each teacher
  crowded,       \* history: submissions two calls were at work on at a time
  reviewBudget   \* bound: how often each kind of event may still happen

reviewTables == <<codeReviews, lineComments, lastRow, verdict>>
reviewVars == <<reviewTables, applying, crowded, reviewBudget>>

\* A line is that of a file; at most one comment on each.
Comments == [line : Nat, text : STRING]

ASSUME ContentsAssumption ==
  /\ Contents \subseteq [globalComment : STRING, lines : SUBSET Comments]
  /\ \A content \in Contents :
       /\ IsFiniteSet(content.lines)
       /\ \A c, d \in content.lines : c.line = d.line => c = d

ASSUME ReviewedAssumption == "" \notin Reviewed

NoContent == [globalComment |-> "", lines |-> {}]
NoApply == [pc |-> "idle", submission |-> "", content |-> NoContent, newStatus |-> "none",
            id |-> 0, old |-> "", todo |-> {}, alone |-> "yes"]

ReviewInit ==
  /\ codeReviews = <<>> /\ lineComments = {} /\ lastRow = 0
  /\ verdict = [s \in Reviewed |-> "none"]
  /\ applying = [t \in Teachers |-> NoApply] /\ crowded = {}

ReviewPays(e) ==
  reviewBudget[e] > 0 /\ reviewBudget' = [reviewBudget EXCEPT ![e] = @ - 1]

ReviewsOf(s) == {id \in DOMAIN codeReviews : codeReviews[id].submission = s}
CommentsOf(id) == {c \in lineComments : c.id = id}
Comment(row) == [line |-> row.line, text |-> row.text]
AtWork(t) == applying[t].pc \notin {"idle", "applied"}

Moves(t, pc) == applying' = [applying EXCEPT ![t].pc = pc]

\* Mutant: the comments on lines are only counted.
CountEquals(globalComment, rows, content) ==
  globalComment = content.globalComment /\ Cardinality(rows) = Cardinality(content.lines)

\* contentEqualsTo: the comments of the one, as rows, are as many as those of
\* the other, and what is said on the line of each is the same.
ContentEquals(globalComment, rows, content) ==
  /\ globalComment = content.globalComment
  /\ Cardinality(rows) = Cardinality(content.lines)
  /\ \A row \in rows : Comment(row) \in content.lines

-----------------------------------------------------------------------------
(* applyCodeReview *)

\* History: a call is alone unless another on the same submission begins
\* before it has ended, or was at work when it began.
ApplyCodeReview(t) ==
  /\ ~AtWork(t) /\ ReviewPays("apply")
  /\ \E s \in Reviewed, content \in Contents, new \in NewStatuses :
       LET others == {u \in Teachers \ {t} : AtWork(u) /\ applying[u].submission = s} IN
       /\ applying' = [u \in Teachers |->
            IF u = t THEN [NoApply EXCEPT !.pc = "find", !.submission = s, !.content = content,
                             !.newStatus = new, !.alone = IF others = {} THEN "yes" ELSE "no"]
            ELSE IF applying[u].submission = s THEN [applying[u] EXCEPT !.alone = "no"]
            ELSE applying[u]]
       /\ crowded' = IF others = {} THEN crowded ELSE crowded \cup {s}
  /\ UNCHANGED reviewTables

\* Mutant: reviews are not looked for.
FindNoReview(t) ==
  /\ applying[t].pc = "find" /\ Moves(t, "insert")
  /\ UNCHANGED <<reviewTables, crowded, reviewBudget>>

\* _getCodeReviewForSubmission; rows.single throws if there are two.
FindReview(t) ==
  LET a == applying[t]
      found == ReviewsOf(a.submission) IN
  /\ a.pc = "find"
  /\ applying' = [applying EXCEPT ![t] =
       IF found = {} THEN [a EXCEPT !.pc = "insert"]
       ELSE IF Cardinality(found) > 1 THEN NoApply
       ELSE LET id == CHOOSE id \in found : TRUE IN
            [a EXCEPT !.pc = "compare", !.id = id, !.old = codeReviews[id].globalComment]]
  /\ UNCHANGED <<reviewTables, crowded, reviewBudget>>

\* The author and the comments on lines are read by further queries.
CompareReview(t) ==
  /\ applying[t].pc = "compare"
  /\ Moves(t, IF ContentEquals(applying[t].old, CommentsOf(applying[t].id), applying[t].content)
              THEN "status" ELSE "delete")
  /\ UNCHANGED <<reviewTables, crowded, reviewBudget>>

\* Mutant: the id of the new row is not remembered.
InsertReviewOnly(t) ==
  LET a == applying[t] IN
  /\ a.pc = "insert"
  /\ codeReviews' = Append(codeReviews, [submission |-> a.submission,
                                         globalComment |-> a.content.globalComment])
  /\ applying' = [applying EXCEPT ![t].pc = "comments", ![t].todo = a.content.lines]
  /\ UNCHANGED <<lineComments, lastRow, verdict, crowded, reviewBudget>>

InsertReview(t) ==
  LET a == applying[t] IN
  /\ a.pc = "insert"
  /\ codeReviews' = Append(codeReviews, [submission |-> a.submission,
                                         globalComment |-> a.content.globalComment])
  /\ applying' = [applying EXCEPT ![t].pc = "comments", ![t].id = Len(codeReviews) + 1,
                                  ![t].todo = a.content.lines]
  /\ UNCHANGED <<lineComments, lastRow, verdict, crowded, reviewBudget>>

DeleteLineComments(t) ==
  /\ applying[t].pc = "delete" /\ Moves(t, "update")
  /\ lineComments' = lineComments \ CommentsOf(applying[t].id)
  /\ UNCHANGED <<codeReviews, lastRow, verdict, crowded, reviewBudget>>

UpdateReview(t) ==
  LET a == applying[t] IN
  /\ a.pc = "update"
  /\ codeReviews' = [codeReviews EXCEPT ![a.id].globalComment = a.content.globalComment]
  /\ applying' = [applying EXCEPT ![t].pc = "comments", ![t].todo = a.content.lines]
  /\ UNCHANGED <<lineComments, lastRow, verdict, crowded, reviewBudget>>

AddLineComment(t) ==
  LET a == applying[t] IN
  /\ a.pc = "comments"
  /\ \E c \in a.todo :
       /\ lineComments' = lineComments \cup
            {[row |-> lastRow + 1, id |-> a.id, line |-> c.line, text |-> c.text]}
       /\ applying' = [applying EXCEPT ![t].todo = @ \ {c}]
  /\ lastRow' = lastRow + 1
  /\ UNCHANGED <<codeReviews, verdict, crowded, reviewBudget>>

\* updateSubmissionStatus of the submissions service, last.
UpdateStatus(t) ==
  LET a == applying[t] IN
  /\ a.pc = "status" \/ (a.pc = "comments" /\ a.todo = {})
  /\ verdict' = [verdict EXCEPT ![a.submission] = a.newStatus]
  /\ Moves(t, "applied")
  /\ UNCHANGED <<codeReviews, lineComments, lastRow, crowded, reviewBudget>>

\* A query or a call fails: what was done stays, and the teacher may try again.
ApplyFails(t) ==
  /\ AtWork(t) /\ ReviewPays("error")
  /\ applying' = [applying EXCEPT ![t] = NoApply]
  /\ UNCHANGED <<reviewTables, crowded>>

ReviewNext ==
  \E t \in Teachers :
    \/ ApplyCodeReview(t) \/ FindReview(t) \/ CompareReview(t) \/ InsertReview(t)
    \/ DeleteLineComments(t) \/ UpdateReview(t) \/ AddLineComment(t) \/ UpdateStatus(t)
    \/ ApplyFails(t)

-----------------------------------------------------------------------------
(* Properties *)

ApplyPlaces ==
  {"idle", "find", "compare", "insert", "delete", "update", "comments", "status", "applied"}

ReviewTypeOK ==
  /\ codeReviews \in Seq([submission : Reviewed, globalComment : STRING])
  /\ lineComments \subseteq [row : 1..lastRow, id : DOMAIN codeReviews, line : Nat, text : STRING]
  /\ lastRow \in Nat
  /\ verdict \in [Reviewed -> NewStatuses \cup {"none"}]
  /\ applying \in [Teachers -> [pc : ApplyPlaces, submission : Reviewed \cup {""},
                                content : Contents \cup {NoContent},
                                newStatus : NewStatuses \cup {"none"}, id : 0..Len(codeReviews),
                                old : STRING \cup {""}, todo : SUBSET Comments, alone : {"no", "yes"}]]
  /\ crowded \subseteq Reviewed

\* A submission has at most one review, which every later call relies on,
\* whatever fails half way and is tried again; unless two calls were at work
\* on it at the same time.
OneReview == \A s \in Reviewed \ crowded : Cardinality(ReviewsOf(s)) <= 1

\* A review as a call was asked to store it: each comment once.
IsStored(id, content) ==
  /\ codeReviews[id].globalComment = content.globalComment
  /\ {Comment(row) : row \in CommentsOf(id)} = content.lines
  /\ \A row, other \in CommentsOf(id) : row.line = other.line => row = other

\* When a call has returned, and no other on its submission has begun since
\* it began, the tables have what it was asked for and the status; also over
\* what failed calls have left.
AppliedIsStored ==
  \A t \in Teachers :
    LET a == applying[t] IN
    a.pc = "applied" /\ a.alone = "yes" /\ a.submission \notin crowded =>
      /\ verdict[a.submission] = a.newStatus
      /\ \E id \in ReviewsOf(a.submission) : IsStored(id, a.content)
=============================================================================
