--------------------------- MODULE CourseWorkProofs ---------------------------
(***************************************************************************)
(* Theorems about the services that work on a course, for any checks,      *)
(* submissions and reviews, any versions with options, and however often   *)
(* files are edited or spoilt, loads, queries and compilers fail, and      *)
(* services die.                                                           *)
(*                                                                         *)
(* The review service shares nothing with the others: ReviewIInv.          *)
(*                                                                         *)
(* The content service is proved on its own, with what it guarantees to    *)
(* its clients whatever they do (ContentKeeps, Guarantee): the time of an  *)
(* answer to come has a lower bound, LowCourse or LowProblem, which no     *)
(* step raises above the time of a cache or of a load under way.  The      *)
(* problem loader and the deadlines service are proved from that, each     *)
(* with the steps of the others as steps that keep the guarantee.          *)
(***************************************************************************)
EXTENDS CourseWork, FiniteSetTheorems, TLAPS

-----------------------------------------------------------------------------
(* The review service *)

LEMMA WorkReviews == WorkInit => ReviewInit
BY DEF WorkInit

LEMMA WorkStepReviews == [WorkNext]_workVars => [ReviewNext]_reviewVars
<1>1. CASE FilesChange
  BY <1>1 DEF FilesChange
<1>2. CASE ContentStep \/ DeadlinesStep \/ LoaderStep
  BY <1>2 DEF ContentStep, DeadlinesStep, LoaderStep
<1>3. CASE ReviewStep
  BY <1>3 DEF ReviewStep
<1>4. CASE UNCHANGED workVars
  BY <1>4 DEF workVars
<1>. QED
  BY <1>1, <1>2, <1>3, <1>4 DEF WorkNext

-----------------------------------------------------------------------------
(* The review service: types *)

Reviews == [submission : Reviewed, globalComment : STRING]

LineRows == [row : 1..lastRow, id : DOMAIN codeReviews, line : Nat, text : STRING]

Calls ==
  [pc : ApplyPlaces, submission : Reviewed \cup {""}, content : Contents \cup {NoContent},
   newStatus : NewStatuses \cup {"none"}, id : 0..Len(codeReviews), old : STRING \cup {""},
   todo : SUBSET Comments, alone : {"no", "yes"}]

\* A call that has begun is about a submission and a review.
Begun == \A t \in Teachers :
  applying[t].pc # "idle" =>
    applying[t].submission \in Reviewed /\ applying[t].content \in Contents

ReviewTypes ==
  /\ codeReviews \in Seq(Reviews) /\ lineComments \subseteq LineRows /\ lastRow \in Nat
  /\ verdict \in [Reviewed -> NewStatuses \cup {"none"}]
  /\ applying \in [Teachers -> Calls] /\ Begun
  /\ crowded \subseteq Reviewed

LEMMA NoApplyIs == codeReviews \in Seq(Reviews) => NoApply \in Calls
<1>. SUFFICES ASSUME codeReviews \in Seq(Reviews) PROVE NoApply \in Calls
  OBVIOUS
<1>1. Len(codeReviews) \in Nat
  OBVIOUS
<1>2. 0 \in 0..Len(codeReviews)
  BY <1>1
<1>. QED
  BY <1>2 DEF NoApply, Calls, ApplyPlaces, NoContent, Comments

LEMMA TypesAreOK == ReviewTypes => ReviewTypeOK
BY Zenon DEF ReviewTypes, ReviewTypeOK, Reviews, LineRows, Calls

LEMMA ReviewTypesInit == ReviewInit => ReviewTypes
<1>. SUFFICES ASSUME ReviewInit PROVE ReviewTypes
  OBVIOUS
<1>1. codeReviews \in Seq(Reviews)
  BY DEF ReviewInit
<1>2. applying \in [Teachers -> Calls] /\ \A t \in Teachers : applying[t].pc = "idle"
  <2>1. NoApply \in Calls /\ NoApply.pc = "idle"
    BY <1>1, NoApplyIs DEF NoApply
  <2>. QED
    BY <2>1, Zenon DEF ReviewInit
<1>. QED
  BY <1>1, <1>2 DEF ReviewTypes, ReviewInit, Begun

\* What a step does to the call of t: it becomes rec.
LEMMA CallBecomes ==
  ASSUME ReviewTypes, NEW t \in Teachers, NEW rec \in Calls',
         codeReviews' \in Seq(Reviews), Len(codeReviews) <= Len(codeReviews'),
         applying' = [applying EXCEPT ![t] = rec],
         rec.pc # "idle" => rec.submission \in Reviewed /\ rec.content \in Contents
  PROVE  /\ applying' \in [Teachers -> Calls'] /\ Begun'
         /\ applying'[t] = rec
         /\ \A u \in Teachers \ {t} : applying'[u] = applying[u]
<1>1. applying \in [Teachers -> Calls] /\ codeReviews \in Seq(Reviews) /\ Begun
  BY DEF ReviewTypes
<1>2. Calls \subseteq Calls'
  <2>1. Len(codeReviews) \in Nat /\ Len(codeReviews') \in Nat
    BY <1>1
  <2>2. 0..Len(codeReviews) \subseteq 0..Len(codeReviews')
    BY <2>1
  <2>. QED
    BY <2>2 DEF Calls
<1>3. /\ applying' \in [Teachers -> Calls'] /\ applying'[t] = rec
      /\ \A u \in Teachers \ {t} : applying'[u] = applying[u]
  BY <1>1, <1>2
<1>. QED
  BY <1>1, <1>3, Zenon DEF Begun

\* Nothing but the place of t's call changes.
LEMMA Moved ==
  ASSUME ReviewTypes, NEW t \in Teachers, NEW pc \in ApplyPlaces, Moves(t, pc),
         applying[t].pc # "idle", UNCHANGED codeReviews
  PROVE  /\ applying' \in [Teachers -> Calls'] /\ Begun'
         /\ applying'[t] = [applying[t] EXCEPT !.pc = pc]
         /\ \A u \in Teachers \ {t} : applying'[u] = applying[u]
<1>. DEFINE rec == [applying[t] EXCEPT !.pc = pc]
<1>0. codeReviews \in Seq(Reviews) /\ applying \in [Teachers -> Calls] /\ Begun
  BY DEF ReviewTypes
<1>1. rec \in Calls' /\ rec.submission = applying[t].submission /\ rec.content = applying[t].content
  <2>1. applying[t] \in Calls /\ Calls' = Calls
    BY <1>0 DEF Calls
  <2>. QED
    BY <2>1 DEF Calls
<1>2. Len(codeReviews) \in Nat /\ codeReviews' \in Seq(Reviews) /\ Len(codeReviews) <= Len(codeReviews')
  BY <1>0
<1>3. applying' = [applying EXCEPT ![t] = rec]
  BY DEF Moves
<1>4. applying[t].submission \in Reviewed /\ applying[t].content \in Contents
  BY <1>0 DEF Begun
<1>. HIDE DEF rec
<1>5. /\ applying' \in [Teachers -> Calls'] /\ Begun'
      /\ applying'[t] = rec
      /\ \A u \in Teachers \ {t} : applying'[u] = applying[u]
  BY <1>1, <1>2, <1>3, <1>4, CallBecomes, Zenon
<1>. QED
  BY <1>5 DEF rec

Others(t) == \A u \in Teachers \ {t} : applying'[u] = applying[u]

SameCall(t) ==
  /\ applying'[t].submission = applying[t].submission
  /\ applying'[t].content = applying[t].content
  /\ applying'[t].newStatus = applying[t].newStatus
  /\ applying'[t].alone = applying[t].alone

-----------------------------------------------------------------------------
(* The review service: what each step does *)

LEMMA ApplyDoes ==
  ASSUME ReviewTypes, NEW t \in Teachers, ApplyCodeReview(t)
  PROVE  /\ ReviewTypes' /\ UNCHANGED reviewTables
         /\ applying'[t].pc = "find"
         /\ \A u \in Teachers \ {t} :
              /\ applying'[u] = [applying[u] EXCEPT !.alone = applying'[u].alone]
              /\ applying'[u].submission = applying'[t].submission =>
                   /\ applying'[u].alone = "no"
                   /\ AtWork(u) => applying'[t].submission \in crowded'
              /\ applying'[u].submission # applying'[t].submission => applying'[u] = applying[u]
         /\ crowded \subseteq crowded'
<1>0. /\ codeReviews \in Seq(Reviews) /\ applying \in [Teachers -> Calls] /\ Begun
      /\ crowded \subseteq Reviewed
  BY DEF ReviewTypes
<1>1. PICK s \in Reviewed, content \in Contents, new \in NewStatuses :
        LET others == {u \in Teachers \ {t} : AtWork(u) /\ applying[u].submission = s} IN
        /\ applying' = [u \in Teachers |->
             IF u = t THEN [NoApply EXCEPT !.pc = "find", !.submission = s, !.content = content,
                              !.newStatus = new, !.alone = IF others = {} THEN "yes" ELSE "no"]
             ELSE IF applying[u].submission = s THEN [applying[u] EXCEPT !.alone = "no"]
             ELSE applying[u]]
        /\ crowded' = IF others = {} THEN crowded ELSE crowded \cup {s}
  BY Zenon DEF ApplyCodeReview
<1>. DEFINE others == {u \in Teachers \ {t} : AtWork(u) /\ applying[u].submission = s}
            rec == [NoApply EXCEPT !.pc = "find", !.submission = s, !.content = content,
                      !.newStatus = new, !.alone = IF others = {} THEN "yes" ELSE "no"]
<1>2. UNCHANGED reviewTables /\ Calls' = Calls /\ LineRows' = LineRows
  BY DEF ApplyCodeReview, reviewTables, Calls, LineRows
<1>3. rec \in Calls /\ rec.pc = "find" /\ rec.submission = s /\ rec.content \in Contents
  <2>1. NoApply \in Calls
    BY <1>0, NoApplyIs
  <2>. QED
    BY <2>1 DEF Calls, ApplyPlaces
<1>. HIDE DEF rec
<1>4. applying'[t] = rec
  BY <1>1 DEF rec
<1>5. ASSUME NEW u \in Teachers \ {t}
      PROVE  /\ applying'[u] \in Calls
             /\ applying'[u] = [applying[u] EXCEPT !.alone = applying'[u].alone]
             /\ applying'[u].submission = applying[u].submission
             /\ applying'[u].content = applying[u].content
             /\ applying'[u].pc = applying[u].pc
             /\ applying[u].submission = s => applying'[u].alone = "no"
             /\ applying[u].submission # s => applying'[u] = applying[u]
  <2>1. applying[u] \in Calls
    BY <1>0
  <2>2. CASE applying[u].submission = s
    <3>1. applying'[u] = [applying[u] EXCEPT !.alone = "no"]
      BY <1>1, <2>2
    <3>. QED
      BY <2>1, <2>2, <3>1 DEF Calls
  <2>3. CASE applying[u].submission # s
    <3>1. applying'[u] = applying[u]
      BY <1>1, <2>3
    <3>. QED
      BY <2>1, <2>3, <3>1 DEF Calls
  <2>. QED
    BY <2>2, <2>3
<1>6. crowded \subseteq crowded' /\ crowded' \subseteq Reviewed
      /\ \A u \in Teachers \ {t} : AtWork(u) /\ applying[u].submission = s => s \in crowded'
  BY <1>0, <1>1
<1>7. applying' \in [Teachers -> Calls]
  <2>1. applying' = [u \in Teachers |-> applying'[u]]
    BY <1>1
  <2>. QED
    BY <1>3, <1>4, <1>5, <2>1
<1>8. Begun'
  BY <1>0, <1>3, <1>4, <1>5 DEF Begun
<1>9. ReviewTypes'
  <2>1. /\ codeReviews' \in Seq(Reviews) /\ lineComments' \subseteq LineRows' /\ lastRow' \in Nat
        /\ verdict' \in [Reviewed -> NewStatuses \cup {"none"}]
        /\ applying' \in [Teachers -> Calls']
    BY <1>2, <1>7 DEF ReviewTypes, reviewTables
  <2>. QED
    BY <1>6, <1>8, <2>1 DEF ReviewTypes
<1>. QED
  BY <1>2, <1>3, <1>4, <1>5, <1>6, <1>9

LEMMA FindDoes ==
  ASSUME ReviewTypes, NEW t \in Teachers, FindReview(t)
  PROVE  /\ ReviewTypes' /\ UNCHANGED <<reviewTables, crowded>> /\ Others(t)
         /\ AtWork(t) /\ applying'[t].pc \in {"idle", "insert", "compare"}
         /\ applying'[t].pc # "idle" => SameCall(t)
         /\ applying'[t].pc = "insert" => ReviewsOf(applying[t].submission) = {}
         /\ applying'[t].pc = "compare" =>
              /\ applying'[t].id \in ReviewsOf(applying[t].submission)
              /\ applying'[t].old = codeReviews[applying'[t].id].globalComment
<1>. DEFINE a == applying[t]
            found == ReviewsOf(a.submission)
            id == CHOOSE id \in found : TRUE
            rec == IF found = {} THEN [a EXCEPT !.pc = "insert"]
                   ELSE IF Cardinality(found) > 1 THEN NoApply
                   ELSE [a EXCEPT !.pc = "compare", !.id = id, !.old = codeReviews[id].globalComment]
<1>1. applying' = [applying EXCEPT ![t] = rec] /\ a.pc = "find"
      /\ UNCHANGED <<reviewTables, crowded>>
  BY Zenon DEF FindReview
<1>2. UNCHANGED <<codeReviews, lineComments, lastRow, verdict, crowded>>
      /\ Calls' = Calls /\ LineRows' = LineRows
  BY <1>1 DEF reviewTables, Calls, LineRows
<1>3. /\ codeReviews \in Seq(Reviews) /\ a \in Calls /\ NoApply \in Calls
      /\ a.submission \in Reviewed /\ a.content \in Contents
  <2>1. codeReviews \in Seq(Reviews) /\ applying \in [Teachers -> Calls] /\ Begun
    BY DEF ReviewTypes
  <2>. QED
    BY <1>1, <2>1, NoApplyIs DEF Begun
<1>4. found # {} => id \in found /\ id \in 1..Len(codeReviews) /\ codeReviews[id].globalComment \in STRING
  <2>. SUFFICES ASSUME found # {} PROVE id \in found /\ id \in 1..Len(codeReviews)
                                        /\ codeReviews[id].globalComment \in STRING
    OBVIOUS
  <2>1. id \in found
    OBVIOUS
  <2>. HIDE DEF id
  <2>2. id \in 1..Len(codeReviews)
    BY <1>3, <2>1 DEF ReviewsOf
  <2>3. codeReviews[id] \in Reviews
    BY <1>3, <2>2
  <2>. QED
    BY <2>1, <2>2, <2>3 DEF Reviews
<1>. HIDE DEF id, found
<1>5. /\ rec \in Calls /\ rec.pc \in {"idle", "insert", "compare"}
      /\ rec.pc # "idle" => rec.submission = a.submission /\ rec.content = a.content
                            /\ rec.newStatus = a.newStatus /\ rec.alone = a.alone
      /\ rec.pc = "insert" => found = {}
      /\ rec.pc = "compare" => rec.id \in found /\ rec.old = codeReviews[rec.id].globalComment
  <2>1. CASE found = {}
    <3>1. rec = [a EXCEPT !.pc = "insert"]
      BY <2>1
    <3>. QED
      BY <1>3, <2>1, <3>1 DEF Calls, ApplyPlaces
  <2>2. CASE found # {} /\ Cardinality(found) > 1
    <3>1. rec = NoApply
      BY <2>2
    <3>. QED
      BY <1>3, <3>1 DEF NoApply
  <2>3. CASE found # {} /\ ~(Cardinality(found) > 1)
    <3>1. rec = [a EXCEPT !.pc = "compare", !.id = id, !.old = codeReviews[id].globalComment]
      BY <2>3
    <3>2. Len(codeReviews) \in Nat /\ id \in 0..Len(codeReviews)
      BY <1>3, <1>4, <2>3
    <3>. QED
      BY <1>3, <1>4, <2>3, <3>1, <3>2 DEF Calls, ApplyPlaces
  <2>. QED
    BY <2>1, <2>2, <2>3
<1>. HIDE DEF rec
<1>6. /\ applying' \in [Teachers -> Calls'] /\ Begun' /\ applying'[t] = rec
      /\ \A u \in Teachers \ {t} : applying'[u] = applying[u]
  <2>1. /\ codeReviews' \in Seq(Reviews) /\ Len(codeReviews) <= Len(codeReviews')
        /\ rec \in Calls' /\ (rec.pc # "idle" => rec.submission \in Reviewed /\ rec.content \in Contents)
    BY <1>2, <1>3, <1>5
  <2>. QED
    BY <1>1, <2>1, CallBecomes, Zenon
<1>7. ReviewTypes'
  BY <1>2, <1>6 DEF ReviewTypes
<1>. QED
  BY <1>1, <1>5, <1>6, <1>7 DEF Others, SameCall, AtWork, found

\* Where the tables are left alone.
LEMMA MovedAlone ==
  ASSUME ReviewTypes, NEW t \in Teachers, NEW pc \in ApplyPlaces, Moves(t, pc),
         applying[t].pc # "idle", UNCHANGED <<reviewTables, crowded>>
  PROVE  /\ ReviewTypes' /\ Others(t)
         /\ applying'[t] = [applying[t] EXCEPT !.pc = pc]
<1>1. UNCHANGED <<codeReviews, lineComments, lastRow, verdict, crowded>> /\ LineRows' = LineRows
  BY DEF reviewTables, LineRows
<1>2. /\ applying' \in [Teachers -> Calls'] /\ Begun'
      /\ applying'[t] = [applying[t] EXCEPT !.pc = pc]
      /\ \A u \in Teachers \ {t} : applying'[u] = applying[u]
  BY <1>1, Moved
<1>. QED
  BY <1>1, <1>2 DEF ReviewTypes, Others

LEMMA CompareDoes ==
  ASSUME ReviewTypes, NEW t \in Teachers, CompareReview(t)
  PROVE  /\ ReviewTypes' /\ UNCHANGED <<reviewTables, crowded>> /\ Others(t)
         /\ applying[t].pc = "compare"
         /\ \E pc \in {"status", "delete"} :
              /\ applying'[t] = [applying[t] EXCEPT !.pc = pc]
              /\ pc = "status" =>
                   ContentEquals(applying[t].old, CommentsOf(applying[t].id), applying[t].content)
<1>1. PICK pc \in {"status", "delete"} :
        /\ Moves(t, pc)
        /\ pc = "status" =>
             ContentEquals(applying[t].old, CommentsOf(applying[t].id), applying[t].content)
  <2>1. CASE ContentEquals(applying[t].old, CommentsOf(applying[t].id), applying[t].content)
    BY <2>1, Zenon DEF CompareReview
  <2>2. CASE ~ContentEquals(applying[t].old, CommentsOf(applying[t].id), applying[t].content)
    BY <2>2, Zenon DEF CompareReview
  <2>. QED
    BY <2>1, <2>2
<1>2. pc \in ApplyPlaces /\ applying[t].pc = "compare" /\ UNCHANGED <<reviewTables, crowded>>
  BY DEF CompareReview, ApplyPlaces
<1>. QED
  BY <1>1, <1>2, MovedAlone

\* A new row for a review.
LEMMA InsertDoes ==
  ASSUME ReviewTypes, NEW t \in Teachers, InsertReview(t)
  PROVE  LET a == applying[t]
             new == Len(codeReviews) + 1 IN
         /\ ReviewTypes' /\ UNCHANGED <<lineComments, verdict, crowded>> /\ Others(t)
         /\ a.pc = "insert" /\ applying'[t].pc = "comments" /\ SameCall(t)
         /\ applying'[t].id = new /\ applying'[t].todo = a.content.lines
         /\ codeReviews' = Append(codeReviews, [submission |-> a.submission,
                                                globalComment |-> a.content.globalComment])
<1>. DEFINE a == applying[t]
            new == Len(codeReviews) + 1
            row == [submission |-> a.submission, globalComment |-> a.content.globalComment]
            rec == [a EXCEPT !.pc = "comments", !.id = new, !.todo = a.content.lines]
<1>1. /\ codeReviews \in Seq(Reviews) /\ applying \in [Teachers -> Calls] /\ Begun
      /\ lineComments \subseteq LineRows /\ Len(codeReviews) \in Nat
  BY DEF ReviewTypes
<1>2. /\ a.pc = "insert" /\ applying' = [applying EXCEPT ![t] = rec]
      /\ codeReviews' = Append(codeReviews, row)
      /\ UNCHANGED <<lineComments, lastRow, verdict, crowded>>
  BY DEF InsertReview
<1>3. a \in Calls /\ a.submission \in Reviewed /\ a.content \in Contents
  BY <1>1, <1>2 DEF Begun
<1>4. a.content.lines \in SUBSET Comments /\ row \in Reviews
  BY <1>3, ContentsAssumption DEF Reviews
<1>. HIDE DEF row
<1>5. /\ codeReviews' \in Seq(Reviews) /\ Len(codeReviews') = new
      /\ DOMAIN codeReviews \subseteq DOMAIN codeReviews'
      /\ Len(codeReviews) <= Len(codeReviews') /\ new \in 0..new
  BY <1>1, <1>2, <1>4
<1>6. /\ rec \in Calls' /\ rec.pc = "comments" /\ rec.submission = a.submission
      /\ rec.content = a.content /\ rec.newStatus = a.newStatus /\ rec.alone = a.alone
      /\ rec.id = new /\ rec.todo = a.content.lines
  BY <1>3, <1>4, <1>5 DEF Calls, ApplyPlaces
<1>. HIDE DEF rec
<1>7. /\ applying' \in [Teachers -> Calls'] /\ Begun' /\ applying'[t] = rec
      /\ \A u \in Teachers \ {t} : applying'[u] = applying[u]
  BY <1>2, <1>3, <1>5, <1>6, CallBecomes
<1>8. lineComments' \subseteq LineRows'
  BY <1>1, <1>2, <1>5 DEF LineRows
<1>9. ReviewTypes'
  BY <1>2, <1>5, <1>7, <1>8 DEF ReviewTypes
<1>. QED
  BY <1>2, <1>6, <1>7, <1>9 DEF Others, SameCall, row

LEMMA DeleteDoes ==
  ASSUME ReviewTypes, NEW t \in Teachers, DeleteLineComments(t)
  PROVE  /\ ReviewTypes' /\ UNCHANGED <<codeReviews, verdict, crowded>> /\ Others(t)
         /\ applying[t].pc = "delete"
         /\ applying'[t] = [applying[t] EXCEPT !.pc = "update"]
         /\ lineComments' = lineComments \ CommentsOf(applying[t].id)
<1>1. /\ applying[t].pc = "delete" /\ Moves(t, "update") /\ "update" \in ApplyPlaces
      /\ lineComments' = lineComments \ CommentsOf(applying[t].id)
      /\ UNCHANGED <<codeReviews, lastRow, verdict, crowded>>
  BY DEF DeleteLineComments, ApplyPlaces
<1>2. /\ applying' \in [Teachers -> Calls'] /\ Begun'
      /\ applying'[t] = [applying[t] EXCEPT !.pc = "update"]
      /\ \A u \in Teachers \ {t} : applying'[u] = applying[u]
  BY <1>1, Moved
<1>3. LineRows' = LineRows
  BY <1>1 DEF LineRows
<1>. QED
  BY <1>1, <1>2, <1>3 DEF ReviewTypes, Others

LEMMA UpdateDoes ==
  ASSUME ReviewTypes, NEW t \in Teachers, UpdateReview(t),
         applying[t].id \in DOMAIN codeReviews
  PROVE  LET a == applying[t] IN
         /\ ReviewTypes' /\ UNCHANGED <<lineComments, verdict, crowded>> /\ Others(t)
         /\ a.pc = "update" /\ applying'[t].pc = "comments" /\ SameCall(t)
         /\ applying'[t].id = a.id /\ applying'[t].todo = a.content.lines
         /\ Len(codeReviews') = Len(codeReviews)
         /\ codeReviews'[a.id].globalComment = a.content.globalComment
         /\ codeReviews'[a.id].submission = codeReviews[a.id].submission
         /\ \A id \in DOMAIN codeReviews \ {a.id} : codeReviews'[id] = codeReviews[id]
<1>. DEFINE a == applying[t]
            row == [codeReviews[a.id] EXCEPT !.globalComment = a.content.globalComment]
            rec == [a EXCEPT !.pc = "comments", !.todo = a.content.lines]
<1>1. /\ codeReviews \in Seq(Reviews) /\ applying \in [Teachers -> Calls] /\ Begun
      /\ lineComments \subseteq LineRows /\ Len(codeReviews) \in Nat
      /\ DOMAIN codeReviews = 1..Len(codeReviews)
  BY DEF ReviewTypes
<1>2. /\ a.pc = "update" /\ applying' = [applying EXCEPT ![t] = rec]
      /\ codeReviews' = [codeReviews EXCEPT ![a.id] = row]
      /\ UNCHANGED <<lineComments, lastRow, verdict, crowded>>
  BY DEF UpdateReview
<1>3. a \in Calls /\ a.submission \in Reviewed /\ a.content \in Contents
  BY <1>1, <1>2 DEF Begun
<1>4. /\ a.content.lines \in SUBSET Comments /\ row \in Reviews
      /\ row.globalComment = a.content.globalComment
      /\ row.submission = codeReviews[a.id].submission
  <2>1. codeReviews[a.id] \in Reviews
    BY <1>1
  <2>. QED
    BY <1>3, <2>1, ContentsAssumption DEF Reviews
<1>. HIDE DEF row
<1>5. /\ codeReviews' \in Seq(Reviews) /\ Len(codeReviews') = Len(codeReviews)
      /\ codeReviews'[a.id] = row
      /\ \A id \in DOMAIN codeReviews \ {a.id} : codeReviews'[id] = codeReviews[id]
      /\ DOMAIN codeReviews' = DOMAIN codeReviews
  <2>1. codeReviews \in [1..Len(codeReviews) -> Reviews] /\ a.id \in 1..Len(codeReviews)
    BY <1>1
  <2>2. codeReviews' \in [1..Len(codeReviews) -> Reviews]
    BY <1>2, <1>4, <2>1
  <2>3. codeReviews' \in Seq(Reviews) /\ Len(codeReviews') = Len(codeReviews)
    BY <1>1, <2>2
  <2>. QED
    BY <1>1, <1>2, <2>1, <2>2, <2>3
<1>6. /\ rec \in Calls' /\ rec.pc = "comments" /\ rec.submission = a.submission
      /\ rec.content = a.content /\ rec.newStatus = a.newStatus /\ rec.alone = a.alone
      /\ rec.id = a.id /\ rec.todo = a.content.lines
  <2>1. Calls' = Calls
    BY <1>5 DEF Calls
  <2>. QED
    BY <1>3, <1>4, <2>1 DEF Calls, ApplyPlaces
<1>. HIDE DEF rec
<1>7. /\ applying' \in [Teachers -> Calls'] /\ Begun' /\ applying'[t] = rec
      /\ \A u \in Teachers \ {t} : applying'[u] = applying[u]
  <2>1. /\ Len(codeReviews) <= Len(codeReviews')
        /\ rec.pc # "idle" => rec.submission \in Reviewed /\ rec.content \in Contents
    BY <1>1, <1>3, <1>5, <1>6
  <2>. QED
    BY <1>2, <1>5, <1>6, <2>1, CallBecomes, Zenon
<1>8. lineComments' \subseteq LineRows'
  BY <1>1, <1>2, <1>5 DEF LineRows
<1>9. ReviewTypes'
  BY <1>2, <1>5, <1>7, <1>8 DEF ReviewTypes
<1>. QED
  BY <1>2, <1>4, <1>5, <1>6, <1>7, <1>9 DEF Others, SameCall

LEMMA AddDoes ==
  ASSUME ReviewTypes, NEW t \in Teachers, AddLineComment(t),
         applying[t].id \in DOMAIN codeReviews
  PROVE  LET a == applying[t] IN
         /\ ReviewTypes' /\ UNCHANGED <<codeReviews, verdict, crowded>> /\ Others(t)
         /\ a.pc = "comments" /\ applying'[t].pc = "comments" /\ SameCall(t)
         /\ applying'[t].id = a.id
         /\ \E c \in a.todo, row \in LineRows' :
              /\ c \in Comments /\ applying'[t].todo = a.todo \ {c}
              /\ row.id = a.id /\ row.line = c.line /\ row.text = c.text
              /\ lineComments' = lineComments \cup {row}
<1>. DEFINE a == applying[t]
<1>1. /\ codeReviews \in Seq(Reviews) /\ applying \in [Teachers -> Calls] /\ Begun
      /\ lineComments \subseteq LineRows /\ Len(codeReviews) \in Nat /\ lastRow \in Nat
  BY DEF ReviewTypes
<1>2. PICK c \in a.todo :
        /\ lineComments' = lineComments \cup
             {[row |-> lastRow + 1, id |-> a.id, line |-> c.line, text |-> c.text]}
        /\ applying' = [applying EXCEPT ![t] = [a EXCEPT !.todo = a.todo \ {c}]]
  BY DEF AddLineComment
<1>. DEFINE row == [row |-> lastRow + 1, id |-> a.id, line |-> c.line, text |-> c.text]
            rec == [a EXCEPT !.todo = a.todo \ {c}]
<1>3. /\ a.pc = "comments" /\ lastRow' = lastRow + 1
      /\ UNCHANGED <<codeReviews, verdict, crowded>>
  BY DEF AddLineComment
<1>4. a \in Calls /\ a.submission \in Reviewed /\ a.content \in Contents
  BY <1>1, <1>3 DEF Begun
<1>5. a.todo \in SUBSET Comments /\ c \in Comments
  BY <1>4 DEF Calls
<1>6. Calls' = Calls
  BY <1>3 DEF Calls
<1>7. /\ rec \in Calls /\ rec.pc = a.pc /\ rec.submission = a.submission
      /\ rec.content = a.content /\ rec.newStatus = a.newStatus /\ rec.alone = a.alone
      /\ rec.id = a.id /\ rec.todo = a.todo \ {c}
  BY <1>4, <1>5 DEF Calls
<1>8. /\ row \in LineRows' /\ row.id = a.id /\ row.line = c.line /\ row.text = c.text
      /\ LineRows \subseteq LineRows'
  <2>1. 1..lastRow \subseteq 1..lastRow' /\ lastRow + 1 \in 1..lastRow'
    BY <1>1, <1>3
  <2>. QED
    BY <1>3, <1>5, <2>1 DEF LineRows, Comments
<1>9. lineComments' = lineComments \cup {row} /\ applying' = [applying EXCEPT ![t] = rec]
  BY <1>2
<1>. HIDE DEF rec, row
<1>10. /\ applying' \in [Teachers -> Calls'] /\ Begun' /\ applying'[t] = rec
       /\ \A u \in Teachers \ {t} : applying'[u] = applying[u]
  <2>1. /\ codeReviews' \in Seq(Reviews) /\ Len(codeReviews) <= Len(codeReviews')
        /\ rec \in Calls'
        /\ rec.pc # "idle" => rec.submission \in Reviewed /\ rec.content \in Contents
    BY <1>1, <1>3, <1>4, <1>6, <1>7
  <2>. QED
    BY <1>9, <2>1, CallBecomes, Zenon
<1>11. ReviewTypes'
  <2>1. lineComments' \subseteq LineRows' /\ lastRow' \in Nat
    BY <1>1, <1>3, <1>8, <1>9
  <2>. QED
    BY <1>3, <1>10, <2>1 DEF ReviewTypes
<1>. QED
  BY <1>3, <1>5, <1>7, <1>8, <1>9, <1>10, <1>11 DEF Others, SameCall

LEMMA StatusDoes ==
  ASSUME ReviewTypes, NEW t \in Teachers, UpdateStatus(t)
  PROVE  LET a == applying[t] IN
         /\ ReviewTypes' /\ UNCHANGED <<codeReviews, lineComments, crowded>> /\ Others(t)
         /\ a.pc = "status" \/ (a.pc = "comments" /\ a.todo = {})
         /\ applying'[t] = [a EXCEPT !.pc = "applied"]
         /\ verdict'[a.submission] = a.newStatus
         /\ \A s \in Reviewed \ {a.submission} : verdict'[s] = verdict[s]
<1>. DEFINE a == applying[t]
<1>1. /\ a.pc = "status" \/ (a.pc = "comments" /\ a.todo = {})
      /\ verdict' = [verdict EXCEPT ![a.submission] = a.newStatus]
      /\ Moves(t, "applied") /\ "applied" \in ApplyPlaces
      /\ UNCHANGED <<codeReviews, lineComments, lastRow, crowded>>
  BY DEF UpdateStatus, ApplyPlaces
<1>2. /\ applying' \in [Teachers -> Calls'] /\ Begun'
      /\ applying'[t] = [a EXCEPT !.pc = "applied"]
      /\ \A u \in Teachers \ {t} : applying'[u] = applying[u]
  BY <1>1, Moved
<1>3. a.submission \in Reviewed /\ a.newStatus \in NewStatuses \cup {"none"}
      /\ verdict \in [Reviewed -> NewStatuses \cup {"none"}]
  <2>1. applying \in [Teachers -> Calls] /\ Begun /\ verdict \in [Reviewed -> NewStatuses \cup {"none"}]
    BY DEF ReviewTypes
  <2>. QED
    BY <1>1, <2>1 DEF Begun, Calls
<1>4. LineRows' = LineRows
  BY <1>1 DEF LineRows
<1>5. /\ verdict' \in [Reviewed -> NewStatuses \cup {"none"}]
      /\ verdict'[a.submission] = a.newStatus
      /\ \A s \in Reviewed \ {a.submission} : verdict'[s] = verdict[s]
  BY <1>1, <1>3
<1>6. ReviewTypes'
  BY <1>1, <1>2, <1>4, <1>5 DEF ReviewTypes
<1>. QED
  BY <1>1, <1>2, <1>5, <1>6 DEF Others

LEMMA FailsDoes ==
  ASSUME ReviewTypes, NEW t \in Teachers, ApplyFails(t)
  PROVE  /\ ReviewTypes' /\ UNCHANGED <<reviewTables, crowded>> /\ Others(t)
         /\ applying'[t].pc = "idle"
<1>1. /\ applying' = [applying EXCEPT ![t] = NoApply] /\ NoApply.pc = "idle"
      /\ UNCHANGED <<codeReviews, lineComments, lastRow, verdict, crowded>>
  BY DEF ApplyFails, NoApply, reviewTables
<1>2. codeReviews \in Seq(Reviews) /\ Len(codeReviews) \in Nat
  BY DEF ReviewTypes
<1>3. NoApply \in Calls' /\ codeReviews' \in Seq(Reviews) /\ Len(codeReviews) <= Len(codeReviews')
  <2>1. Calls' = Calls
    BY <1>1 DEF Calls
  <2>. QED
    BY <1>1, <1>2, <2>1, NoApplyIs
<1>4. /\ applying' \in [Teachers -> Calls'] /\ Begun' /\ applying'[t] = NoApply
      /\ \A u \in Teachers \ {t} : applying'[u] = applying[u]
  BY <1>1, <1>3, CallBecomes, Zenon
<1>5. LineRows' = LineRows
  BY <1>1 DEF LineRows
<1>. QED
  BY <1>1, <1>4, <1>5 DEF ReviewTypes, Others, reviewTables

-----------------------------------------------------------------------------
(* The review service: what makes the queries of one call work together *)

\* Places at which a call knows the row of its review.
Known == {"compare", "delete", "update", "comments", "status"}

\* No other call gets in the way of that of t.
Careful(t) ==
  /\ applying[t].submission \notin crowded
  /\ AtWork(t) \/ (applying[t].pc = "applied" /\ applying[t].alone = "yes")

\* All comments but those in todo are there.
IsWritten(id, content, todo) ==
  /\ codeReviews[id].globalComment = content.globalComment
  /\ todo \subseteq content.lines
  /\ {Comment(row) : row \in CommentsOf(id)} = content.lines \ todo

CallDone(a) ==
  /\ a.pc = "insert" => ReviewsOf(a.submission) = {}
  /\ a.pc = "compare" => a.old = codeReviews[a.id].globalComment
  /\ a.pc = "update" => CommentsOf(a.id) = {}
  /\ a.pc = "comments" => IsWritten(a.id, a.content, a.todo)
  /\ a.pc = "status" => IsStored(a.id, a.content)
  /\ a.pc = "applied" =>
       /\ verdict[a.submission] = a.newStatus
       /\ \E id \in ReviewsOf(a.submission) : IsStored(id, a.content)

CallOK(t) ==
  /\ applying[t].pc \in Known => applying[t].id \in ReviewsOf(applying[t].submission)
  /\ Careful(t) => CallDone(applying[t])

Distinct(id) == \A row, other \in CommentsOf(id) : row.line = other.line => row = other

SubmissionOK(s) ==
  s \notin crowded =>
    /\ Cardinality(ReviewsOf(s)) <= 1
    /\ \A id \in ReviewsOf(s) : Distinct(id)

\* While a call is at work, no other is careful about its submission.
Apart ==
  \A t, u \in Teachers :
    t # u /\ AtWork(u) /\ applying[t].submission = applying[u].submission => ~Careful(t)

ReviewIInv ==
  /\ ReviewTypes /\ Apart
  /\ \A t \in Teachers : CallOK(t)
  /\ \A s \in Reviewed : SubmissionOK(s)

\* What a step leaves of a submission.
SameOf(s) ==
  /\ ReviewsOf(s)' = ReviewsOf(s) /\ verdict'[s] = verdict[s]
  /\ \A id \in ReviewsOf(s) :
       codeReviews'[id] = codeReviews[id] /\ CommentsOf(id)' = CommentsOf(id)

LEMMA SameCallOK ==
  ASSUME NEW t \in Teachers, NEW s, s = applying[t].submission, SameOf(s),
         applying'[t] = applying[t], crowded \subseteq crowded', CallOK(t)
  PROVE  CallOK(t)'
<1>. DEFINE a == applying[t]
<1>1. a.pc \in Known => a.id \in ReviewsOf(s)
  BY DEF CallOK
<1>2. Careful(t)' => Careful(t)
  BY DEF Careful, AtWork
<1>3. ASSUME Careful(t), CallDone(a) PROVE CallDone(a)'
  <2>1. a' = a
    OBVIOUS
  <2>2. \A id \in ReviewsOf(s) : \A content : IsStored(id, content) => IsStored(id, content)'
    BY DEF SameOf, IsStored
  <2>3. \A id \in ReviewsOf(s) : \A content, todo :
          IsWritten(id, content, todo) => IsWritten(id, content, todo)'
    BY DEF SameOf, IsWritten
  <2>4. a.pc = "insert" => ReviewsOf(s)' = {}
    BY <1>3 DEF CallDone, SameOf
  <2>5. a.pc = "compare" => a.old = codeReviews'[a.id].globalComment
    BY <1>1, <1>3 DEF CallDone, SameOf, Known
  <2>6. a.pc = "update" => CommentsOf(a.id)' = {}
    BY <1>1, <1>3 DEF CallDone, SameOf, Known
  <2>7. a.pc = "comments" => IsWritten(a.id, a.content, a.todo)'
    BY <1>1, <1>3, <2>1, <2>3 DEF CallDone, Known
  <2>8. a.pc = "status" => IsStored(a.id, a.content)'
    BY <1>1, <1>3, <2>1, <2>2 DEF CallDone, Known
  <2>9. a.pc = "applied" =>
          /\ verdict'[s] = a.newStatus
          /\ \E id \in ReviewsOf(s)' : IsStored(id, a.content)'
    BY <1>3, <2>2 DEF CallDone, SameOf
  <2>. QED
    BY <2>1, <2>4, <2>5, <2>6, <2>7, <2>8, <2>9 DEF CallDone
<1>4. a'.pc \in Known => a'.id \in ReviewsOf(s)'
  BY <1>1 DEF SameOf
<1>. QED
  BY <1>2, <1>3, <1>4 DEF CallOK

LEMMA SameSubmissionOK ==
  ASSUME NEW s, SameOf(s), crowded \subseteq crowded', SubmissionOK(s)
  PROVE  SubmissionOK(s)'
BY DEF SameOf, SubmissionOK, Distinct

\* A step of the call of t has to be looked at for t and its submission alone.
LEMMA OwnStep ==
  ASSUME ReviewIInv, ReviewTypes', NEW t \in Teachers, AtWork(t), Others(t),
         NEW s \in Reviewed, s = applying[t].submission,
         applying'[t].pc # "idle" => applying'[t].submission = s,
         crowded' = crowded,
         \A r \in Reviewed \ {s} : SameOf(r),
         ReviewsOf(s) \subseteq ReviewsOf(s)',
         CallOK(t)', SubmissionOK(s)'
  PROVE  ReviewIInv'
<1>1. ASSUME NEW u \in Teachers \ {t} PROVE CallOK(u)'
  <2>1. applying'[u] = applying[u] /\ CallOK(u)
    BY DEF Others, ReviewIInv
  <2>2. CASE applying[u].pc = "idle"
    BY <2>1, <2>2 DEF CallOK, Careful, AtWork, Known
  <2>3. CASE applying[u].pc # "idle" /\ applying[u].submission # s
    <3>1. applying[u].submission \in Reviewed
      BY <2>3 DEF ReviewIInv, ReviewTypes, Begun
    <3>. QED
      BY <2>1, <2>3, <3>1, SameCallOK
  <2>4. CASE applying[u].pc # "idle" /\ applying[u].submission = s
    <3>1. ~Careful(u)
      BY <2>4 DEF ReviewIInv, Apart
    <3>2. ~Careful(u)'
      BY <2>1, <3>1 DEF Careful, AtWork
    <3>. QED
      BY <2>1, <2>4, <3>2 DEF CallOK
  <2>. QED
    BY <2>2, <2>3, <2>4
<1>2. ASSUME NEW r \in Reviewed \ {s} PROVE SubmissionOK(r)'
  BY <1>2, SameSubmissionOK DEF ReviewIInv
<1>3. ASSUME NEW u \in Teachers, NEW v \in Teachers, u # v, AtWork(v)',
             applying'[u].submission = applying'[v].submission, Careful(u)'
      PROVE  FALSE
  <2>1. applying'[u].pc # "idle" /\ applying'[v].pc # "idle"
    BY <1>3 DEF AtWork, Careful
  <2>2. applying[u].submission = applying[v].submission /\ AtWork(v)
    BY <1>3, <2>1 DEF Others, AtWork
  <2>3. Careful(u)
    BY <1>3, <2>1 DEF Careful, Others, AtWork
  <2>. QED
    BY <1>3, <2>2, <2>3 DEF ReviewIInv, Apart
<1>4. Apart'
  BY <1>3 DEF Apart
<1>. QED
  BY <1>1, <1>2, <1>4 DEF ReviewIInv

LEMMA UnchangedIsSame ==
  ASSUME UNCHANGED reviewTables
  PROVE  /\ \A s \in Reviewed : SameOf(s)
         /\ \A s : ReviewsOf(s)' = ReviewsOf(s)
         /\ \A s : SubmissionOK(s) /\ crowded \subseteq crowded' => SubmissionOK(s)'
BY DEF reviewTables, SameOf, ReviewsOf, CommentsOf, SubmissionOK, Distinct

LEMMA ApplyKeeps ==
  ASSUME ReviewIInv, NEW t \in Teachers, ApplyCodeReview(t)
  PROVE  ReviewIInv'
<1>1. /\ ReviewTypes /\ ReviewTypes' /\ UNCHANGED reviewTables
      /\ applying'[t].pc = "find"
      /\ \A u \in Teachers \ {t} :
           /\ applying'[u] = [applying[u] EXCEPT !.alone = applying'[u].alone]
           /\ applying'[u].submission = applying'[t].submission =>
                /\ applying'[u].alone = "no"
                /\ AtWork(u) => applying'[t].submission \in crowded'
           /\ applying'[u].submission # applying'[t].submission => applying'[u] = applying[u]
      /\ crowded \subseteq crowded'
  BY ApplyDoes DEF ReviewIInv
<1>2. \A s \in Reviewed : SameOf(s) /\ SubmissionOK(s)'
  BY <1>1, UnchangedIsSame DEF ReviewIInv
<1>3. ASSUME NEW u \in Teachers \ {t}
      PROVE  /\ applying'[u].pc = applying[u].pc /\ applying'[u].id = applying[u].id
             /\ applying'[u].submission = applying[u].submission
  <2>1. applying[u] \in Calls /\ applying'[u] = [applying[u] EXCEPT !.alone = applying'[u].alone]
    BY <1>1 DEF ReviewTypes
  <2>. QED
    BY <2>1 DEF Calls
<1>4. ASSUME NEW u \in Teachers \ {t}, applying'[u].submission = applying'[t].submission
      PROVE  ~Careful(u)'
  BY <1>1, <1>3, <1>4 DEF Careful, AtWork
<1>5. ASSUME NEW u \in Teachers \ {t} PROVE CallOK(u)'
  <2>1. CASE applying'[u].submission = applying'[t].submission
    <3>2. ~Careful(u)'
      BY <1>4, <2>1
    <3>3. \A r : ReviewsOf(r)' = ReviewsOf(r)
      BY <1>1, UnchangedIsSame
    <3>4. CallOK(u)
      BY DEF ReviewIInv
    <3>. QED
      BY <1>3, <3>2, <3>3, <3>4 DEF CallOK
  <2>2. CASE applying'[u].submission # applying'[t].submission
    <3>1. applying'[u] = applying[u] /\ CallOK(u)
      BY <1>1, <2>2 DEF ReviewIInv
    <3>2. CASE applying[u].pc = "idle"
      BY <3>1, <3>2 DEF CallOK, Careful, AtWork, Known
    <3>3. CASE applying[u].pc # "idle"
      <4>1. applying[u].submission \in Reviewed
        BY <1>1, <3>3 DEF ReviewTypes, Begun
      <4>. QED
        BY <1>1, <1>2, <3>1, <4>1, SameCallOK
    <3>. QED
      BY <3>2, <3>3
  <2>. QED
    BY <2>1, <2>2
<1>6. CallOK(t)'
  BY <1>1 DEF CallOK, CallDone, Known
<1>7. Apart'
  <2>. SUFFICES ASSUME NEW u \in Teachers, NEW v \in Teachers, u # v, AtWork(v)',
                       applying'[u].submission = applying'[v].submission, Careful(u)'
                PROVE  FALSE
    BY DEF Apart
  <2>1. u = t \/ applying'[u].submission # applying'[t].submission
    BY <1>4
  <2>2. CASE u = t
    <3>1. v \in Teachers \ {t} /\ applying'[v].submission = applying'[t].submission
      BY <2>2
    <3>2. AtWork(v)
      BY <1>3, <3>1 DEF AtWork
    <3>3. applying'[t].submission \in crowded'
      BY <1>1, <3>1, <3>2
    <3>4. applying'[u].submission \notin crowded'
      BY DEF Careful
    <3>. QED
      BY <2>2, <3>3, <3>4
  <2>3. CASE u # t
    <3>1. v # t /\ applying'[u] = applying[u] /\ applying'[v] = applying[v]
      BY <1>1, <2>1, <2>3
    <3>2. Careful(u) /\ AtWork(v)
      BY <1>1, <3>1 DEF Careful, AtWork
    <3>. QED
      BY <3>1, <3>2 DEF ReviewIInv, Apart
  <2>. QED
    BY <2>2, <2>3
<1>. QED
  BY <1>1, <1>2, <1>5, <1>6, <1>7 DEF ReviewIInv

LEMMA OwnCall ==
  ASSUME ReviewIInv, NEW t \in Teachers, AtWork(t)
  PROVE  /\ ReviewTypes /\ applying[t] \in Calls
         /\ applying[t].submission \in Reviewed /\ applying[t].content \in Contents
         /\ applying[t].pc \in Known => applying[t].id \in ReviewsOf(applying[t].submission)
         /\ applying[t].submission \notin crowded => CallDone(applying[t])
         /\ SubmissionOK(applying[t].submission)
BY DEF ReviewIInv, ReviewTypes, Begun, CallOK, Careful, AtWork

LEMMA FindKeeps ==
  ASSUME ReviewIInv, NEW t \in Teachers, FindReview(t),
         NEW s \in Reviewed, s = applying[t].submission
  PROVE  ReviewIInv'
<1>1. /\ ReviewTypes' /\ UNCHANGED <<reviewTables, crowded>> /\ Others(t)
      /\ AtWork(t) /\ applying'[t].pc \in {"idle", "insert", "compare"}
      /\ applying'[t].pc # "idle" => SameCall(t)
      /\ applying'[t].pc = "insert" => ReviewsOf(s) = {}
      /\ applying'[t].pc = "compare" =>
           applying'[t].id \in ReviewsOf(s) /\ applying'[t].old = codeReviews[applying'[t].id].globalComment
  BY FindDoes DEF ReviewIInv
<1>2. ReviewsOf(s)' = ReviewsOf(s) /\ \A r \in Reviewed : SameOf(r)
  BY <1>1, UnchangedIsSame
<1>3. codeReviews' = codeReviews
  BY <1>1 DEF reviewTables
<1>4. CallOK(t)'
  <2>1. CASE applying'[t].pc = "idle"
    BY <2>1 DEF CallOK, Careful, AtWork, Known
  <2>2. CASE applying'[t].pc # "idle"
    <3>1. applying'[t].submission = s
      BY <1>1, <2>2 DEF SameCall
    <3>. QED
      BY <1>1, <1>2, <1>3, <2>2, <3>1 DEF CallOK, CallDone, Known
  <2>. QED
    BY <2>1, <2>2
<1>5. SubmissionOK(s)'
  BY <1>1, <1>2, SameSubmissionOK DEF ReviewIInv
<1>. QED
  BY <1>1, <1>2, <1>4, <1>5, OwnStep DEF SameCall

\* What contentEqualsTo finds equal has the same comments.
LEMMA EqualIsStored ==
  ASSUME ReviewTypes, NEW id \in DOMAIN codeReviews, NEW content \in Contents, Distinct(id),
         ContentEquals(codeReviews[id].globalComment, CommentsOf(id), content)
  PROVE  IsStored(id, content)
<1>. DEFINE rows == CommentsOf(id)
            lines == content.lines
<1>1. /\ codeReviews[id].globalComment = content.globalComment
      /\ Cardinality(rows) = Cardinality(lines)
      /\ \A row \in rows : Comment(row) \in lines
  BY DEF ContentEquals
<1>2. IsFiniteSet(lines)
  BY ContentsAssumption
<1>3. \A row, other \in rows : Comment(row) = Comment(other) => row = other
  <2>1. \A row, other \in rows : Comment(row) = Comment(other) => row.line = other.line
    BY DEF Comment
  <2>. QED
    BY <2>1 DEF Distinct
<1>. DEFINE f == [row \in rows |-> Comment(row)]
<1>4. f \in Injection(rows, lines)
  <2>1. f \in [rows -> lines]
    BY <1>1
  <2>2. \A row, other \in rows : f[row] = f[other] => row = other
    BY <1>3
  <2>. QED
    BY <2>1, <2>2 DEF Injection, IsInjective
<1>5. f \in Surjection(rows, lines)
  BY <1>1, <1>2, <1>4, FS_Injection
<1>6. \A c \in lines : \E row \in rows : Comment(row) = c
  BY <1>5 DEF Surjection
<1>. QED
  BY <1>1, <1>6 DEF IsStored, Distinct

LEMMA CompareKeeps ==
  ASSUME ReviewIInv, NEW t \in Teachers, CompareReview(t),
         NEW s \in Reviewed, s = applying[t].submission
  PROVE  ReviewIInv'
<1>. DEFINE a == applying[t]
<1>1. /\ ReviewTypes' /\ UNCHANGED <<reviewTables, crowded>> /\ Others(t) /\ a.pc = "compare"
  BY CompareDoes DEF ReviewIInv
<1>2. PICK pc \in {"status", "delete"} :
        /\ applying'[t] = [a EXCEPT !.pc = pc]
        /\ pc = "status" => ContentEquals(a.old, CommentsOf(a.id), a.content)
  BY CompareDoes DEF ReviewIInv
<1>3. /\ AtWork(t) /\ ReviewTypes /\ a \in Calls /\ a.content \in Contents
      /\ a.id \in ReviewsOf(s) /\ SubmissionOK(s)
      /\ s \notin crowded => a.old = codeReviews[a.id].globalComment
  BY <1>1, OwnCall DEF AtWork, Known, CallDone
<1>4. ReviewsOf(s)' = ReviewsOf(s) /\ \A r \in Reviewed : SameOf(r)
  BY <1>1, UnchangedIsSame
<1>5. /\ applying'[t].pc = pc /\ applying'[t].submission = s /\ applying'[t].id = a.id
      /\ applying'[t].content = a.content
  BY <1>2, <1>3 DEF Calls
<1>6. ASSUME s \notin crowded, pc = "status" PROVE IsStored(a.id, a.content)'
  <2>1. a.id \in DOMAIN codeReviews /\ Distinct(a.id)
    BY <1>3, <1>6 DEF ReviewsOf, SubmissionOK
  <2>2. IsStored(a.id, a.content)
    BY <1>2, <1>3, <1>6, <2>1, EqualIsStored
  <2>. DEFINE id == a.id
              content == a.content
  <2>3. /\ UNCHANGED <<codeReviews, lineComments>> /\ a.id = applying'[t].id
        /\ a.content = applying'[t].content
    BY <1>1, <1>5 DEF reviewTables
  <2>. QED
    BY <2>2, <2>3 DEF IsStored, CommentsOf
<1>7. CallOK(t)'
  BY <1>1, <1>3, <1>4, <1>5, <1>6 DEF CallOK, CallDone, Careful, Known
<1>8. SubmissionOK(s)'
  BY <1>1, <1>3, <1>4, SameSubmissionOK
<1>. QED
  BY <1>1, <1>3, <1>4, <1>5, <1>7, <1>8, OwnStep

LEMMA InsertKeeps ==
  ASSUME ReviewIInv, NEW t \in Teachers, InsertReview(t),
         NEW s \in Reviewed, s = applying[t].submission,
         NEW content, content = applying[t].content,
         NEW new, new = Len(codeReviews) + 1
  PROVE  ReviewIInv'
<1>. DEFINE a == applying[t]
            row == [submission |-> s, globalComment |-> content.globalComment]
<1>1. /\ ReviewTypes' /\ UNCHANGED <<lineComments, verdict, crowded>> /\ Others(t)
      /\ a.pc = "insert" /\ applying'[t].pc = "comments" /\ SameCall(t)
      /\ applying'[t].id = new /\ applying'[t].todo = content.lines
      /\ codeReviews' = Append(codeReviews, row)
  BY InsertDoes DEF ReviewIInv
<1>2. /\ AtWork(t) /\ ReviewTypes /\ content \in Contents /\ SubmissionOK(s)
      /\ s \notin crowded => ReviewsOf(s) = {}
  BY <1>1, OwnCall DEF AtWork, CallDone
<1>3. /\ codeReviews \in Seq(Reviews) /\ Len(codeReviews) \in Nat
      /\ lineComments \subseteq LineRows
  BY <1>2 DEF ReviewTypes
<1>4. /\ DOMAIN codeReviews' = DOMAIN codeReviews \cup {new} /\ new \notin DOMAIN codeReviews
      /\ codeReviews'[new] = row
      /\ \A id \in DOMAIN codeReviews : codeReviews'[id] = codeReviews[id]
  BY <1>1, <1>3
<1>5. row.submission = s /\ row.globalComment = content.globalComment
  OBVIOUS
<1>6. CommentsOf(new) = {} /\ \A id : CommentsOf(id)' = CommentsOf(id)
  BY <1>1, <1>3, <1>4 DEF CommentsOf, LineRows
<1>. HIDE DEF row
<1>7. ReviewsOf(s)' = ReviewsOf(s) \cup {new}
  BY <1>4, <1>5 DEF ReviewsOf
<1>8. ASSUME NEW r \in Reviewed \ {s} PROVE SameOf(r)
  <2>1. ReviewsOf(r)' = ReviewsOf(r) /\ ReviewsOf(r) \subseteq DOMAIN codeReviews
    BY <1>4, <1>5 DEF ReviewsOf
  <2>. QED
    BY <1>1, <1>4, <1>6, <2>1 DEF SameOf
<1>9. CallOK(t)'
  <2>1. /\ applying'[t].submission = s /\ applying'[t].content = content
    BY <1>1 DEF SameCall
  <2>2. IsWritten(new, content, content.lines)'
    <3>1. CommentsOf(new)' = {}
      BY <1>6
    <3>2. codeReviews'[new].globalComment = content.globalComment
      BY <1>4, <1>5
    <3>. QED
      BY <2>1, <3>1, <3>2 DEF IsWritten
  <2>. QED
    BY <1>1, <1>7, <2>1, <2>2 DEF CallOK, CallDone, Known
<1>10. SubmissionOK(s)'
  <2>. SUFFICES ASSUME s \notin crowded
                PROVE  Cardinality(ReviewsOf(s)') <= 1 /\ \A id \in ReviewsOf(s)' : Distinct(id)'
    BY <1>1 DEF SubmissionOK
  <2>1. ReviewsOf(s)' = {new}
    BY <1>2, <1>7
  <2>2. Cardinality({new}) = 1
    BY FS_Singleton, Zenon
  <2>3. Distinct(new)'
    BY <1>6 DEF Distinct
  <2>. QED
    BY <2>1, <2>2, <2>3
<1>. QED
  BY <1>1, <1>2, <1>7, <1>8, <1>9, <1>10, OwnStep DEF SameCall

LEMMA DeleteKeeps ==
  ASSUME ReviewIInv, NEW t \in Teachers, DeleteLineComments(t),
         NEW s \in Reviewed, s = applying[t].submission,
         NEW id, id = applying[t].id
  PROVE  ReviewIInv'
<1>. DEFINE a == applying[t]
<1>1. /\ ReviewTypes' /\ UNCHANGED <<codeReviews, verdict, crowded>> /\ Others(t)
      /\ a.pc = "delete" /\ applying'[t] = [a EXCEPT !.pc = "update"]
      /\ lineComments' = lineComments \ CommentsOf(id)
  BY DeleteDoes DEF ReviewIInv
<1>2. /\ AtWork(t) /\ a \in Calls /\ id \in ReviewsOf(s) /\ SubmissionOK(s)
  BY <1>1, OwnCall DEF AtWork, Known
<1>3. \A r : ReviewsOf(r)' = ReviewsOf(r)
  BY <1>1 DEF ReviewsOf
<1>4. CommentsOf(id)' = {} /\ \A o : o # id => CommentsOf(o)' = CommentsOf(o)
  BY <1>1 DEF CommentsOf
<1>5. applying'[t].pc = "update" /\ applying'[t].submission = s /\ applying'[t].id = id
  BY <1>1, <1>2 DEF Calls
<1>6. ASSUME NEW r \in Reviewed \ {s} PROVE SameOf(r)
  <2>1. id \notin ReviewsOf(r)
    BY <1>2 DEF ReviewsOf
  <2>. QED
    BY <1>1, <1>3, <1>4, <2>1 DEF SameOf
<1>7. CallOK(t)'
  BY <1>2, <1>3, <1>4, <1>5 DEF CallOK, CallDone, Known
<1>8. SubmissionOK(s)'
  BY <1>1, <1>2, <1>3, <1>4 DEF SubmissionOK, Distinct
<1>. QED
  BY <1>1, <1>2, <1>3, <1>5, <1>6, <1>7, <1>8, OwnStep

LEMMA UpdateKeeps ==
  ASSUME ReviewIInv, NEW t \in Teachers, UpdateReview(t),
         NEW s \in Reviewed, s = applying[t].submission,
         NEW id, id = applying[t].id
  PROVE  ReviewIInv'
<1>. DEFINE a == applying[t]
<1>1. a.pc = "update" /\ AtWork(t)
  BY DEF UpdateReview, AtWork
<1>2. /\ ReviewTypes /\ a \in Calls /\ a.content \in Contents
      /\ id \in ReviewsOf(s) /\ SubmissionOK(s)
      /\ s \notin crowded => CommentsOf(id) = {}
  BY <1>1, OwnCall DEF Known, CallDone
<1>3. id \in DOMAIN codeReviews /\ codeReviews[id].submission = s
  BY <1>2 DEF ReviewsOf
<1>4. /\ ReviewTypes' /\ UNCHANGED <<lineComments, verdict, crowded>> /\ Others(t)
      /\ applying'[t].pc = "comments" /\ SameCall(t)
      /\ applying'[t].id = id /\ applying'[t].todo = a.content.lines
      /\ Len(codeReviews') = Len(codeReviews)
      /\ codeReviews'[id].globalComment = a.content.globalComment
      /\ codeReviews'[id].submission = codeReviews[id].submission
      /\ \A o \in DOMAIN codeReviews \ {id} : codeReviews'[o] = codeReviews[o]
  BY <1>2, <1>3, UpdateDoes
<1>5. DOMAIN codeReviews' = DOMAIN codeReviews
  <2>1. codeReviews \in Seq(Reviews) /\ codeReviews' \in Seq(Reviews)
    BY <1>2, <1>4 DEF ReviewTypes, Reviews
  <2>. QED
    BY <1>4, <2>1
<1>6. \A r : ReviewsOf(r)' = ReviewsOf(r)
  BY <1>3, <1>4, <1>5 DEF ReviewsOf
<1>7. \A o : CommentsOf(o)' = CommentsOf(o)
  BY <1>4 DEF CommentsOf
<1>8. applying'[t].submission = s /\ applying'[t].content = a.content
  BY <1>4 DEF SameCall
<1>9. ASSUME NEW r \in Reviewed \ {s} PROVE SameOf(r)
  <2>1. id \notin ReviewsOf(r) /\ ReviewsOf(r) \subseteq DOMAIN codeReviews
    BY <1>3 DEF ReviewsOf
  <2>. QED
    BY <1>4, <1>6, <1>7, <2>1 DEF SameOf
<1>10. CallOK(t)'
  <2>. DEFINE b == applying'[t]
  <2>1. s \notin crowded =>
          /\ codeReviews'[id].globalComment = b.content.globalComment
          /\ b.todo = b.content.lines
          /\ {Comment(row) : row \in CommentsOf(id)'} = b.content.lines \ b.todo
    BY <1>2, <1>4, <1>7, <1>8
  <2>. QED
    BY <1>2, <1>4, <1>6, <1>8, <2>1 DEF CallOK, CallDone, Careful, IsWritten, Known
<1>11. SubmissionOK(s)'
  BY <1>2, <1>4, <1>6, <1>7 DEF SubmissionOK, Distinct
<1>. QED
  BY <1>1, <1>4, <1>6, <1>8, <1>9, <1>10, <1>11, OwnStep

LEMMA AddKeeps ==
  ASSUME ReviewIInv, NEW t \in Teachers, AddLineComment(t),
         NEW s \in Reviewed, s = applying[t].submission,
         NEW content, content = applying[t].content,
         NEW todo, todo = applying[t].todo,
         NEW id, id = applying[t].id
  PROVE  ReviewIInv'
<1>. DEFINE a == applying[t]
<1>1. a.pc = "comments" /\ AtWork(t)
  BY DEF AddLineComment, AtWork
<1>2. /\ ReviewTypes /\ a \in Calls /\ content \in Contents
      /\ id \in ReviewsOf(s) /\ SubmissionOK(s)
      /\ s \notin crowded => IsWritten(id, content, todo)
  BY <1>1, OwnCall DEF Known, CallDone
<1>3. id \in DOMAIN codeReviews /\ codeReviews[id].submission = s
  BY <1>2 DEF ReviewsOf
<1>4. /\ ReviewTypes' /\ UNCHANGED <<codeReviews, verdict, crowded>> /\ Others(t)
      /\ applying'[t].pc = "comments" /\ SameCall(t) /\ applying'[t].id = id
  BY <1>2, <1>3, AddDoes
<1>5. PICK c \in todo, row \in LineRows' :
        /\ c \in Comments /\ applying'[t].todo = todo \ {c}
        /\ row.id = id /\ row.line = c.line /\ row.text = c.text
        /\ lineComments' = lineComments \cup {row}
  BY <1>2, <1>3, AddDoes
<1>6. Comment(row) = c
  BY <1>5 DEF Comment, Comments
<1>7. \A r : ReviewsOf(r)' = ReviewsOf(r)
  BY <1>4 DEF ReviewsOf
<1>8. /\ CommentsOf(id)' = CommentsOf(id) \cup {row}
      /\ \A o : o # id => CommentsOf(o)' = CommentsOf(o)
  BY <1>5 DEF CommentsOf
<1>9. applying'[t].submission = s /\ applying'[t].content = content
  BY <1>4 DEF SameCall
<1>10. ASSUME NEW r \in Reviewed \ {s} PROVE SameOf(r)
  <2>1. id \notin ReviewsOf(r)
    BY <1>3 DEF ReviewsOf
  <2>. QED
    BY <1>4, <1>7, <1>8, <2>1 DEF SameOf
<1>11. ASSUME s \notin crowded
       PROVE  IsWritten(id, content, todo \ {c})' /\ Distinct(id)'
  <2>1. /\ codeReviews[id].globalComment = content.globalComment
        /\ todo \subseteq content.lines
        /\ {Comment(o) : o \in CommentsOf(id)} = content.lines \ todo
    BY <1>2, <1>11 DEF IsWritten
  <2>2. {Comment(o) : o \in CommentsOf(id)'} = {Comment(o) : o \in CommentsOf(id)} \cup {c}
    BY <1>6, <1>8
  <2>3. {Comment(o) : o \in CommentsOf(id)'} = content.lines \ (todo \ {c})
    BY <1>5, <2>1, <2>2
  <2>4. ASSUME NEW o \in CommentsOf(id) PROVE o.line # row.line
    <3>1. Comment(o) \in content.lines \ todo /\ Comment(o).line = o.line
      BY <2>1 DEF Comment
    <3>2. c \in content.lines /\ c # Comment(o)
      BY <1>5, <2>1, <3>1
    <3>. QED
      BY <1>2, <1>5, <3>1, <3>2, ContentsAssumption
  <2>5. Distinct(id)
    BY <1>2, <1>11 DEF SubmissionOK
  <2>6. Distinct(id)'
    BY <1>8, <2>4, <2>5 DEF Distinct
  <2>7. codeReviews'[id].globalComment = content.globalComment
    BY <1>4, <2>1
  <2>. QED
    BY <2>1, <2>3, <2>6, <2>7 DEF IsWritten
<1>12. CallOK(t)'
  BY <1>2, <1>4, <1>5, <1>7, <1>9, <1>11 DEF CallOK, CallDone, Careful, Known
<1>13. SubmissionOK(s)'
  <2>. SUFFICES ASSUME s \notin crowded
                PROVE  Cardinality(ReviewsOf(s)') <= 1 /\ \A o \in ReviewsOf(s)' : Distinct(o)'
    BY <1>4 DEF SubmissionOK
  <2>1. ReviewsOf(s)' = ReviewsOf(s) /\ Cardinality(ReviewsOf(s)) <= 1
        /\ \A o \in ReviewsOf(s) : Distinct(o)
    BY <1>2, <1>7 DEF SubmissionOK
  <2>2. \A o \in ReviewsOf(s) \ {id} : Distinct(o)'
    BY <1>8, <2>1 DEF Distinct
  <2>. QED
    BY <1>11, <2>1, <2>2
<1>. QED
  BY <1>1, <1>4, <1>7, <1>9, <1>10, <1>12, <1>13, OwnStep

LEMMA StatusKeeps ==
  ASSUME ReviewIInv, NEW t \in Teachers, UpdateStatus(t),
         NEW s \in Reviewed, s = applying[t].submission,
         NEW content, content = applying[t].content,
         NEW id, id = applying[t].id
  PROVE  ReviewIInv'
<1>. DEFINE a == applying[t]
<1>1. /\ ReviewTypes' /\ UNCHANGED <<codeReviews, lineComments, crowded>> /\ Others(t)
      /\ a.pc = "status" \/ (a.pc = "comments" /\ a.todo = {})
      /\ applying'[t] = [a EXCEPT !.pc = "applied"]
      /\ verdict'[s] = a.newStatus
      /\ \A r \in Reviewed \ {s} : verdict'[r] = verdict[r]
  BY StatusDoes DEF ReviewIInv
<1>2. AtWork(t) /\ a.pc \in Known
  BY <1>1 DEF AtWork, Known
<1>3. /\ ReviewTypes /\ a \in Calls /\ id \in ReviewsOf(s) /\ SubmissionOK(s)
      /\ s \notin crowded => CallDone(a)
  BY <1>2, OwnCall
<1>4. /\ \A r : ReviewsOf(r)' = ReviewsOf(r)
      /\ \A o : CommentsOf(o)' = CommentsOf(o)
  BY <1>1 DEF ReviewsOf, CommentsOf
<1>5. /\ applying'[t].pc = "applied" /\ applying'[t].submission = s
      /\ applying'[t].content = content /\ applying'[t].newStatus = a.newStatus
  BY <1>1, <1>3 DEF Calls
<1>6. ASSUME s \notin crowded PROVE IsStored(id, content)'
  <2>1. Distinct(id)
    BY <1>3, <1>6 DEF SubmissionOK
  <2>2. IsStored(id, content)
    <3>1. CASE a.pc = "status"
      BY <1>3, <1>6, <3>1 DEF CallDone
    <3>2. CASE a.pc = "comments" /\ a.todo = {}
      <4>1. IsWritten(id, content, {})
        BY <1>3, <1>6, <3>2 DEF CallDone
      <4>. QED
        BY <2>1, <4>1 DEF IsWritten, IsStored, Distinct
    <3>. QED
      BY <1>1, <3>1, <3>2
  <2>. QED
    BY <1>1, <1>4, <2>2 DEF IsStored
<1>7. CallOK(t)'
  BY <1>1, <1>3, <1>4, <1>5, <1>6 DEF CallOK, CallDone, Careful, Known
<1>8. SubmissionOK(s)'
  BY <1>1, <1>3, <1>4 DEF SubmissionOK, Distinct
<1>9. ASSUME NEW r \in Reviewed \ {s} PROVE SameOf(r)
  BY <1>1, <1>4 DEF SameOf
<1>. QED
  BY <1>1, <1>2, <1>4, <1>5, <1>7, <1>8, <1>9, OwnStep

LEMMA FailsKeeps ==
  ASSUME ReviewIInv, NEW t \in Teachers, ApplyFails(t),
         NEW s \in Reviewed, s = applying[t].submission
  PROVE  ReviewIInv'
<1>1. /\ ReviewTypes' /\ UNCHANGED <<reviewTables, crowded>> /\ Others(t)
      /\ applying'[t].pc = "idle"
  BY FailsDoes DEF ReviewIInv
<1>2. AtWork(t)
  BY DEF ApplyFails
<1>3. ReviewsOf(s)' = ReviewsOf(s) /\ \A r \in Reviewed : SameOf(r)
  BY <1>1, UnchangedIsSame
<1>4. CallOK(t)'
  BY <1>1 DEF CallOK, Careful, AtWork, Known
<1>5. SubmissionOK(s)'
  BY <1>1, <1>3, SameSubmissionOK DEF ReviewIInv
<1>. QED
  BY <1>1, <1>2, <1>3, <1>4, <1>5, OwnStep

-----------------------------------------------------------------------------
(* The review service: theorems *)

LEMMA ReviewInvInit == ReviewInit => ReviewIInv
<1>. SUFFICES ASSUME ReviewInit PROVE ReviewIInv
  OBVIOUS
<1>1. \A t \in Teachers : applying[t].pc = "idle"
  BY DEF ReviewInit, NoApply
<1>2. Apart /\ \A t \in Teachers : CallOK(t)
  BY <1>1 DEF Apart, CallOK, Careful, AtWork, Known
<1>3. \A s : ReviewsOf(s) = {}
  BY DEF ReviewInit, ReviewsOf
<1>4. \A s \in Reviewed : SubmissionOK(s)
  <2>1. Cardinality({}) = 0
    BY FS_EmptySet
  <2>. QED
    BY <1>3, <2>1 DEF SubmissionOK
<1>. QED
  BY <1>2, <1>4, ReviewTypesInit DEF ReviewIInv

LEMMA ReviewInvStep == ReviewIInv /\ [ReviewNext]_reviewVars => ReviewIInv'
<1>. SUFFICES ASSUME ReviewIInv, [ReviewNext]_reviewVars PROVE ReviewIInv'
  OBVIOUS
<1>1. CASE UNCHANGED reviewVars
  <2>1. UNCHANGED <<reviewTables, applying, crowded>>
    BY <1>1 DEF reviewVars
  <2>2. \A s \in Reviewed : SameOf(s) /\ SubmissionOK(s)'
    BY <2>1, UnchangedIsSame DEF ReviewIInv
  <2>3. ReviewTypes'
    <3>1. Calls' = Calls /\ LineRows' = LineRows
      BY <2>1 DEF Calls, LineRows, reviewTables
    <3>. QED
      BY <2>1, <3>1 DEF ReviewIInv, ReviewTypes, Begun, reviewTables
  <2>4. ASSUME NEW t \in Teachers PROVE CallOK(t)'
    <3>1. CASE applying[t].pc = "idle"
      BY <2>1, <3>1 DEF CallOK, Careful, AtWork, Known
    <3>2. CASE applying[t].pc # "idle"
      <4>1. applying[t].submission \in Reviewed /\ CallOK(t)
        BY <3>2 DEF ReviewIInv, ReviewTypes, Begun
      <4>. QED
        BY <2>1, <2>2, <4>1, SameCallOK
    <3>. QED
      BY <3>1, <3>2
  <2>5. Apart'
    BY <2>1 DEF ReviewIInv, Apart, Careful, AtWork
  <2>. QED
    BY <2>2, <2>3, <2>4, <2>5 DEF ReviewIInv
<1>2. ASSUME NEW t \in Teachers, AtWork(t),
             \/ FindReview(t) \/ CompareReview(t) \/ InsertReview(t) \/ DeleteLineComments(t)
             \/ UpdateReview(t) \/ AddLineComment(t) \/ UpdateStatus(t) \/ ApplyFails(t)
      PROVE  ReviewIInv'
  <2>1. applying[t].submission \in Reviewed
    BY <1>2, OwnCall
  <2>. QED
    BY <1>2, <2>1, FindKeeps, CompareKeeps, InsertKeeps, DeleteKeeps, UpdateKeeps, AddKeeps,
       StatusKeeps, FailsKeeps
<1>3. ASSUME NEW t \in Teachers,
             \/ FindReview(t) \/ CompareReview(t) \/ InsertReview(t) \/ DeleteLineComments(t)
             \/ UpdateReview(t) \/ AddLineComment(t) \/ UpdateStatus(t) \/ ApplyFails(t)
      PROVE  AtWork(t)
  BY <1>3 DEF AtWork, FindReview, CompareReview, InsertReview, DeleteLineComments, UpdateReview,
     AddLineComment, UpdateStatus, ApplyFails
<1>. QED
  BY <1>1, <1>2, <1>3, ApplyKeeps, Zenon DEF ReviewNext

LEMMA ReviewInvAlways == FairWork => []ReviewIInv
<1>1. WorkInit => ReviewIInv
  BY ReviewInvInit, WorkReviews
<1>2. ReviewIInv /\ [WorkNext]_workVars => ReviewIInv'
  BY ReviewInvStep, WorkStepReviews
<1>. QED
  BY <1>1, <1>2, PTL DEF FairWork

\* Rows and calls of the review service keep their types.
THEOREM ReviewTypeCorrect == FairWork => []ReviewTypeOK
<1>1. ReviewIInv => ReviewTypeOK
  BY TypesAreOK DEF ReviewIInv
<1>. QED
  BY <1>1, ReviewInvAlways, PTL

\* A submission has at most one review, which every later call relies on,
\* whatever fails half way and is tried again, unless calls were at work on it
\* at the same time.
THEOREM ReviewsAreSingle == FairWork => []OneReview
<1>1. ReviewIInv => OneReview
  BY DEF ReviewIInv, SubmissionOK, OneReview
<1>. QED
  BY <1>1, ReviewInvAlways, PTL

\* What a call reports as applied is in the tables, each comment once, over
\* whatever earlier calls have left half done.
THEOREM AppliedReviewsAreStored == FairWork => []AppliedIsStored
<1>1. ReviewIInv => AppliedIsStored
  BY DEF ReviewIInv, CallOK, Careful, CallDone, AppliedIsStored
<1>. QED
  BY <1>1, ReviewInvAlways, PTL

-----------------------------------------------------------------------------
(* The content service: types *)

CourseFiles == {"course", "problem", "template"}
ProblemFiles == {"problem", "tests"}

Times == [Parts -> Nat]
Items ==
  [data : Times, modified : Nat \cup {Null}, checked : {"never", "fresh", "expired"},
   error : {"no", "yes"}, doubtful : {"no", "yes"}]
AnswerRecords ==
  [status : {"none", "same", "data", "error"}, data : Times, modified : Int,
   doubtful : {"no", "yes"}]
CallRecords ==
  [pc : {"none", "sent", "answered"}, what : YamlFiles, stamp : Int, answer : AnswerRecords]

StepSet == ({"time"} \X Files) \cup ({"content"} \X Parts) \cup ({"end"} \X YamlFiles)
Servings ==
  [pc : {"none", "modified", "course", "problem"}, client : Clients \cup {""}, what : YamlFiles,
   stamp : Int, loaded : {"no", "yes"}, todo : Seq(StepSet), edits : Nat, part : Times,
   answer : AnswerRecords]

ContentTypes ==
  /\ disk \in [Files -> Nat \ {0}] /\ broken \subseteq YamlFiles
  /\ course \in Items /\ problem \in Items
  /\ serving \in Servings /\ calls \in [Clients -> CallRecords]

LEMMA PartsAreOfFiles ==
  /\ \A p \in Parts : FileOf(p) \in Files
  /\ Files \subseteq Parts /\ YamlFiles \subseteq Files
  /\ CourseParts \subseteq Parts /\ ProblemParts \subseteq Parts
  /\ \A p \in CourseParts : FileOf(p) \in CourseFiles
  /\ \A p \in ProblemParts : FileOf(p) \in ProblemFiles
  /\ CourseFiles \subseteq Files /\ ProblemFiles \subseteq Files
BY DEF Parts, Files, YamlFiles, FileOf, CourseParts, ProblemParts, CourseFiles, ProblemFiles

LEMMA StepIsKnown ==
  ASSUME NEW step \in StepSet
  PROVE  /\ step[1] \in {"time", "content", "end"}
         /\ step[1] = "time" => step[2] \in Files /\ step = <<"time", step[2]>>
         /\ step[1] = "content" => step[2] \in Parts /\ step = <<"content", step[2]>>
BY DEF StepSet

-----------------------------------------------------------------------------
(* The content service: the steps of a load *)

Has(s, x) == \E n \in DOMAIN s : s[n] = x

\* A load ends with a step of that kind, and it is the only one.
EndsOnce(s) == s # <<>> => \A n \in 1..Len(s) : s[n][1] = "end" <=> n = Len(s)

LEMMA HasTwo ==
  ASSUME NEW a \in StepSet, NEW b \in StepSet
  PROVE  <<a, b>> \in Seq(StepSet) /\ \A x : Has(<<a, b>>, x) <=> x = a \/ x = b
<1>1. <<a, b>> \in Seq(StepSet) /\ DOMAIN <<a, b>> = {1, 2} /\ <<a, b>>[1] = a /\ <<a, b>>[2] = b
  OBVIOUS
<1>. QED
  BY <1>1 DEF Has

LEMMA HasJoin ==
  ASSUME NEW s \in Seq(StepSet), NEW t \in Seq(StepSet)
  PROVE  s \o t \in Seq(StepSet) /\ \A x : Has(s \o t, x) <=> Has(s, x) \/ Has(t, x)
<1>1. /\ s \o t \in Seq(StepSet) /\ Len(s \o t) = Len(s) + Len(t)
      /\ Len(s) \in Nat /\ Len(t) \in Nat
      /\ DOMAIN s = 1..Len(s) /\ DOMAIN t = 1..Len(t) /\ DOMAIN (s \o t) = 1..(Len(s) + Len(t))
      /\ \A n \in 1..(Len(s) + Len(t)) :
           (s \o t)[n] = IF n <= Len(s) THEN s[n] ELSE t[n - Len(s)]
  OBVIOUS
<1>. PICK u, k, l : u = s \o t /\ k = Len(s) /\ l = Len(t)
  OBVIOUS
<1>2. ASSUME NEW x, Has(u, x) PROVE Has(s, x) \/ Has(t, x)
  <2>1. PICK n \in 1..(k + l) : u[n] = x
    BY <1>1, <1>2 DEF Has
  <2>2. CASE n <= k
    <3>1. n \in DOMAIN s /\ s[n] = x
      BY <1>1, <2>1, <2>2
    <3>. QED
      BY <3>1 DEF Has
  <2>3. CASE ~(n <= k)
    <3>1. n - k \in DOMAIN t /\ t[n - k] = x
      BY <1>1, <2>1, <2>3
    <3>. QED
      BY <3>1 DEF Has
  <2>. QED
    BY <2>2, <2>3
<1>3. ASSUME NEW x, Has(s, x) PROVE Has(u, x)
  <2>1. PICK n \in 1..k : s[n] = x
    BY <1>1, <1>3 DEF Has
  <2>2. n \in DOMAIN u /\ u[n] = x
    BY <1>1, <2>1
  <2>. QED
    BY <2>2 DEF Has
<1>4. ASSUME NEW x, Has(t, x) PROVE Has(u, x)
  <2>1. PICK n \in 1..l : t[n] = x
    BY <1>1, <1>4 DEF Has
  <2>2. n + k \in DOMAIN u /\ u[n + k] = x
    BY <1>1, <2>1
  <2>. QED
    BY <2>2 DEF Has
<1>. QED
  BY <1>1, <1>2, <1>3, <1>4

LEMMA JoinEnd ==
  ASSUME NEW s \in Seq(StepSet), NEW e \in StepSet, e[1] = "end",
         \A x : Has(s, x) => x[1] # "end"
  PROVE  /\ s \o <<e>> \in Seq(StepSet) /\ s \o <<e>> # <<>> /\ EndsOnce(s \o <<e>>)
         /\ \A x : Has(s \o <<e>>, x) <=> Has(s, x) \/ x = e
<1>. PICK t : t = <<e>>
  OBVIOUS
<1>1. t \in Seq(StepSet) /\ DOMAIN t = {1} /\ t[1] = e /\ Len(t) = 1
  OBVIOUS
<1>2. \A x : Has(t, x) <=> x = e
  BY <1>1 DEF Has
<1>3. /\ s \o t \in Seq(StepSet) /\ Len(s \o t) = Len(s) + 1 /\ s \o t # <<>>
      /\ Len(s) \in Nat /\ DOMAIN s = 1..Len(s)
      /\ \A n \in 1..Len(s) : (s \o t)[n] = s[n]
      /\ (s \o t)[Len(s) + 1] = e
  BY <1>1
<1>4. \A n \in 1..Len(s) : s[n][1] # "end"
  BY <1>3 DEF Has
<1>5. ASSUME NEW n \in 1..(Len(s) + 1) PROVE (s \o t)[n][1] = "end" <=> n = Len(s) + 1
  <2>1. CASE n = Len(s) + 1
    BY <1>3, <2>1
  <2>2. CASE n # Len(s) + 1
    <3>1. n \in 1..Len(s) /\ n # Len(s) + 1
      BY <1>3, <2>2
    <3>. QED
      BY <1>3, <1>4, <3>1
  <2>. QED
    BY <2>1, <2>2
<1>6. EndsOnce(s \o t)
  BY <1>3, <1>5 DEF EndsOnce
<1>. QED
  BY <1>1, <1>2, <1>3, <1>6, HasJoin

LEMMA TailHas ==
  ASSUME NEW s \in Seq(StepSet), s # <<>>, EndsOnce(s)
  PROVE  /\ Head(s) \in StepSet /\ Tail(s) \in Seq(StepSet) /\ EndsOnce(Tail(s))
         /\ \A x : Has(s, x) <=> x = Head(s) \/ Has(Tail(s), x)
         /\ Head(s)[1] # "end" => Tail(s) # <<>>
         /\ Head(s)[1] = "end" => \A x : Has(s, x) => x[1] = "end"
<1>1. /\ Head(s) = s[1] /\ s[1] \in StepSet /\ Tail(s) \in Seq(StepSet)
      /\ Len(s) \in Nat \ {0} /\ Len(Tail(s)) = Len(s) - 1
      /\ DOMAIN s = 1..Len(s) /\ DOMAIN Tail(s) = 1..(Len(s) - 1)
      /\ \A n \in 1..(Len(s) - 1) : Tail(s)[n] = s[n + 1]
  OBVIOUS
<1>. PICK t, k : t = Tail(s) /\ k = Len(s)
  OBVIOUS
<1>2. \A n \in 1..k : s[n][1] = "end" <=> n = k
  BY <1>1 DEF EndsOnce
<1>3. EndsOnce(t)
  <2>1. ASSUME NEW n \in 1..(k - 1) PROVE t[n][1] = "end" <=> n = k - 1
    <3>1. n + 1 \in 1..k /\ t[n] = s[n + 1]
      BY <1>1, <2>1
    <3>2. t[n][1] = "end" <=> n + 1 = k
      BY <1>2, <3>1
    <3>. QED
      BY <1>1, <3>2
  <2>. QED
    BY <1>1, <2>1 DEF EndsOnce
<1>4. ASSUME NEW x PROVE Has(s, x) <=> x = Head(s) \/ Has(t, x)
  <2>1. ASSUME Has(s, x) PROVE x = Head(s) \/ Has(t, x)
    <3>1. PICK n \in 1..k : s[n] = x
      BY <1>1, <2>1 DEF Has
    <3>2. CASE n = 1
      BY <1>1, <3>1, <3>2
    <3>3. CASE n # 1
      <4>1. n - 1 \in DOMAIN t /\ t[n - 1] = s[n]
        BY <1>1, <3>1, <3>3
      <4>. QED
        BY <3>1, <4>1 DEF Has
    <3>. QED
      BY <3>2, <3>3
  <2>2. ASSUME Has(t, x) PROVE Has(s, x)
    <3>1. PICK n \in 1..(k - 1) : t[n] = x
      BY <1>1, <2>2 DEF Has
    <3>2. n + 1 \in DOMAIN s /\ s[n + 1] = x
      BY <1>1, <3>1
    <3>. QED
      BY <3>2 DEF Has
  <2>3. Has(s, Head(s))
    <3>1. 1 \in DOMAIN s
      BY <1>1
    <3>. QED
      BY <1>1, <3>1 DEF Has
  <2>. QED
    BY <2>1, <2>2, <2>3
<1>5. ASSUME Head(s)[1] # "end" PROVE t # <<>>
  <2>1. k # 1
    BY <1>1, <1>2, <1>5
  <2>. QED
    BY <1>1, <2>1
<1>6. ASSUME Head(s)[1] = "end" PROVE \A x : Has(s, x) => x[1] = "end"
  <2>1. k = 1
    BY <1>1, <1>2, <1>6
  <2>. QED
    BY <1>1, <1>6, <2>1 DEF Has
<1>. QED
  BY <1>1, <1>3, <1>4, <1>5, <1>6

LEMMA ReadsHas ==
  ASSUME NEW p \in Parts
  PROVE  /\ Reads(p) \in Seq(StepSet)
         /\ \A x : Has(Reads(p), x) <=> x = <<"time", FileOf(p)>> \/ x = <<"content", p>>
<1>1. <<"time", FileOf(p)>> \in StepSet /\ <<"content", p>> \in StepSet
  BY PartsAreOfFiles DEF StepSet
<1>2. Reads(p) \in {<<<<"time", FileOf(p)>>, <<"content", p>>>>, <<<<"content", p>>, <<"time", FileOf(p)>>>>}
  BY Zenon DEF Reads, TimeFirst, ContentFirst
<1>. PICK a, b : a = <<"time", FileOf(p)>> /\ b = <<"content", p>>
  OBVIOUS
<1>3. CASE Reads(p) = <<a, b>>
  BY <1>1, <1>3, HasTwo
<1>4. CASE Reads(p) = <<b, a>>
  BY <1>1, <1>4, HasTwo
<1>. QED
  BY <1>2, <1>3, <1>4

\* What a load of the problem reads, and what a load of the course reads.
OfProblem(x) == \E p \in Parts \ {"course"} : x = <<"time", FileOf(p)>> \/ x = <<"content", p>>
OfCourse(x) == \E p \in Parts : x = <<"time", FileOf(p)>> \/ x = <<"content", p>>

LEMMA ProblemReadsHas ==
  ProblemReads \in Seq(StepSet) /\ \A x : Has(ProblemReads, x) <=> OfProblem(x)
<1>. PICK a, b, c, d : /\ a = Reads("problem") /\ b = Reads("template")
                       /\ c = Reads("options") /\ d = Reads("tests")
  OBVIOUS
<1>1. /\ a \in Seq(StepSet) /\ b \in Seq(StepSet) /\ c \in Seq(StepSet) /\ d \in Seq(StepSet)
      /\ \A x : Has(a, x) <=> x = <<"time", FileOf("problem")>> \/ x = <<"content", "problem">>
      /\ \A x : Has(b, x) <=> x = <<"time", FileOf("template")>> \/ x = <<"content", "template">>
      /\ \A x : Has(c, x) <=> x = <<"time", FileOf("options")>> \/ x = <<"content", "options">>
      /\ \A x : Has(d, x) <=> x = <<"time", FileOf("tests")>> \/ x = <<"content", "tests">>
  BY ReadsHas, Zenon DEF Parts, Files
<1>2. a \o b \in Seq(StepSet) /\ \A x : Has(a \o b, x) <=> Has(a, x) \/ Has(b, x)
  BY <1>1, HasJoin, Zenon
<1>3. (a \o b) \o c \in Seq(StepSet) /\ \A x : Has((a \o b) \o c, x) <=> Has(a \o b, x) \/ Has(c, x)
  BY <1>1, <1>2, HasJoin, Zenon
<1>4. /\ ((a \o b) \o c) \o d \in Seq(StepSet)
      /\ \A x : Has(((a \o b) \o c) \o d, x) <=> Has((a \o b) \o c, x) \/ Has(d, x)
  BY <1>1, <1>3, HasJoin, Zenon
<1>5. ProblemReads = ((a \o b) \o c) \o d
  BY Zenon DEF ProblemReads
<1>6. Parts \ {"course"} = {"problem", "template", "options", "tests"}
  BY DEF Parts, Files
<1>7. \A x : OfProblem(x) <=> Has(a, x) \/ Has(b, x) \/ Has(c, x) \/ Has(d, x)
  BY <1>1, <1>6, Zenon DEF OfProblem
<1>. QED
  BY <1>2, <1>3, <1>4, <1>5, <1>7

LEMMA LoadsHave ==
  /\ CourseSteps \in Seq(StepSet) /\ CourseSteps # <<>> /\ EndsOnce(CourseSteps)
  /\ \A x : Has(CourseSteps, x) <=> OfCourse(x) \/ x = <<"end", "course">>
  /\ ProblemSteps \in Seq(StepSet) /\ ProblemSteps # <<>> /\ EndsOnce(ProblemSteps)
  /\ \A x : Has(ProblemSteps, x) <=> OfProblem(x) \/ x = <<"end", "problem">>
<1>. PICK a, b, e, f : /\ a = Reads("course") /\ b = ProblemReads
                       /\ e = <<"end", "course">> /\ f = <<"end", "problem">>
  OBVIOUS
<1>1. e \in StepSet /\ f \in StepSet /\ e[1] = "end" /\ f[1] = "end"
  BY DEF StepSet, YamlFiles
<1>2. ASSUME NEW x, OfCourse(x) PROVE x[1] # "end"
  BY <1>2 DEF OfCourse
<1>3. /\ a \in Seq(StepSet)
      /\ \A x : Has(a, x) <=> x = <<"time", FileOf("course")>> \/ x = <<"content", "course">>
  BY ReadsHas, Zenon DEF Parts, Files
<1>4. b \in Seq(StepSet) /\ \A x : Has(b, x) <=> OfProblem(x)
  BY ProblemReadsHas
<1>5. a \o b \in Seq(StepSet) /\ \A x : Has(a \o b, x) <=> Has(a, x) \/ Has(b, x)
  BY <1>3, <1>4, HasJoin, Zenon
<1>6. \A x : OfCourse(x) <=> Has(a, x) \/ Has(b, x)
  <2>1. "course" \in Parts
    BY DEF Parts, Files
  <2>. QED
    BY <1>3, <1>4, <2>1, Zenon DEF OfCourse, OfProblem
<1>7. \A x : Has(a \o b, x) => x[1] # "end"
  BY <1>2, <1>5, <1>6
<1>8. \A x : Has(b, x) => x[1] # "end"
  BY <1>2, <1>4, <1>6
<1>. PICK c : c = a \o b
  OBVIOUS
<1>9. /\ c \o <<e>> \in Seq(StepSet) /\ c \o <<e>> # <<>> /\ EndsOnce(c \o <<e>>)
      /\ \A x : Has(c \o <<e>>, x) <=> Has(c, x) \/ x = e
  <2>1. c \in Seq(StepSet) /\ \A x : Has(c, x) => x[1] # "end"
    BY <1>5, <1>7
  <2>. QED
    BY <1>1, <2>1, JoinEnd, Zenon
<1>10. /\ b \o <<f>> \in Seq(StepSet) /\ b \o <<f>> # <<>> /\ EndsOnce(b \o <<f>>)
       /\ \A x : Has(b \o <<f>>, x) <=> Has(b, x) \/ x = f
  BY <1>1, <1>4, <1>8, JoinEnd, Zenon
<1>11. CourseSteps = c \o <<e>> /\ ProblemSteps = b \o <<f>>
  BY Zenon DEF CourseSteps, ProblemSteps
<1>. QED
  BY <1>4, <1>5, <1>6, <1>9, <1>10, <1>11, Zenon

-----------------------------------------------------------------------------
(* The content service: what each step does *)

LoadsCourse == serving.todo # <<>> /\ WantsCourse
LoadsProblem == serving.todo # <<>> /\ ~WantsCourse

Shape ==
  /\ serving.pc = "none" => serving.todo = <<>>
  /\ serving.pc # "none" =>
       /\ serving.client \in Clients
       /\ calls[serving.client].pc \in {"none", "sent"}
       /\ calls[serving.client].pc = "sent" =>
            calls[serving.client].what = What /\ calls[serving.client].stamp = serving.stamp
  /\ serving.pc = "problem" => What = "problem"
  /\ EndsOnce(serving.todo)
  /\ LoadsProblem => What = "problem" /\ ~StillToDo(<<"content", "course">>)
  /\ serving.todo # <<>> => serving.loaded = "no"

LEMMA Records ==
  /\ Unread \in Times /\ NoItem \in Items /\ NoAnswer \in AnswerRecords
  /\ NoCall \in CallRecords /\ NotServing \in Servings
  /\ NotServing.pc = "none" /\ NotServing.client = "" /\ NotServing.todo = <<>>
  /\ NotServing.loaded = "no" /\ NotServing.edits = 0
<1>1. Unread \in Times
  BY DEF Unread, Times
<1>2. NoItem \in Items
  BY <1>1 DEF NoItem, Items, Null
<1>3. NoAnswer \in AnswerRecords
  BY <1>1 DEF NoAnswer, AnswerRecords
<1>4. NoCall \in CallRecords
  BY <1>3 DEF NoCall, CallRecords, YamlFiles
<1>5. NotServing \in Servings
  BY <1>1, <1>3 DEF NotServing, Servings, YamlFiles
<1>. QED
  BY <1>1, <1>2, <1>3, <1>4, <1>5 DEF NotServing

LEMMA LatestOfAll ==
  ASSUME NEW a \in Nat, NEW b \in Nat, NEW c \in Nat, NEW d \in Nat
  PROVE  LET last == Latest(Latest(a, b), Latest(c, d)) IN
         last \in Nat /\ a <= last /\ b <= last /\ c <= last /\ d <= last
<1>1. ASSUME NEW s \in Nat, NEW t \in Nat
      PROVE  Latest(s, t) \in Nat /\ s <= Latest(s, t) /\ t <= Latest(s, t)
  BY DEF Latest
<1>. PICK l, r : l = Latest(a, b) /\ r = Latest(c, d)
  OBVIOUS
<1>2. l \in Nat /\ a <= l /\ b <= l /\ r \in Nat /\ c <= r /\ d <= r
  BY <1>1
<1>. PICK last : last = Latest(l, r)
  OBVIOUS
<1>3. last \in Nat /\ l <= last /\ r <= last
  BY <1>1, <1>2
<1>. QED
  BY <1>2, <1>3

LEMMA LastIs ==
  ASSUME ContentTypes
  PROVE  LastEdit \in Nat /\ \A f \in Files : disk[f] \in Nat \ {0} /\ disk[f] <= LastEdit
<1>1. disk \in [Files -> Nat \ {0}]
  BY DEF ContentTypes
<1>2. /\ disk["course"] \in Nat /\ disk["problem"] \in Nat
      /\ disk["template"] \in Nat /\ disk["tests"] \in Nat
  BY <1>1 DEF Files
<1>5. LastEdit \in Nat /\ \A f \in Files : disk[f] <= LastEdit
  BY <1>2, LatestOfAll DEF LastEdit, Files
<1>. QED
  BY <1>1, <1>5

LEMMA EditDoes ==
  ASSUME ContentTypes, NEW f \in Files, Edit(f)
  PROVE  /\ ContentTypes' /\ UNCHANGED <<caches, calls>>
         /\ disk'[f] = 1 + LastEdit /\ \A g \in Files \ {f} : disk'[g] = disk[g]
         /\ serving'.edits = IF serving.todo = <<>> THEN 0
                             ELSE serving.edits + (IF HalfRead(f) THEN 2 ELSE 1)
         /\ serving'.pc = serving.pc /\ serving'.client = serving.client
         /\ serving'.what = serving.what /\ serving'.stamp = serving.stamp
         /\ serving'.loaded = serving.loaded /\ serving'.todo = serving.todo
         /\ serving'.part = serving.part /\ serving'.answer = serving.answer
<1>1. disk \in [Files -> Nat \ {0}] /\ serving \in Servings
  BY DEF ContentTypes
<1>2. disk' = [disk EXCEPT ![f] = 1 + LastEdit] /\ LastEdit \in Nat
  BY LastIs DEF Edit
<1>3. PICK n \in Nat : n = IF serving.todo = <<>> THEN 0
                           ELSE serving.edits + (IF HalfRead(f) THEN 2 ELSE 1)
  <2>1. serving.edits \in Nat
    BY <1>1 DEF Servings
  <2>2. serving.edits + 1 \in Nat /\ serving.edits + 2 \in Nat
    BY <2>1
  <2>. QED
    BY <2>2
<1>4. serving' = [serving EXCEPT !.edits = n]
  BY <1>1, <1>3 DEF Edit, Servings
<1>5. /\ serving' \in Servings /\ serving'.edits = n
      /\ serving'.pc = serving.pc /\ serving'.client = serving.client
      /\ serving'.what = serving.what /\ serving'.stamp = serving.stamp
      /\ serving'.loaded = serving.loaded /\ serving'.todo = serving.todo
      /\ serving'.part = serving.part /\ serving'.answer = serving.answer
  BY <1>1, <1>4 DEF Servings
<1>6. /\ disk' \in [Files -> Nat \ {0}]
      /\ disk'[f] = 1 + LastEdit /\ \A g \in Files \ {f} : disk'[g] = disk[g]
  BY <1>1, <1>2
<1>7. UNCHANGED <<caches, calls>> /\ broken' \subseteq YamlFiles
  BY DEF Edit, ContentTypes
<1>. QED
  BY <1>3, <1>5, <1>6, <1>7 DEF ContentTypes, caches

LEMMA ExpireDoes ==
  ASSUME ContentTypes, Expire
  PROVE  /\ ContentTypes' /\ UNCHANGED <<contentFiles, serving, calls>>
         /\ course'.data = course.data /\ course'.modified = course.modified
         /\ course'.error = course.error /\ course'.doubtful = course.doubtful
         /\ course'.checked # "fresh" /\ (course'.checked = "never" <=> course.checked = "never")
         /\ problem'.data = problem.data /\ problem'.modified = problem.modified
         /\ problem'.error = problem.error /\ problem'.checked # "fresh"
         /\ problem'.doubtful = problem.doubtful
<1>1. ASSUME NEW item \in Items
      PROVE  /\ Expired(item) \in Items /\ Expired(item).data = item.data
             /\ Expired(item).modified = item.modified /\ Expired(item).error = item.error
             /\ Expired(item).doubtful = item.doubtful /\ Expired(item).checked # "fresh"
             /\ Expired(item).checked = "never" <=> item.checked = "never"
  BY DEF Expired, Items, Null
<1>2. /\ course \in Items /\ problem \in Items
      /\ course' = Expired(course) /\ problem' = Expired(problem)
      /\ UNCHANGED <<contentFiles, serving, calls>>
  BY DEF ContentTypes, Expire
<1>. QED
  BY <1>1, <1>2 DEF ContentTypes, contentFiles

LEMMA TakeDoes ==
  ASSUME ContentTypes, NEW c \in Clients, Take(c)
  PROVE  /\ ContentTypes' /\ UNCHANGED <<contentFiles, caches, calls>>
         /\ serving.pc = "none" /\ calls[c].pc = "sent"
         /\ serving'.pc = "modified" /\ serving'.client = c
         /\ serving'.what = calls[c].what /\ serving'.stamp = calls[c].stamp
         /\ serving'.todo = <<>> /\ serving'.loaded = "no"
<1>1. /\ serving.pc = "none" /\ calls[c].pc = "sent" /\ UNCHANGED <<contentFiles, caches, calls>>
      /\ serving' = [NotServing EXCEPT !.pc = "modified", !.client = c,
                       !.what = calls[c].what, !.stamp = calls[c].stamp]
  BY DEF Take
<1>2. calls[c] \in CallRecords
  BY DEF ContentTypes
<1>3. /\ serving' \in Servings /\ serving'.pc = "modified" /\ serving'.client = c
      /\ serving'.what = calls[c].what /\ serving'.stamp = calls[c].stamp
      /\ serving'.todo = NotServing.todo /\ serving'.loaded = NotServing.loaded
  BY <1>1, <1>2, Records DEF Servings, CallRecords
<1>. QED
  BY <1>1, <1>3, Records DEF ContentTypes, contentFiles, caches

\* The client gets answer a, if it has not died.
LEMMA AnswerWithDoes ==
  ASSUME ContentTypes, NEW a \in AnswerRecords, serving.client \in Clients, AnswerWith(a)
  PROVE  /\ calls' \in [Clients -> CallRecords] /\ serving' = NotServing
         /\ \A c \in Clients :
              \/ calls'[c] = calls[c]
                 /\ (c = serving.client => calls[c].pc # "sent")
              \/ /\ c = serving.client
                 /\ calls[c].pc = "sent" /\ calls'[c].pc = "answered" /\ calls'[c].answer = a
                 /\ calls'[c].what = calls[c].what /\ calls'[c].stamp = calls[c].stamp
<1>1. calls \in [Clients -> CallRecords]
  BY DEF ContentTypes
<1>. PICK k : k = serving.client
  OBVIOUS
<1>2. PICK rec : rec = IF calls[k].pc = "sent"
                       THEN [calls[k] EXCEPT !.pc = "answered", !.answer = a] ELSE calls[k]
  OBVIOUS
<1>3. /\ rec \in CallRecords /\ rec.what = calls[k].what /\ rec.stamp = calls[k].stamp
      /\ calls[k].pc = "sent" => rec.pc = "answered" /\ rec.answer = a
  BY <1>1, <1>2 DEF CallRecords
<1>4. calls' = [calls EXCEPT ![k] = rec] /\ serving' = NotServing
  BY <1>2, <1>1 DEF AnswerWith
<1>. QED
  BY <1>1, <1>2, <1>3, <1>4

LEMMA GoOnDoes ==
  ASSUME ContentTypes, NEW place \in {"course", "problem"}, NEW a \in AnswerRecords,
         GoOn(place, a)
  PROVE  /\ serving' \in Servings /\ UNCHANGED calls
         /\ serving'.pc = place /\ serving'.loaded = "no" /\ serving'.answer = a
         /\ serving'.client = serving.client /\ serving'.what = serving.what
         /\ serving'.stamp = serving.stamp /\ serving'.todo = serving.todo
         /\ serving'.part = serving.part
<1>1. serving \in Servings
  BY DEF ContentTypes
<1>. QED
  BY <1>1 DEF GoOn, Servings

LEMMA CompareModifiedDoes ==
  ASSUME ContentTypes, Shape, CompareModified
  PROVE  /\ ContentTypes' /\ UNCHANGED <<contentFiles, caches>>
         /\ Loaded("modified", Item)
         /\ \E a \in AnswerRecords :
              /\ a.modified = Item.modified /\ a.doubtful = Item.doubtful
              /\ \/ /\ a.modified > serving.stamp /\ GoOn("course", a)
                 \/ /\ a.modified <= serving.stamp /\ a.status = "same" /\ AnswerWith(a)
<1>1. Loaded("modified", Item) /\ UNCHANGED <<contentFiles, caches>>
  BY DEF CompareModified
<1>2. Item \in Items /\ serving \in Servings /\ serving.client \in Clients
  BY <1>1 DEF ContentTypes, Item, Shape, Loaded
<1>3. PICK a : a = [NoAnswer EXCEPT !.modified = Item.modified, !.doubtful = Item.doubtful]
  OBVIOUS
<1>4. PICK b : b = [a EXCEPT !.status = "same"]
  OBVIOUS
<1>5. /\ a \in AnswerRecords /\ b \in AnswerRecords /\ b.status = "same"
      /\ a.modified = Item.modified /\ a.doubtful = Item.doubtful
      /\ b.modified = Item.modified /\ b.doubtful = Item.doubtful
  <2>1. Item.modified \in Int /\ Item.doubtful \in {"no", "yes"}
    BY <1>2 DEF Items, Null
  <2>. QED
    BY <1>3, <1>4, <2>1, Records DEF AnswerRecords
<1>6. IF Item.modified > serving.stamp THEN GoOn("course", a) ELSE AnswerWith(b)
  BY <1>3, <1>4 DEF CompareModified
<1>7. CASE Item.modified > serving.stamp
  <2>1. GoOn("course", a)
    BY <1>6, <1>7
  <2>2. serving' \in Servings /\ UNCHANGED calls
    BY <1>5, <2>1, GoOnDoes
  <2>. QED
    BY <1>1, <1>5, <1>7, <2>1, <2>2 DEF ContentTypes, contentFiles, caches
<1>8. CASE ~(Item.modified > serving.stamp)
  <2>0. Item.modified \in Int /\ serving.stamp \in Int
    <3>1. Item.modified \in Int
      BY <1>2 DEF Items, Null
    <3>. QED
      BY <1>2, <3>1 DEF Servings
  <2>1. AnswerWith(b) /\ b.modified <= serving.stamp
    BY <1>5, <1>6, <1>8, <2>0
  <2>2. calls' \in [Clients -> CallRecords] /\ serving' \in Servings
    BY <1>2, <1>5, <2>1, AnswerWithDoes, Records
  <2>. QED
    BY <1>1, <1>5, <2>1, <2>2 DEF ContentTypes, contentFiles, caches
<1>. QED
  BY <1>7, <1>8

\* The answer with data has the time found before.
LEMMA UseCourseDataDoes ==
  ASSUME ContentTypes, Shape, UseCourseData
  PROVE  /\ ContentTypes' /\ UNCHANGED <<contentFiles, caches>>
         /\ Loaded("course", course)
         /\ \/ What = "problem" /\ GoOn("problem", serving.answer)
            \/ /\ What = "course"
               /\ \E a \in AnswerRecords :
                    /\ a.modified = serving.answer.modified /\ a.doubtful = serving.answer.doubtful
                    /\ a.status = "data" /\ a.data = Public(course.data) /\ AnswerWith(a)
<1>1. Loaded("course", course) /\ UNCHANGED <<contentFiles, caches>>
  BY DEF UseCourseData
<1>2. /\ course \in Items /\ serving \in Servings /\ serving.client \in Clients
      /\ serving.answer \in AnswerRecords /\ course.data \in Times /\ What \in YamlFiles
  BY <1>1 DEF ContentTypes, Shape, Loaded, Servings, Items, Null, What
<1>p. Public(course.data) \in Times
  BY <1>2 DEF Public, Times
<1>3. CASE What = "course"
  <2>1. PICK a : a = [serving.answer EXCEPT !.status = "data", !.data = Public(course.data)]
    OBVIOUS
  <2>2. AnswerWith(a)
    BY <1>3, <2>1 DEF UseCourseData
  <2>3. /\ a \in AnswerRecords /\ a.status = "data" /\ a.data = Public(course.data)
        /\ a.modified = serving.answer.modified /\ a.doubtful = serving.answer.doubtful
    BY <1>2, <1>p, <2>1 DEF AnswerRecords
  <2>4. calls' \in [Clients -> CallRecords] /\ serving' \in Servings
    BY <1>2, <2>2, <2>3, AnswerWithDoes, Records
  <2>. QED
    BY <1>1, <1>3, <2>2, <2>3, <2>4 DEF ContentTypes, contentFiles, caches
<1>4. CASE What = "problem"
  <2>1. GoOn("problem", serving.answer)
    BY <1>4 DEF UseCourseData
  <2>2. serving' \in Servings /\ UNCHANGED calls
    BY <1>2, <2>1, GoOnDoes
  <2>. QED
    BY <1>1, <1>4, <2>1, <2>2 DEF ContentTypes, contentFiles, caches
<1>. QED
  BY <1>2, <1>3, <1>4 DEF YamlFiles

LEMMA UseProblemDataDoes ==
  ASSUME ContentTypes, Shape, UseProblemData
  PROVE  /\ ContentTypes' /\ UNCHANGED <<contentFiles, caches>>
         /\ Loaded("problem", problem)
         /\ \E a \in AnswerRecords :
              /\ a.modified = serving.answer.modified /\ a.doubtful = serving.answer.doubtful
              /\ a.status = "data" /\ a.data = problem.data /\ AnswerWith(a)
<1>1. Loaded("problem", problem) /\ UNCHANGED <<contentFiles, caches>>
  BY DEF UseProblemData
<1>2. /\ problem \in Items /\ serving \in Servings /\ serving.client \in Clients
      /\ serving.answer \in AnswerRecords /\ problem.data \in Times
  BY <1>1 DEF ContentTypes, Shape, Loaded, Servings, Items, Null
<1>3. PICK a : a = [serving.answer EXCEPT !.status = "data", !.data = problem.data]
  OBVIOUS
<1>4. AnswerWith(a)
  BY <1>3 DEF UseProblemData
<1>5. /\ a \in AnswerRecords /\ a.status = "data" /\ a.data = problem.data
      /\ a.modified = serving.answer.modified /\ a.doubtful = serving.answer.doubtful
  BY <1>2, <1>3 DEF AnswerRecords
<1>6. calls' \in [Clients -> CallRecords] /\ serving' \in Servings
  BY <1>2, <1>4, <1>5, AnswerWithDoes, Records
<1>. QED
  BY <1>1, <1>4, <1>5, <1>6 DEF ContentTypes, contentFiles, caches

\* The same request is worked on, at the same place.
SameRequest ==
  /\ serving'.pc = serving.pc /\ serving'.client = serving.client
  /\ serving'.what = serving.what /\ serving'.stamp = serving.stamp
  /\ serving'.answer = serving.answer

LEMMA LoadCourseDoes ==
  ASSUME ContentTypes, Shape, LoadCourse
  PROVE  /\ ContentTypes' /\ UNCHANGED <<contentFiles, problem, calls>> /\ SameRequest
         /\ NotLoaded /\ WantsCourse /\ RequiresToReload(course)
         /\ serving'.todo = CourseSteps /\ serving'.loaded = "no"
         /\ course'.modified = 0 /\ course'.data = course.data
         /\ course'.checked = course.checked /\ course'.error = course.error
<1>1. course \in Items /\ serving \in Servings
  BY DEF ContentTypes
<1>2. CourseSteps \in Seq(StepSet)
  BY LoadsHave
<1>3. /\ course' = [course EXCEPT !.modified = 0, !.doubtful = "no"]
      /\ serving' = [serving EXCEPT !.todo = CourseSteps, !.part = Unread]
      /\ UNCHANGED <<contentFiles, problem, calls>>
      /\ NotLoaded /\ WantsCourse /\ RequiresToReload(course)
  BY DEF LoadCourse
<1>4. /\ course' \in Items /\ course'.modified = 0 /\ course'.data = course.data
      /\ course'.checked = course.checked /\ course'.error = course.error
  <2>1. course' = [data |-> course.data, modified |-> 0, checked |-> course.checked,
                   error |-> course.error, doubtful |-> "no"]
    BY <1>1, <1>3 DEF Items, Null
  <2>2. course' \in Items
    BY <1>1, <2>1 DEF Items, Null
  <2>. QED
    BY <2>1, <2>2
<1>5. serving' \in Servings /\ serving'.todo = CourseSteps /\ SameRequest
      /\ serving'.loaded = serving.loaded
  BY <1>1, <1>2, <1>3, Records DEF Servings, SameRequest
<1>. QED
  BY <1>3, <1>4, <1>5 DEF ContentTypes, contentFiles, NotLoaded

LEMMA LoadProblemDoes ==
  ASSUME ContentTypes, Shape, LoadProblem
  PROVE  /\ ContentTypes' /\ UNCHANGED <<contentFiles, course, calls>> /\ SameRequest
         /\ NotLoaded /\ ~WantsCourse /\ What = "problem" /\ serving.pc # "none"
         /\ serving'.todo = ProblemSteps /\ serving'.loaded = "no"
         /\ problem'.data = Unread /\ problem'.modified \in {Null, 0}
<1>1. serving \in Servings /\ NoItem \in Items
  BY Records DEF ContentTypes
<1>2. ProblemSteps \in Seq(StepSet)
  BY LoadsHave
<1>3. /\ problem' = IF serving.pc = "problem" THEN NoItem
                    ELSE [NoItem EXCEPT !.modified = 0, !.checked = "fresh"]
      /\ serving' = [serving EXCEPT !.todo = ProblemSteps, !.part = Unread]
      /\ UNCHANGED <<contentFiles, course, calls>>
      /\ NotLoaded
  BY DEF LoadProblem
<1>4. ~WantsCourse /\ What = "problem" /\ serving.pc # "none"
  <2>1. serving.pc = "problem" \/ (serving.pc = "modified" /\ What = "problem")
    BY DEF LoadProblem
  <2>. QED
    BY <2>1 DEF Shape, WantsCourse, What
<1>5. NoItem.data = Unread /\ NoItem.modified = Null
  BY DEF NoItem
<1>6. problem' \in Items /\ problem'.data = Unread /\ problem'.modified \in {Null, 0}
  <2>1. PICK item : item = [NoItem EXCEPT !.modified = 0, !.checked = "fresh"]
    OBVIOUS
  <2>3. item = [data |-> Unread, modified |-> 0, checked |-> "fresh", error |-> "no",
                doubtful |-> "no"]
    BY <2>1 DEF NoItem
  <2>4. Unread \in Times
    BY Records
  <2>2. item \in Items /\ item.data = NoItem.data /\ item.modified = 0
    BY <1>5, <2>3, <2>4 DEF Items, Null
  <2>. QED
    BY <1>1, <1>3, <1>5, <2>1, <2>2
<1>7. serving' \in Servings /\ serving'.todo = ProblemSteps /\ SameRequest
      /\ serving'.loaded = serving.loaded
  BY <1>1, <1>2, <1>3, Records DEF Servings, SameRequest
<1>. QED
  BY <1>3, <1>4, <1>6, <1>7 DEF ContentTypes, contentFiles, NotLoaded

LEMMA StepDoneDoes ==
  ASSUME ContentTypes, Shape, serving.todo # <<>>, Step[1] # "end", NEW part \in Times, StepDone(part)
  PROVE  /\ serving' \in Servings /\ SameRequest /\ serving'.part = part
         /\ serving'.loaded = serving.loaded /\ serving'.edits = serving.edits
         /\ serving'.todo # <<>> /\ EndsOnce(serving'.todo)
         /\ Step \in StepSet /\ \A x : StillToDo(x) <=> x = Step \/ StillToDo(x)'
<1>1. serving \in Servings /\ serving.todo \in Seq(StepSet) /\ EndsOnce(serving.todo)
  BY DEF ContentTypes, Servings, Shape
<1>2. /\ Step \in StepSet /\ Tail(serving.todo) \in Seq(StepSet) /\ EndsOnce(Tail(serving.todo))
      /\ \A x : Has(serving.todo, x) <=> x = Step \/ Has(Tail(serving.todo), x)
      /\ Tail(serving.todo) # <<>>
  BY <1>1, TailHas DEF Step
<1>3. /\ serving' \in Servings /\ SameRequest /\ serving'.part = part
      /\ serving'.loaded = serving.loaded /\ serving'.edits = serving.edits
      /\ serving'.todo = Tail(serving.todo)
  BY <1>1, <1>2 DEF StepDone, Servings, SameRequest
<1>. QED
  BY <1>2, <1>3 DEF Has, StillToDo

LEMMA ReadTimeDoes ==
  ASSUME ContentTypes, Shape, ReadTime
  PROVE  /\ ContentTypes' /\ UNCHANGED <<contentFiles, calls>> /\ SameRequest
         /\ serving.todo # <<>> /\ serving'.todo # <<>> /\ EndsOnce(serving'.todo)
         /\ serving'.part = serving.part /\ serving'.edits = serving.edits
         /\ serving'.loaded = serving.loaded
         /\ \E f \in Files :
              /\ \A x : StillToDo(x) <=> x = <<"time", f>> \/ StillToDo(x)'
              /\ \/ (f = "tests" \/ course.modified = Null) /\ course' = course
                 \/ /\ f # "tests" /\ course.modified # Null
                    /\ course'.modified = Latest(course.modified, disk[f])
                    /\ LoadsProblem /\ disk[f] > course.modified => course'.doubtful = "yes"
                    /\ LoadsCourse \/ disk[f] <= course.modified =>
                         course'.doubtful = course.doubtful
              /\ course'.data = course.data /\ course'.checked = course.checked
              /\ course'.error = course.error
              /\ \/ f \notin ProblemFiles /\ problem' = problem
                 \/ f \in ProblemFiles /\ LoadsCourse /\ problem' = NoItem
                 \/ /\ f \in ProblemFiles /\ LoadsProblem
                    /\ problem'.modified = Latest(problem.modified, disk[f])
                    /\ problem'.data = problem.data /\ problem'.doubtful = problem.doubtful
<1>0. /\ disk \in [Files -> Nat \ {0}] /\ course \in Items /\ problem \in Items
      /\ serving \in Servings /\ NoItem \in Items
  BY Records DEF ContentTypes
<1>1. /\ serving.todo # <<>> /\ Step[1] = "time" /\ UNCHANGED <<contentFiles, calls>>
      /\ StepDone(serving.part)
  BY DEF ReadTime, RaiseTimes
<1>2. /\ serving' \in Servings /\ SameRequest /\ serving'.part = serving.part
      /\ serving'.loaded = serving.loaded /\ serving'.edits = serving.edits
      /\ serving'.todo # <<>> /\ EndsOnce(serving'.todo)
      /\ Step \in StepSet /\ \A x : StillToDo(x) <=> x = Step \/ StillToDo(x)'
  <2>1. serving.part \in Times
    BY <1>0 DEF Servings
  <2>. QED
    BY <1>1, <2>1, StepDoneDoes
<1>3. PICK f \in Files : f = Step[2] /\ Step = <<"time", f>>
  BY <1>1, <1>2, StepIsKnown
<1>4. PICK t \in Nat : t = disk[f]
  BY <1>0
<1>6. /\ course' = IF f = "tests" \/ course.modified = Null THEN course
                   ELSE [course EXCEPT !.modified = Latest(@, t),
                          !.doubtful = IF ~WantsCourse /\ t > course.modified THEN "yes" ELSE @]
      /\ problem' = IF f \notin {"problem", "tests"} THEN problem
                    ELSE IF WantsCourse THEN NoItem
                    ELSE [problem EXCEPT !.modified = Latest(@, t)]
  BY <1>3, <1>4, Zenon DEF ReadTime, RaiseTimes
<1>7. (WantsCourse <=> LoadsCourse) /\ (LoadsProblem <=> ~LoadsCourse)
  BY <1>1 DEF LoadsCourse, LoadsProblem
<1>9. /\ course' \in Items
      /\ \/ (f = "tests" \/ course.modified = Null) /\ course' = course
         \/ /\ f # "tests" /\ course.modified # Null
            /\ course'.modified = Latest(course.modified, t)
            /\ LoadsProblem /\ t > course.modified => course'.doubtful = "yes"
            /\ LoadsCourse \/ t <= course.modified => course'.doubtful = course.doubtful
      /\ course'.data = course.data /\ course'.checked = course.checked
      /\ course'.error = course.error
  <2>1. CASE f = "tests" \/ course.modified = Null
    BY <1>0, <1>6, <2>1
  <2>2. CASE f # "tests" /\ course.modified # Null
    <3>1. PICK d : d = IF ~WantsCourse /\ t > course.modified THEN "yes" ELSE course.doubtful
      OBVIOUS
    <3>2. /\ d \in {"no", "yes"}
          /\ LoadsProblem /\ t > course.modified => d = "yes"
          /\ LoadsCourse \/ t <= course.modified => d = course.doubtful
      <4>1. course.modified \in Int /\ course.doubtful \in {"no", "yes"}
        BY <1>0 DEF Items, Null
      <4>. QED
        BY <1>7, <3>1, <4>1
    <3>3. PICK m \in Nat : m = Latest(course.modified, t)
      BY <1>0 DEF Items, Null, Latest
    <3>4. course' = [course EXCEPT !.modified = m, !.doubtful = d]
      BY <1>6, <2>2, <3>1, <3>3
    <3>5. /\ course' \in Items /\ course'.modified = m /\ course'.doubtful = d
          /\ course'.data = course.data /\ course'.checked = course.checked
          /\ course'.error = course.error
      BY <1>0, <3>2, <3>3, <3>4 DEF Items, Null
    <3>. QED
      BY <2>2, <3>2, <3>3, <3>5
  <2>. QED
    BY <2>1, <2>2
<1>10. /\ problem' \in Items
       /\ \/ f \notin ProblemFiles /\ problem' = problem
          \/ f \in ProblemFiles /\ LoadsCourse /\ problem' = NoItem
          \/ /\ f \in ProblemFiles /\ LoadsProblem
             /\ problem'.modified = Latest(problem.modified, t)
             /\ problem'.data = problem.data /\ problem'.doubtful = problem.doubtful
  <2>1. CASE f \notin ProblemFiles
    BY <1>0, <1>6, <2>1 DEF ProblemFiles
  <2>2. CASE f \in ProblemFiles /\ LoadsCourse
    BY <1>0, <1>6, <1>7, <2>2 DEF ProblemFiles
  <2>3. CASE f \in ProblemFiles /\ LoadsProblem
    <3>1. PICK m \in Nat : m = Latest(problem.modified, t)
      BY <1>0 DEF Items, Null, Latest
    <3>2. problem' = [problem EXCEPT !.modified = m]
      BY <1>6, <1>7, <2>3, <3>1 DEF ProblemFiles
    <3>3. /\ problem' \in Items /\ problem'.data = problem.data /\ problem'.modified = m
          /\ problem'.doubtful = problem.doubtful
      BY <1>0, <3>2 DEF Items, Null
    <3>. QED
      BY <2>3, <3>1, <3>3
  <2>. QED
    BY <1>7, <2>1, <2>2, <2>3
<1>12. ContentTypes'
  BY <1>1, <1>2, <1>9, <1>10 DEF ContentTypes, contentFiles
<1>. QED
  BY <1>1, <1>2, <1>3, <1>4, <1>9, <1>10, <1>12

LEMMA ReadContentDoes ==
  ASSUME ContentTypes, Shape, ReadContent
  PROVE  /\ ContentTypes' /\ UNCHANGED <<contentFiles, problem, calls>> /\ SameRequest
         /\ serving.todo # <<>> /\ serving'.todo # <<>> /\ EndsOnce(serving'.todo)
         /\ serving'.edits = serving.edits /\ serving'.loaded = serving.loaded
         /\ \E p \in Parts :
              /\ \A x : StillToDo(x) <=> x = <<"content", p>> \/ StillToDo(x)'
              /\ serving'.part[p] = disk[FileOf(p)]
              /\ \A q \in Parts \ {p} : serving'.part[q] = serving.part[q]
              /\ IF p = "course" THEN course'.data = serving'.part ELSE course'.data = course.data
         /\ course'.modified = course.modified /\ course'.checked = course.checked
         /\ course'.error = course.error /\ course'.doubtful = course.doubtful
<1>0. disk \in [Files -> Nat \ {0}] /\ course \in Items /\ serving \in Servings
  BY DEF ContentTypes
<1>. PICK part : part = [serving.part EXCEPT ![Step[2]] = disk[FileOf(Step[2])]]
  OBVIOUS
<1>1. /\ serving.todo # <<>> /\ Step[1] = "content" /\ UNCHANGED <<contentFiles, problem, calls>>
      /\ course' = IF Step[2] = "course" THEN [course EXCEPT !.data = part] ELSE course
      /\ StepDone(part)
  BY DEF ReadContent
<1>2. Step \in StepSet
  BY <1>0, <1>1, TailHas DEF Step, Servings, Shape
<1>3. PICK p \in Parts : p = Step[2] /\ Step = <<"content", p>>
  BY <1>1, <1>2, StepIsKnown
<1>4. part \in Times /\ part[p] = disk[FileOf(p)] /\ \A q \in Parts \ {p} : part[q] = serving.part[q]
  <2>1. serving.part \in [Parts -> Nat] /\ disk[FileOf(p)] \in Nat
    BY <1>0, PartsAreOfFiles DEF Servings, Times
  <2>. QED
    BY <1>3, <2>1 DEF Times
<1>5. /\ serving' \in Servings /\ SameRequest /\ serving'.part = part
      /\ serving'.loaded = serving.loaded /\ serving'.edits = serving.edits
      /\ serving'.todo # <<>> /\ EndsOnce(serving'.todo)
      /\ \A x : StillToDo(x) <=> x = Step \/ StillToDo(x)'
  BY <1>1, <1>4, StepDoneDoes
<1>6. /\ course' \in Items /\ course'.modified = course.modified
      /\ course'.checked = course.checked /\ course'.error = course.error
      /\ course'.doubtful = course.doubtful
      /\ IF p = "course" THEN course'.data = part ELSE course'.data = course.data
  <2>1. CASE p = "course"
    <3>1. course' = [course EXCEPT !.data = part]
      BY <1>1, <1>3, <2>1
    <3>. QED
      BY <1>0, <1>4, <2>1, <3>1 DEF Items, Null
  <2>2. CASE p # "course"
    BY <1>0, <1>1, <1>3, <2>2
  <2>. QED
    BY <2>1, <2>2
<1>7. ContentTypes'
  BY <1>1, <1>5, <1>6 DEF ContentTypes, contentFiles
<1>. QED
  BY <1>1, <1>3, <1>4, <1>5, <1>6, <1>7

LEMMA LoadEndsDoes ==
  ASSUME ContentTypes, Shape, LoadEnds
  PROVE  /\ ContentTypes' /\ UNCHANGED <<contentFiles, calls>> /\ SameRequest
         /\ serving.todo # <<>> /\ \A x : StillToDo(x) => x[1] = "end"
         /\ serving'.loaded = "yes" /\ serving'.todo = <<>>
         /\ LoadsCourse =>
              /\ UNCHANGED problem
              /\ course'.data = serving.part /\ course'.modified = course.modified
              /\ course'.checked = "fresh" /\ course'.error = "no"
              /\ course'.doubtful = IF serving.edits > 1 THEN "yes" ELSE "no"
         /\ LoadsProblem =>
              /\ UNCHANGED course
              /\ problem'.data = serving.part /\ problem'.modified = problem.modified
              /\ problem'.doubtful = IF serving.edits > 1 THEN "yes" ELSE "no"
<1>0. course \in Items /\ problem \in Items /\ serving \in Servings
  BY DEF ContentTypes
<1>1. /\ serving.todo # <<>> /\ Step[1] = "end" /\ UNCHANGED <<contentFiles, calls>>
      /\ serving' = [serving EXCEPT !.todo = <<>>, !.loaded = "yes", !.edits = 0]
  BY DEF LoadEnds
<1>2. LoadsProblem <=> ~LoadsCourse
  BY <1>1 DEF LoadsCourse, LoadsProblem
<1>3. WantsCourse <=> LoadsCourse
  BY <1>1 DEF LoadsCourse
<1>4. \A x : StillToDo(x) => x[1] = "end"
  <2>1. serving.todo \in Seq(StepSet) /\ EndsOnce(serving.todo)
    BY <1>0 DEF Servings, Shape
  <2>2. \A x : Has(serving.todo, x) => x[1] = "end"
    BY <1>1, <2>1, TailHas DEF Step
  <2>. QED
    BY <2>2 DEF Has, StillToDo
<1>5. /\ serving' \in Servings /\ SameRequest
      /\ serving'.loaded = "yes" /\ serving'.todo = <<>>
  <2>1. <<>> \in Seq(StepSet) /\ 0 \in Nat
    OBVIOUS
  <2>. QED
    BY <1>0, <1>1, <2>1 DEF Servings, SameRequest
<1>. PICK d : d = IF serving.edits > 1 THEN "yes" ELSE "no"
  OBVIOUS
<1>d. d \in {"no", "yes"} /\ serving.part \in Times
  BY <1>0 DEF Servings
<1>6. CASE LoadsCourse
  <2>2. course' = [course EXCEPT !.data = serving.part, !.checked = "fresh", !.error = "no", !.doubtful = d]
    BY <1>3, <1>6 DEF LoadEnds
  <2>3. course' = [data |-> serving.part, modified |-> course.modified, checked |-> "fresh",
                   error |-> "no", doubtful |-> d]
    BY <1>0, <2>2 DEF Items, Null
  <2>5. course' \in Items
    BY <1>0, <1>d, <2>3 DEF Items, Null
  <2>6. problem' = problem
    BY <1>3, <1>6 DEF LoadEnds
  <2>7. ContentTypes'
    BY <1>1, <1>5, <2>5, <2>6 DEF ContentTypes, contentFiles
  <2>. QED
    BY <1>1, <1>2, <1>4, <1>5, <1>6, <2>3, <2>6, <2>7
<1>7. CASE LoadsProblem
  <2>1. PICK k : k = IF serving.pc = "problem" THEN "fresh" ELSE problem.checked
    OBVIOUS
  <2>2. /\ problem' = [problem EXCEPT !.data = serving.part, !.doubtful = d, !.checked = k]
        /\ course' = course
    BY <1>2, <1>3, <1>7, <2>1 DEF LoadEnds
  <2>3. problem' = [data |-> serving.part, modified |-> problem.modified, checked |-> k,
                    error |-> problem.error, doubtful |-> d]
    BY <1>0, <2>2 DEF Items, Null
  <2>4. k \in {"never", "fresh", "expired"}
    BY <1>0, <2>1 DEF Items, Null
  <2>5. problem' \in Items
    BY <1>0, <1>d, <2>3, <2>4 DEF Items, Null
  <2>7. ContentTypes'
    BY <1>0, <1>1, <1>5, <2>2, <2>5 DEF ContentTypes, contentFiles
  <2>. QED
    BY <1>1, <1>2, <1>4, <1>5, <1>7, <2>2, <2>3, <2>7
<1>. QED
  BY <1>2, <1>6, <1>7

LEMMA LoadThrowsDoes ==
  ASSUME ContentTypes, Shape, LoadThrows
  PROVE  /\ ContentTypes' /\ UNCHANGED contentFiles
         /\ serving.todo # <<>> /\ serving.pc # "none"
         /\ \E a \in AnswerRecords : a.status = "error" /\ AnswerWith(a)
         /\ course'.data = course.data /\ course'.modified = course.modified
         /\ course'.checked = course.checked /\ course'.doubtful = course.doubtful
         /\ course.error = "yes" => course'.error = "yes"
         /\ LoadsProblem => course' = course
         /\ problem'.data = problem.data /\ problem'.modified = problem.modified
         /\ problem'.doubtful = problem.doubtful /\ problem'.checked = problem.checked
         /\ problem.error = "yes" => problem'.error = "yes"
<1>0. course \in Items /\ problem \in Items /\ serving \in Servings /\ NoAnswer \in AnswerRecords
  BY Records DEF ContentTypes
<1>1. /\ serving.todo # <<>> /\ Step[1] = "content" /\ UNCHANGED contentFiles
      /\ AnswerWith([NoAnswer EXCEPT !.status = "error"])
  BY DEF LoadThrows
<1>2. LoadsProblem <=> ~LoadsCourse
  BY <1>1 DEF LoadsCourse, LoadsProblem
<1>3. WantsCourse <=> LoadsCourse
  BY <1>1 DEF LoadsCourse
<1>5. ASSUME NEW item \in Items
      PROVE  /\ [item EXCEPT !.error = "yes"] \in Items
             /\ [item EXCEPT !.error = "yes"].data = item.data
             /\ [item EXCEPT !.error = "yes"].modified = item.modified
             /\ [item EXCEPT !.error = "yes"].checked = item.checked
             /\ [item EXCEPT !.error = "yes"].doubtful = item.doubtful
             /\ [item EXCEPT !.error = "yes"].error = "yes"
  BY DEF Items, Null
<1>6. /\ course' \in Items
      /\ course'.data = course.data /\ course'.modified = course.modified
      /\ course'.checked = course.checked /\ course'.doubtful = course.doubtful
      /\ course.error = "yes" => course'.error = "yes"
      /\ LoadsProblem => course' = course
  <2>1. course' = IF serving.pc = "modified" /\ WantsCourse
                  THEN [course EXCEPT !.error = "yes"] ELSE course
    BY DEF LoadThrows
  <2>2. CASE serving.pc = "modified" /\ WantsCourse
    <3>1. course' = [course EXCEPT !.error = "yes"] /\ ~LoadsProblem
      BY <1>2, <1>3, <2>1, <2>2
    <3>. QED
      BY <1>0, <1>5, <3>1
  <2>3. CASE ~(serving.pc = "modified" /\ WantsCourse)
    BY <1>0, <2>1, <2>3
  <2>. QED
    BY <2>2, <2>3
<1>7. /\ problem' \in Items
      /\ problem'.data = problem.data /\ problem'.modified = problem.modified
      /\ problem'.doubtful = problem.doubtful /\ problem'.checked = problem.checked
      /\ problem.error = "yes" => problem'.error = "yes"
  <2>1. problem' = IF serving.pc = "modified" /\ ~WantsCourse
                   THEN [problem EXCEPT !.error = "yes"] ELSE problem
    BY DEF LoadThrows
  <2>2. CASE serving.pc = "modified" /\ ~WantsCourse
    <3>1. problem' = [problem EXCEPT !.error = "yes"]
      BY <2>1, <2>2
    <3>. QED
      BY <1>0, <1>5, <3>1
  <2>3. CASE ~(serving.pc = "modified" /\ ~WantsCourse)
    BY <1>0, <2>1, <2>3
  <2>. QED
    BY <2>2, <2>3
<1>8. PICK a : a = [NoAnswer EXCEPT !.status = "error"]
  OBVIOUS
<1>9. a \in AnswerRecords /\ a.status = "error" /\ AnswerWith(a)
  BY <1>0, <1>1, <1>8 DEF AnswerRecords
<1>10. serving.client \in Clients /\ serving.pc # "none"
  BY <1>1 DEF Shape
<1>11. calls' \in [Clients -> CallRecords] /\ serving' \in Servings
  BY <1>9, <1>10, AnswerWithDoes, Records
<1>12. ContentTypes'
  BY <1>1, <1>6, <1>7, <1>11 DEF ContentTypes, contentFiles
<1>. QED
  BY <1>1, <1>6, <1>7, <1>9, <1>10, <1>12

-----------------------------------------------------------------------------
(* The content service: what the caches know *)

\* A copy of the data, and of one file, with its time.
Sees(parts, data, stamp, doubtful) == doubtful = "yes" \/ WillBeSeen(parts, data, stamp)
Finds(version, f, stamp) == version < disk[f] => disk[f] > stamp

\* The cached item may be answered from.
CourseUsable ==
  (serving.todo = <<>> /\ WantsCourse /\ serving.loaded = "yes") \/ ~RequiresToReload(course)
ProblemUsable ==
  (serving.todo = <<>> /\ ~WantsCourse /\ serving.loaded = "yes") \/ ~RequiresToReload(problem)

\* The last edit was of f, it is not in the time m so far, and will not be.
Overlooked(f, m) ==
  /\ m < disk[f] /\ ~StillToDo(<<"time", f>>)
  /\ \A g \in Files \ {f} : disk[g] < disk[f]

\* In a load with at most one edit meanwhile, what was read of the parts lacks
\* no change that the time m so far, or what is still to be read of it, has.
Reading(parts, m) == \A p \in parts :
  ~StillToDo(<<"content", p>>) =>
    /\ serving.part[p] >= 1
    /\ serving.edits = 0 => serving.part[p] = disk[FileOf(p)]
    /\ serving.edits <= 1 => serving.part[p] = disk[FileOf(p)] \/ Overlooked(FileOf(p), m)

\* Time x is not after the last edit of all files; it will be read.
IsPast(files, x) == \E f \in files : x <= disk[f]
IsAwaited(files, x) == \E f \in files : StillToDo(<<"time", f>>) /\ x <= disk[f]

\* From now on no answer about the course, or the problem, has a time below x.
LowCourse(x) ==
  /\ IsPast(CourseFiles, x)
  /\ CourseUsable => x <= course.modified
  /\ LoadsCourse => x <= course.modified \/ IsAwaited(CourseFiles, x)

LowProblem(x) ==
  /\ IsPast(ProblemFiles, x)
  /\ ProblemUsable => x <= problem.modified
  /\ LoadsProblem => x <= problem.modified \/ IsAwaited(ProblemFiles, x)

LowKept ==
  \A x \in Int : (LowCourse(x) => LowCourse(x)') /\ (LowProblem(x) => LowProblem(x)')

CourseKept ==
  /\ course.checked # "never" => course.data["course"] # 0
  /\ IsPast(CourseFiles, course.modified)
  /\ CourseUsable => Sees(CourseParts, course.data, course.modified, course.doubtful)

CourseLoad ==
  LoadsCourse =>
    /\ course.checked # "fresh" \/ course.error = "yes"
    /\ course.modified # Null
    /\ Reading(CourseParts, course.modified)

ProblemKept ==
  /\ IsPast(ProblemFiles, problem.modified)
  /\ ProblemUsable => Sees(ProblemParts, problem.data, problem.modified, problem.doubtful)
  /\ serving.todo = <<>> /\ ~WantsCourse /\ serving.loaded = "yes" => problem.data # Unread

ProblemLoad ==
  LoadsProblem => problem.data = Unread /\ Reading(ProblemParts, problem.modified)

Caches ==
  CourseKept /\ CourseLoad /\ ProblemKept /\ ProblemLoad /\ LowCourse(1) /\ LowProblem(1)

LEMMA Numbers ==
  ASSUME ContentTypes
  PROVE  /\ \A f \in Files : disk[f] \in Nat /\ disk[f] >= 1
         /\ course.modified \in Int /\ problem.modified \in Int
         /\ \A p \in Parts : /\ course.data[p] \in Nat /\ problem.data[p] \in Nat
                             /\ serving.part[p] \in Nat
         /\ serving.edits \in Nat /\ serving.answer.modified \in Int
<1>1. \A f \in Files : disk[f] \in Nat /\ disk[f] >= 1
  BY DEF ContentTypes
<1>2. /\ course.modified \in Int /\ problem.modified \in Int
      /\ course.data \in Times /\ problem.data \in Times
  BY DEF ContentTypes, Items, Null
<1>3. serving.part \in Times /\ serving.edits \in Nat /\ serving.answer \in AnswerRecords
  BY DEF ContentTypes, Servings
<1>4. serving.answer.modified \in Int
  BY <1>3 DEF AnswerRecords
<1>. QED
  BY <1>1, <1>2, <1>3, <1>4 DEF Times

LEMMA PastIsPast ==
  ASSUME ContentTypes, NEW files \in SUBSET Files, NEW x \in Int, IsPast(files, x)
  PROVE  x <= LastEdit
BY LastIs DEF IsPast

\* What an edit does to the times of files.
LEMMA EditedFiles ==
  ASSUME ContentTypes, NEW f \in Files, Edit(f)
  PROVE  \A g \in Files : /\ disk[g] \in Nat /\ disk'[g] \in Nat /\ disk[g] <= disk'[g]
                          /\ disk'[g] = disk[g] \/ (g = f /\ disk'[g] > LastEdit)
                          /\ g # f => disk'[g] < disk'[f]
<1>1. disk'[f] = 1 + LastEdit /\ \A g \in Files \ {f} : disk'[g] = disk[g]
  BY EditDoes
<1>2. LastEdit \in Nat /\ \A g \in Files : disk[g] \in Nat /\ disk[g] <= LastEdit
  BY LastIs
<1>. QED
  BY <1>1, <1>2

LEMMA EditKeepsReading ==
  ASSUME ContentTypes, NEW f \in Files, Edit(f), serving.todo # <<>>,
         NEW parts \in SUBSET Parts, NEW m \in Int, m <= LastEdit, Reading(parts, m)
  PROVE  Reading(parts, m)'
<1>1. /\ serving'.edits = serving.edits + (IF HalfRead(f) THEN 2 ELSE 1)
      /\ serving'.todo = serving.todo /\ serving'.part = serving.part /\ serving.edits \in Nat
  BY EditDoes, Numbers
<1>2. \A x : StillToDo(x)' <=> StillToDo(x)
  BY <1>1 DEF StillToDo
<1>. SUFFICES ASSUME NEW p \in parts, ~StillToDo(<<"content", p>>)
              PROVE  /\ serving'.part[p] >= 1
                     /\ serving'.edits = 0 => serving'.part[p] = disk'[FileOf(p)]
                     /\ serving'.edits <= 1 =>
                          serving'.part[p] = disk'[FileOf(p)] \/ Overlooked(FileOf(p), m)'
  BY <1>2 DEF Reading
<1>3. serving.part[p] >= 1 /\ serving'.edits # 0
  BY <1>1 DEF Reading
<1>4. ASSUME serving'.edits <= 1
      PROVE  serving'.part[p] = disk'[FileOf(p)] \/ Overlooked(FileOf(p), m)'
  <2>1. serving.edits = 0 /\ ~HalfRead(f)
    BY <1>1, <1>4
  <2>2. serving.part[p] = disk[FileOf(p)] /\ FileOf(p) \in Files
    BY <2>1, PartsAreOfFiles DEF Reading
  <2>3. CASE FileOf(p) = f
    <3>1. ~StillToDo(<<"time", f>>)
      BY <2>1, <2>3 DEF HalfRead
    <3>2. m < disk'[f] /\ \A g \in Files \ {f} : disk'[g] < disk'[f]
      BY EditDoes, LastIs, EditedFiles
    <3>. QED
      BY <1>2, <2>3, <3>1, <3>2 DEF Overlooked
  <2>4. CASE FileOf(p) # f
    BY <1>1, <2>2, <2>4, EditDoes
  <2>. QED
    BY <2>3, <2>4
<1>. QED
  BY <1>1, <1>3, <1>4

LEMMA TimeKeepsReading ==
  ASSUME ContentTypes, UNCHANGED disk, serving'.part = serving.part, serving'.edits = serving.edits,
         NEW f \in Files, \A x : StillToDo(x) <=> x = <<"time", f>> \/ StillToDo(x)',
         NEW parts \in SUBSET Parts, NEW m \in Int, NEW n, n = m \/ n = Latest(m, disk[f]),
         Reading(parts, m)
  PROVE  Reading(parts, n)'
<1>. SUFFICES ASSUME NEW p \in parts, ~StillToDo(<<"content", p>>)'
              PROVE  /\ serving.part[p] >= 1
                     /\ serving.edits = 0 => serving.part[p] = disk[FileOf(p)]
                     /\ serving.edits <= 1 =>
                          serving.part[p] = disk[FileOf(p)] \/ Overlooked(FileOf(p), n)'
  BY DEF Reading
<1>1. <<"content", p>> # <<"time", f>>
  OBVIOUS
<1>2. ~StillToDo(<<"content", p>>)
  BY <1>1
<1>. PICK g : g = FileOf(p)
  OBVIOUS
<1>3. g \in Files
  BY PartsAreOfFiles
<1>4. ASSUME Overlooked(g, m) PROVE Overlooked(g, n)'
  <2>1. f # g /\ ~StillToDo(<<"time", g>>)'
    BY <1>4 DEF Overlooked
  <2>2. disk[f] < disk[g] /\ m < disk[g]
    BY <1>4, <2>1 DEF Overlooked
  <2>3. n < disk[g]
    BY <1>3, <2>2, Numbers DEF Latest
  <2>. QED
    BY <1>4, <2>1, <2>3 DEF Overlooked
<1>. QED
  BY <1>2, <1>4 DEF Reading

LEMMA ContentKeepsReading ==
  ASSUME ContentTypes, UNCHANGED disk, serving'.edits = serving.edits,
         NEW p \in Parts, \A x : StillToDo(x) <=> x = <<"content", p>> \/ StillToDo(x)',
         serving'.part[p] = disk[FileOf(p)],
         \A q \in Parts \ {p} : serving'.part[q] = serving.part[q],
         NEW parts \in SUBSET Parts, NEW m \in Int, Reading(parts, m)
  PROVE  Reading(parts, m)'
<1>. SUFFICES ASSUME NEW q \in parts, ~StillToDo(<<"content", q>>)'
              PROVE  /\ serving'.part[q] >= 1
                     /\ serving.edits = 0 => serving'.part[q] = disk[FileOf(q)]
                     /\ serving.edits <= 1 =>
                          serving'.part[q] = disk[FileOf(q)] \/ Overlooked(FileOf(q), m)'
  BY DEF Reading
<1>1. CASE q = p
  BY <1>1, PartsAreOfFiles, Numbers
<1>2. CASE q # p
  <2>1. ~StillToDo(<<"content", q>>)
    BY <1>2
  <2>2. ASSUME Overlooked(FileOf(q), m) PROVE Overlooked(FileOf(q), m)'
    BY <2>2 DEF Overlooked
  <2>. QED
    BY <1>2, <2>1, <2>2 DEF Reading
<1>. QED
  BY <1>1, <1>2

LEMMA ReadingEnds ==
  ASSUME ContentTypes, \A x : StillToDo(x) => x[1] = "end",
         NEW parts \in SUBSET Parts, NEW m \in Int, Reading(parts, m)
  PROVE  /\ serving.edits > 1 \/ WillBeSeen(parts, serving.part, m)
         /\ \A p \in parts : serving.part[p] >= 1
<1>1. ASSUME NEW p \in parts PROVE ~StillToDo(<<"content", p>>)
  <2>1. <<"content", p>>[1] # "end"
    OBVIOUS
  <2>. QED
    BY <2>1
<1>2. ASSUME serving.edits <= 1, NEW p \in parts, serving.part[p] < disk[FileOf(p)]
      PROVE  disk[FileOf(p)] > m
  <2>1. FileOf(p) \in Files /\ p \in Parts
    BY PartsAreOfFiles
  <2>2. Overlooked(FileOf(p), m)
    <3>1. serving.part[p] = disk[FileOf(p)] \/ Overlooked(FileOf(p), m)
      BY <1>1, <1>2 DEF Reading
    <3>2. serving.part[p] # disk[FileOf(p)]
      BY <1>2, <2>1, Numbers
    <3>. QED
      BY <3>1, <3>2
  <2>. QED
    BY <2>1, <2>2, Numbers DEF Overlooked
<1>3. serving.edits \in Nat
  BY Numbers
<1>4. serving.edits > 1 \/ WillBeSeen(parts, serving.part, m)
  BY <1>2, <1>3 DEF WillBeSeen
<1>5. \A p \in parts : serving.part[p] >= 1
  BY <1>1 DEF Reading
<1>. QED
  BY <1>4, <1>5

\* What others rely on, whatever the content service does and whoever edits.
FilesAge ==
  /\ \A f \in Files : disk[f] <= disk'[f]
  /\ \A parts \in SUBSET Parts, data \in Times, m \in Int :
       m <= LastEdit /\ WillBeSeen(parts, data, m) => WillBeSeen(parts, data, m)'
  /\ LastEdit <= LastEdit'

LEMMA SameFilesAge ==
  ASSUME ContentTypes, UNCHANGED disk
  PROVE  FilesAge /\ LastEdit' = LastEdit
<1>1. LastEdit \in Nat /\ LastEdit' = LastEdit /\ \A f \in Files : disk[f] \in Nat
  BY LastIs DEF LastEdit
<1>2. ASSUME NEW parts, NEW data, NEW m, WillBeSeen(parts, data, m) PROVE WillBeSeen(parts, data, m)'
  BY <1>2 DEF WillBeSeen
<1>. QED
  BY <1>1, <1>2 DEF FilesAge

LEMMA EditedFilesAge ==
  ASSUME ContentTypes, NEW f \in Files, Edit(f)
  PROVE  FilesAge
<1>1. \A g \in Files : /\ disk[g] \in Nat /\ disk'[g] \in Nat /\ disk[g] <= disk'[g]
                       /\ disk'[g] = disk[g] \/ disk'[g] > LastEdit
  BY EditedFiles
<1>2. LastEdit \in Nat
  BY LastIs
<1>3. ASSUME NEW parts \in SUBSET Parts, NEW data \in Times, NEW m \in Int, m <= LastEdit,
             WillBeSeen(parts, data, m)
      PROVE  WillBeSeen(parts, data, m)'
  <2>. SUFFICES ASSUME NEW p \in parts, data[p] < disk'[FileOf(p)] PROVE disk'[FileOf(p)] > m
    BY DEF WillBeSeen
  <2>1. FileOf(p) \in Files
    BY PartsAreOfFiles
  <2>2. CASE disk'[FileOf(p)] = disk[FileOf(p)]
    BY <1>3, <2>2 DEF WillBeSeen
  <2>3. CASE disk'[FileOf(p)] > LastEdit
    <3>1. disk'[FileOf(p)] \in Nat
      BY <1>1, <2>1
    <3>. QED
      BY <1>2, <1>3, <2>3, <3>1
  <2>. QED
    BY <1>1, <2>1, <2>2, <2>3
<1>4. LastEdit <= LastEdit'
  <2>1. /\ disk'["course"] \in Nat /\ disk'["problem"] \in Nat
        /\ disk'["template"] \in Nat /\ disk'["tests"] \in Nat
    BY <1>1 DEF Files
  <2>2. LastEdit' \in Nat /\ disk'[f] <= LastEdit'
    BY <2>1, LatestOfAll DEF LastEdit, Files
  <2>3. disk'[f] = 1 + LastEdit
    BY EditDoes
  <2>. QED
    BY <1>2, <2>2, <2>3
<1>. QED
  BY <1>1, <1>3, <1>4 DEF FilesAge

\* What was past stays so, and what was awaited in a load that goes on.
LEMMA PastStays ==
  ASSUME ContentTypes, ContentTypes', FilesAge, NEW files \in SUBSET Files, NEW x \in Int
  PROVE  /\ IsPast(files, x) => IsPast(files, x)'
         /\ (\A f \in Files : StillToDo(<<"time", f>>) => StillToDo(<<"time", f>>)') =>
              (IsAwaited(files, x) => IsAwaited(files, x)')
<1>1. \A f \in Files : disk[f] \in Nat /\ disk'[f] \in Nat /\ disk[f] <= disk'[f]
  BY DEF ContentTypes, FilesAge
<1>2. ASSUME IsPast(files, x) PROVE IsPast(files, x)'
  BY <1>1, <1>2 DEF IsPast
<1>3. ASSUME IsAwaited(files, x), \A f \in Files : StillToDo(<<"time", f>>) => StillToDo(<<"time", f>>)'
      PROVE  IsAwaited(files, x)'
  <2>1. PICK f \in files : StillToDo(<<"time", f>>) /\ x <= disk[f]
    BY <1>3 DEF IsAwaited
  <2>2. x <= disk'[f] /\ StillToDo(<<"time", f>>)'
    BY <1>1, <1>3, <2>1
  <2>. QED
    BY <2>2 DEF IsAwaited
<1>. QED
  BY <1>2, <1>3

\* Nothing is loaded, before or after the step.
LEMMA RestKeepsCaches ==
  ASSUME ContentTypes, Caches, serving.todo = <<>>, UNCHANGED <<disk, caches>>,
         serving'.todo = <<>>, serving'.loaded = "no"
  PROVE  Caches' /\ LowKept
<1>1. /\ CourseUsable' => CourseUsable
      /\ ProblemUsable' => ProblemUsable
  BY DEF CourseUsable, ProblemUsable, RequiresToReload, caches
<1>2. ~LoadsCourse' /\ ~LoadsProblem'
  BY DEF LoadsCourse, LoadsProblem
<1>3. ASSUME NEW parts, NEW data, NEW m PROVE WillBeSeen(parts, data, m)' <=> WillBeSeen(parts, data, m)
  BY DEF WillBeSeen
<1>4. ASSUME NEW files, NEW x PROVE IsPast(files, x)' <=> IsPast(files, x)
  BY DEF IsPast
<1>5. UNCHANGED <<course, problem>>
  BY DEF caches
<1>6. CourseKept' /\ CourseLoad'
  BY <1>1, <1>2, <1>5 DEF Caches, CourseKept, CourseLoad, Sees, WillBeSeen, IsPast
<1>7. ProblemKept' /\ ProblemLoad'
  BY <1>1, <1>2, <1>5 DEF Caches, ProblemKept, ProblemLoad, Sees, WillBeSeen, IsPast
<1>8. LowKept
  BY <1>1, <1>2, <1>4, <1>5 DEF LowKept, LowCourse, LowProblem
<1>. QED
  BY <1>6, <1>7, <1>8 DEF Caches, LowKept

LEMMA EditKeepsCaches ==
  ASSUME ContentTypes, Caches, NEW f \in Files, Edit(f)
  PROVE  Caches' /\ LowKept
<1>1. /\ UNCHANGED <<course, problem>> /\ ContentTypes'
      /\ serving'.pc = serving.pc /\ serving'.what = serving.what
      /\ serving'.loaded = serving.loaded /\ serving'.todo = serving.todo
      /\ serving'.part = serving.part
  BY EditDoes DEF caches
<1>2. /\ LoadsCourse' <=> LoadsCourse
      /\ LoadsProblem' <=> LoadsProblem
      /\ CourseUsable' <=> CourseUsable
      /\ ProblemUsable' <=> ProblemUsable
      /\ WantsCourse' <=> WantsCourse
      /\ \A x : StillToDo(x)' <=> StillToDo(x)
  BY <1>1 DEF LoadsCourse, LoadsProblem, CourseUsable, ProblemUsable, WantsCourse, What,
     RequiresToReload, StillToDo
<1>3. FilesAge
  BY EditedFilesAge
<1>. PICK c, d, p, e : c = course.modified /\ d = course.data /\ p = problem.modified /\ e = problem.data
  OBVIOUS
<1>4. c \in Int /\ p \in Int /\ d \in Times /\ e \in Times
  BY Numbers DEF ContentTypes, Items
<1>5. CourseParts \in SUBSET Parts /\ ProblemParts \in SUBSET Parts
      /\ CourseFiles \in SUBSET Files /\ ProblemFiles \in SUBSET Files
  BY PartsAreOfFiles
<1>6. IsPast(CourseFiles, c) /\ IsPast(ProblemFiles, p)
  BY DEF Caches, CourseKept, ProblemKept
<1>7. IsPast(CourseFiles, c)' /\ IsPast(ProblemFiles, p)' /\ c <= LastEdit /\ p <= LastEdit
  BY <1>1, <1>3, <1>4, <1>5, <1>6, PastIsPast, PastStays
<1>8. /\ WillBeSeen(CourseParts, d, c) => WillBeSeen(CourseParts, d, c)'
      /\ WillBeSeen(ProblemParts, e, p) => WillBeSeen(ProblemParts, e, p)'
  BY <1>3, <1>4, <1>5, <1>7 DEF FilesAge
<1>9. CourseKept'
  <2>1. IsPast(CourseFiles, course.modified)'
    BY <1>1, <1>7 DEF IsPast
  <2>2. CourseUsable' => Sees(CourseParts, course.data, course.modified, course.doubtful)'
    BY <1>1, <1>2, <1>8 DEF Caches, CourseKept, Sees, WillBeSeen
  <2>. QED
    BY <1>1, <2>1, <2>2 DEF Caches, CourseKept
<1>10. ProblemKept'
  <2>1. IsPast(ProblemFiles, problem.modified)'
    BY <1>1, <1>7 DEF IsPast
  <2>2. ProblemUsable' => Sees(ProblemParts, problem.data, problem.modified, problem.doubtful)'
    BY <1>1, <1>2, <1>8 DEF Caches, ProblemKept, Sees, WillBeSeen
  <2>. QED
    BY <1>1, <1>2, <2>1, <2>2 DEF Caches, ProblemKept
<1>11. CourseLoad'
  <2>. SUFFICES ASSUME LoadsCourse PROVE CourseLoad'
    BY <1>2 DEF CourseLoad
  <2>1. Reading(CourseParts, c)'
    BY <1>4, <1>5, <1>7, EditKeepsReading DEF Caches, CourseLoad, LoadsCourse
  <2>2. Reading(CourseParts, course.modified)'
    BY <1>1, <2>1 DEF Reading, Overlooked
  <2>. QED
    BY <1>1, <2>2 DEF Caches, CourseLoad
<1>12. ProblemLoad'
  <2>. SUFFICES ASSUME LoadsProblem PROVE ProblemLoad'
    BY <1>2 DEF ProblemLoad
  <2>1. Reading(ProblemParts, p)'
    BY <1>4, <1>5, <1>7, EditKeepsReading DEF Caches, ProblemLoad, LoadsProblem
  <2>2. Reading(ProblemParts, problem.modified)'
    BY <1>1, <2>1 DEF Reading, Overlooked
  <2>. QED
    BY <1>1, <2>2 DEF Caches, ProblemLoad
<1>13. LowKept
  <2>. SUFFICES ASSUME NEW x \in Int
                PROVE  (LowCourse(x) => LowCourse(x)') /\ (LowProblem(x) => LowProblem(x)')
    BY DEF LowKept
  <2>1. /\ IsPast(CourseFiles, x) => IsPast(CourseFiles, x)'
        /\ IsPast(ProblemFiles, x) => IsPast(ProblemFiles, x)'
        /\ IsAwaited(CourseFiles, x) => IsAwaited(CourseFiles, x)'
        /\ IsAwaited(ProblemFiles, x) => IsAwaited(ProblemFiles, x)'
    BY <1>1, <1>2, <1>3, <1>5, PastStays
  <2>. QED
    BY <1>1, <1>2, <2>1 DEF LowCourse, LowProblem
<1>. QED
  BY <1>9, <1>10, <1>11, <1>12, <1>13 DEF Caches, LowKept

LEMMA ExpireKeepsCaches ==
  ASSUME ContentTypes, Caches, Expire
  PROVE  Caches' /\ LowKept
<1>1. /\ UNCHANGED <<disk, serving>>
      /\ course'.data = course.data /\ course'.modified = course.modified
      /\ course'.error = course.error /\ course'.doubtful = course.doubtful
      /\ course'.checked # "fresh" /\ (course'.checked = "never" <=> course.checked = "never")
      /\ problem'.data = problem.data /\ problem'.modified = problem.modified
      /\ problem'.doubtful = problem.doubtful /\ problem'.checked # "fresh"
  BY ExpireDoes DEF contentFiles
<1>2. /\ LoadsCourse' <=> LoadsCourse
      /\ LoadsProblem' <=> LoadsProblem
      /\ CourseUsable' => CourseUsable
      /\ ProblemUsable' => ProblemUsable
      /\ WantsCourse' <=> WantsCourse
      /\ \A x : StillToDo(x)' <=> StillToDo(x)
  BY <1>1 DEF LoadsCourse, LoadsProblem, CourseUsable, ProblemUsable, WantsCourse, What,
     RequiresToReload, StillToDo
<1>3. \A files, x : /\ IsPast(files, x)' <=> IsPast(files, x)
                    /\ IsAwaited(files, x)' <=> IsAwaited(files, x)
  BY <1>1, <1>2 DEF IsPast, IsAwaited
<1>4. CourseKept'
  BY <1>1, <1>2 DEF Caches, CourseKept, Sees, WillBeSeen, IsPast
<1>5. ProblemKept'
  BY <1>1, <1>2 DEF Caches, ProblemKept, Sees, WillBeSeen, IsPast
<1>6. CourseLoad'
  BY <1>1, <1>2 DEF Caches, CourseLoad, Reading, Overlooked
<1>7. ProblemLoad'
  BY <1>1, <1>2 DEF Caches, ProblemLoad, Reading, Overlooked
<1>8. LowKept
  BY <1>1, <1>2, <1>3 DEF LowKept, LowCourse, LowProblem
<1>. QED
  BY <1>4, <1>5, <1>6, <1>7, <1>8 DEF Caches, LowKept

\* All parts and times are still to be read when a load begins.
LEMMA LoadBegins ==
  /\ serving'.todo = CourseSteps =>
       /\ \A p \in Parts : StillToDo(<<"content", p>>)'
       /\ \A f \in Files : StillToDo(<<"time", f>>)'
  /\ serving'.todo = ProblemSteps =>
       /\ \A p \in ProblemParts : StillToDo(<<"content", p>>)'
       /\ \A f \in ProblemFiles : StillToDo(<<"time", f>>)'
       /\ ~StillToDo(<<"content", "course">>)'
<1>1. \A x : StillToDo(x)' <=> Has(serving'.todo, x)
  BY DEF StillToDo, Has
<1>2. \A f \in Files : f \in Parts /\ FileOf(f) = f
  BY DEF Files, Parts, FileOf
<1>3. /\ \A p \in Parts : OfCourse(<<"content", p>>)
      /\ \A f \in Files : OfCourse(<<"time", f>>)
  BY <1>2 DEF OfCourse
<1>4. /\ \A p \in ProblemParts : p \in Parts \ {"course"}
      /\ \A f \in ProblemFiles : f \in Files /\ f # "course"
  BY DEF ProblemParts, ProblemFiles, Parts, Files
<1>5. /\ \A p \in ProblemParts : OfProblem(<<"content", p>>)
      /\ \A f \in ProblemFiles : OfProblem(<<"time", f>>)
  BY <1>2, <1>4 DEF OfProblem
<1>6. ~OfProblem(<<"content", "course">>) /\ <<"content", "course">> # <<"end", "problem">>
  BY DEF OfProblem
<1>. QED
  BY <1>1, <1>3, <1>5, <1>6, LoadsHave

LEMMA LoadCourseKeepsCaches ==
  ASSUME ContentTypes, Shape, Caches, LoadCourse
  PROVE  Caches' /\ LowKept
<1>1. /\ UNCHANGED <<disk, problem>> /\ SameRequest /\ ContentTypes'
      /\ NotLoaded /\ WantsCourse /\ RequiresToReload(course)
      /\ serving'.todo = CourseSteps /\ serving'.loaded = "no"
      /\ course'.modified = 0 /\ course'.data = course.data
      /\ course'.checked = course.checked /\ course'.error = course.error
  BY LoadCourseDoes DEF contentFiles
<1>2. serving'.todo # <<>>
  BY <1>1, LoadsHave
<1>3. /\ LoadsCourse' /\ ~LoadsProblem' /\ ~CourseUsable' /\ ~LoadsProblem /\ WantsCourse'
      /\ ProblemUsable' => ProblemUsable
  BY <1>1, <1>2 DEF LoadsCourse, LoadsProblem, CourseUsable, ProblemUsable, RequiresToReload,
                    WantsCourse, What, SameRequest, NotLoaded
<1>4. /\ \A p \in Parts : StillToDo(<<"content", p>>)'
      /\ \A f \in Files : StillToDo(<<"time", f>>)'
  BY <1>1, LoadBegins
<1>5. \A files, x : IsPast(files, x)' <=> IsPast(files, x)
  BY <1>1 DEF IsPast
<1>6. CourseKept'
  <2>1. IsPast(CourseFiles, 0)
    BY Numbers DEF IsPast, CourseFiles, Files
  <2>2. IsPast(CourseFiles, course.modified)'
    BY <1>1, <2>1 DEF IsPast
  <2>. QED
    BY <1>1, <1>3, <2>2 DEF Caches, CourseKept
<1>7. CourseLoad'
  <2>1. course.checked # "fresh" \/ course.error = "yes"
    <3>1. course.data = Unread => course.data["course"] = 0
      BY DEF Unread, Parts, Files
    <3>. QED
      BY <1>1, <3>1 DEF Caches, CourseKept, RequiresToReload
  <2>2. Reading(CourseParts, course.modified)'
    BY <1>4, PartsAreOfFiles DEF Reading
  <2>. QED
    BY <1>1, <2>1, <2>2 DEF CourseLoad, Null
<1>8. ProblemKept' /\ ProblemLoad'
  BY <1>1, <1>2, <1>3 DEF Caches, ProblemKept, ProblemLoad, Sees, WillBeSeen, IsPast
<1>9. LowKept
  <2>. SUFFICES ASSUME NEW x \in Int
                PROVE  (LowCourse(x) => LowCourse(x)') /\ (LowProblem(x) => LowProblem(x)')
    BY DEF LowKept
  <2>1. IsPast(CourseFiles, x) => IsAwaited(CourseFiles, x)'
    BY <1>1, <1>4, PartsAreOfFiles DEF IsPast, IsAwaited
  <2>. QED
    BY <1>1, <1>3, <1>5, <2>1 DEF LowCourse, LowProblem
<1>. QED
  BY <1>6, <1>7, <1>8, <1>9 DEF Caches, LowKept

LEMMA LoadProblemKeepsCaches ==
  ASSUME ContentTypes, Shape, Caches, LoadProblem
  PROVE  Caches' /\ LowKept
<1>1. /\ UNCHANGED <<disk, course>> /\ SameRequest /\ ContentTypes'
      /\ NotLoaded /\ ~WantsCourse
      /\ serving'.todo = ProblemSteps /\ serving'.loaded = "no"
      /\ problem'.data = Unread /\ problem'.modified \in {Null, 0}
  BY LoadProblemDoes DEF contentFiles
<1>2. serving'.todo # <<>>
  BY <1>1, LoadsHave
<1>3. /\ ~LoadsCourse' /\ LoadsProblem' /\ ~LoadsCourse /\ ~ProblemUsable'
      /\ CourseUsable' => CourseUsable
  BY <1>1, <1>2 DEF LoadsCourse, LoadsProblem, CourseUsable, ProblemUsable, RequiresToReload,
                    WantsCourse, What, SameRequest, NotLoaded
<1>4. /\ \A p \in ProblemParts : StillToDo(<<"content", p>>)'
      /\ \A f \in ProblemFiles : StillToDo(<<"time", f>>)'
  BY <1>1, LoadBegins
<1>5. \A files, x : IsPast(files, x)' <=> IsPast(files, x)
  BY <1>1 DEF IsPast
<1>6. CourseKept' /\ CourseLoad'
  BY <1>1, <1>3 DEF Caches, CourseKept, CourseLoad, Sees, WillBeSeen, IsPast
<1>7. ProblemKept'
  <2>1. IsPast(ProblemFiles, 0) /\ IsPast(ProblemFiles, -1)
    BY Numbers DEF IsPast, ProblemFiles, Files
  <2>2. IsPast(ProblemFiles, problem.modified)'
    BY <1>1, <2>1 DEF IsPast, Null
  <2>. QED
    BY <1>1, <1>2, <1>3, <2>2 DEF ProblemKept
<1>8. ProblemLoad'
  BY <1>1, <1>4 DEF ProblemLoad, Reading
<1>9. LowKept
  <2>. SUFFICES ASSUME NEW x \in Int
                PROVE  (LowCourse(x) => LowCourse(x)') /\ (LowProblem(x) => LowProblem(x)')
    BY DEF LowKept
  <2>1. IsPast(ProblemFiles, x) => IsAwaited(ProblemFiles, x)'
    BY <1>1, <1>4 DEF IsPast, IsAwaited
  <2>. QED
    BY <1>1, <1>3, <1>5, <2>1 DEF LowCourse, LowProblem
<1>. QED
  BY <1>6, <1>7, <1>8, <1>9 DEF Caches, LowKept

\* A time that was read is no longer awaited, and the time so far not below it.
LEMMA TimeIsRead ==
  ASSUME ContentTypes, UNCHANGED disk, NEW f \in Files,
         \A x : StillToDo(x) <=> x = <<"time", f>> \/ StillToDo(x)',
         NEW files \in SUBSET Files, NEW m \in Int, NEW n \in Int, NEW x \in Int,
         m <= n, f \in files => n = Latest(m, disk[f]),
         x <= m \/ IsAwaited(files, x)
  PROVE  x <= n \/ IsAwaited(files, x)'
<1>1. CASE x <= m
  BY <1>1
<1>2. CASE IsAwaited(files, x)
  <2>1. PICK g \in files : StillToDo(<<"time", g>>) /\ x <= disk[g]
    BY <1>2 DEF IsAwaited
  <2>2. CASE g = f
    BY <2>1, <2>2, Numbers DEF Latest
  <2>3. CASE g # f
    <3>1. <<"time", g>> # <<"time", f>>
      BY <2>3
    <3>2. StillToDo(<<"time", g>>)'
      BY <2>1, <3>1
    <3>. QED
      BY <2>1, <3>2 DEF IsAwaited
  <2>. QED
    BY <2>2, <2>3
<1>. QED
  BY <1>1, <1>2

LEMMA ReadTimeKeepsCaches ==
  ASSUME ContentTypes, Shape, Caches, ReadTime
  PROVE  Caches' /\ LowKept
<1>1. /\ UNCHANGED disk /\ SameRequest /\ ContentTypes'
      /\ serving.todo # <<>> /\ serving'.todo # <<>>
      /\ serving'.part = serving.part /\ serving'.edits = serving.edits
      /\ serving'.loaded = serving.loaded
  BY ReadTimeDoes DEF contentFiles
<1>2. PICK f \in Files :
        /\ \A x : StillToDo(x) <=> x = <<"time", f>> \/ StillToDo(x)'
        /\ \/ (f = "tests" \/ course.modified = Null) /\ course' = course
           \/ /\ f # "tests" /\ course.modified # Null
              /\ course'.modified = Latest(course.modified, disk[f])
              /\ LoadsProblem /\ disk[f] > course.modified => course'.doubtful = "yes"
              /\ LoadsCourse \/ disk[f] <= course.modified => course'.doubtful = course.doubtful
        /\ course'.data = course.data /\ course'.checked = course.checked
        /\ course'.error = course.error
        /\ \/ f \notin ProblemFiles /\ problem' = problem
           \/ f \in ProblemFiles /\ LoadsCourse /\ problem' = NoItem
           \/ /\ f \in ProblemFiles /\ LoadsProblem
              /\ problem'.modified = Latest(problem.modified, disk[f])
              /\ problem'.data = problem.data /\ problem'.doubtful = problem.doubtful
  BY ReadTimeDoes
<1>3. /\ LoadsCourse' <=> LoadsCourse
      /\ LoadsProblem' <=> LoadsProblem
      /\ LoadsProblem <=> ~LoadsCourse
      /\ CourseUsable' <=> CourseUsable
      /\ WantsCourse' <=> WantsCourse
  BY <1>1, <1>2 DEF LoadsCourse, LoadsProblem, CourseUsable, WantsCourse, What, RequiresToReload, SameRequest
<1>4. \A files, x : IsPast(files, x)' <=> IsPast(files, x)
  BY <1>1 DEF IsPast
<1>. PICK c, d, p, q : c = course.modified /\ d = course'.modified /\ p = problem.modified /\ q = problem'.modified
  OBVIOUS
<1>5. c \in Int /\ d \in Int /\ p \in Int /\ q \in Int /\ disk[f] \in Nat /\ disk[f] >= 1
  BY <1>1, Numbers DEF ContentTypes, Items, Null
<1>6. d = c \/ d = Latest(c, disk[f])
  BY <1>2
<1>7. c <= d
  BY <1>5, <1>6 DEF Latest
<1>8. f \in CourseFiles /\ c # Null => d = Latest(c, disk[f])
  BY <1>2 DEF CourseFiles
<1>9. f \notin CourseFiles => d = c
  BY <1>2 DEF CourseFiles, Files
<1>10. IsPast(CourseFiles, c) /\ IsPast(ProblemFiles, p)
  BY DEF Caches, CourseKept, ProblemKept
<1>11. IsPast(CourseFiles, d)
  BY <1>5, <1>6, <1>9, <1>10 DEF Latest, IsPast
<1>12. CourseKept'
  <2>1. IsPast(CourseFiles, course.modified)'
    BY <1>1, <1>11 DEF IsPast
  <2>2. ASSUME CourseUsable' PROVE Sees(CourseParts, course.data, course.modified, course.doubtful)'
    <3>1. Sees(CourseParts, course.data, course.modified, course.doubtful)
      BY <1>3, <2>2 DEF Caches, CourseKept
    <3>2. ~LoadsCourse
      <4>1. LoadsCourse => RequiresToReload(course)
        BY DEF Caches, CourseLoad, RequiresToReload
      <4>. QED
        BY <1>3, <2>2, <4>1 DEF CourseUsable, LoadsCourse
    <3>3. course' = course \/ course'.doubtful = "yes" \/ (d = c /\ course'.doubtful = course.doubtful)
      BY <1>2, <1>3, <1>5, <3>2 DEF Latest
    <3>. QED
      BY <1>1, <1>2, <3>1, <3>3 DEF Sees, WillBeSeen
  <2>. QED
    BY <1>2, <2>1, <2>2 DEF Caches, CourseKept
<1>13. CourseLoad'
  <2>. SUFFICES ASSUME LoadsCourse PROVE CourseLoad'
    BY <1>3 DEF CourseLoad
  <2>1. Reading(CourseParts, d)'
    BY <1>1, <1>2, <1>5, <1>6, PartsAreOfFiles, TimeKeepsReading DEF Caches, CourseLoad
  <2>2. Reading(CourseParts, course.modified)'
    BY <2>1 DEF Reading, Overlooked
  <2>3. d # Null
    <3>1. c # Null
      BY DEF Caches, CourseLoad
    <3>. QED
      BY <1>5, <1>6, <3>1 DEF Latest, Null
  <2>. QED
    BY <1>2, <2>2, <2>3 DEF Caches, CourseLoad
<1>14. NoItem.modified = -1 /\ NoItem.data = Unread /\ NoItem.checked = "never"
  BY DEF NoItem, Null
<1>15. ~ProblemUsable \/ ~LoadsProblem
  BY DEF Caches, ProblemLoad, ProblemUsable, RequiresToReload, LoadsProblem
<1>16. ProblemUsable' => ProblemUsable /\ problem' = problem
  <2>1. CASE problem' = problem
    BY <1>1, <2>1 DEF ProblemUsable, RequiresToReload
  <2>2. CASE problem' = NoItem
    BY <1>1, <1>14, <2>2 DEF ProblemUsable, RequiresToReload
  <2>3. CASE LoadsProblem /\ problem'.data = problem.data
    BY <1>1, <2>3 DEF Caches, ProblemLoad, ProblemUsable, RequiresToReload
  <2>. QED
    BY <1>2, <2>1, <2>2, <2>3
<1>17. ProblemKept'
  <2>1. IsPast(ProblemFiles, q)
    <3>1. CASE q = p
      BY <1>10, <3>1
    <3>2. CASE q = -1
      BY <3>2, Numbers DEF IsPast, ProblemFiles, Files
    <3>3. CASE f \in ProblemFiles /\ q = Latest(p, disk[f])
      BY <1>5, <1>10, <3>3 DEF Latest, IsPast
    <3>. QED
      BY <1>2, <1>14, <3>1, <3>2, <3>3
  <2>2. IsPast(ProblemFiles, problem.modified)'
    BY <1>1, <2>1 DEF IsPast
  <2>3. ASSUME ProblemUsable' PROVE Sees(ProblemParts, problem.data, problem.modified, problem.doubtful)'
    BY <1>1, <1>16, <2>3 DEF Caches, ProblemKept, Sees, WillBeSeen
  <2>. QED
    BY <1>1, <2>2, <2>3 DEF ProblemKept
<1>18. ProblemLoad'
  <2>. SUFFICES ASSUME LoadsProblem PROVE ProblemLoad'
    BY <1>3 DEF ProblemLoad
  <2>1. problem'.data = Unread /\ (q = p \/ q = Latest(p, disk[f]))
    BY <1>2, <1>3 DEF Caches, ProblemLoad
  <2>2. Reading(ProblemParts, q)'
    BY <1>1, <1>2, <1>5, <2>1, PartsAreOfFiles, TimeKeepsReading DEF Caches, ProblemLoad
  <2>3. Reading(ProblemParts, problem.modified)'
    BY <2>2 DEF Reading, Overlooked
  <2>. QED
    BY <2>1, <2>3 DEF ProblemLoad
<1>19. LowKept
  <2>. SUFFICES ASSUME NEW x \in Int
                PROVE  (LowCourse(x) => LowCourse(x)') /\ (LowProblem(x) => LowProblem(x)')
    BY DEF LowKept
  <2>1. ASSUME LowCourse(x) PROVE LowCourse(x)'
    <3>1. CourseUsable => x <= d
      BY <1>5, <1>7, <2>1 DEF LowCourse
    <3>2. LoadsCourse => x <= d \/ IsAwaited(CourseFiles, x)'
      <4>. SUFFICES ASSUME LoadsCourse PROVE x <= d \/ IsAwaited(CourseFiles, x)'
        OBVIOUS
      <4>1. c # Null
        BY DEF Caches, CourseLoad
      <4>2. x <= c \/ IsAwaited(CourseFiles, x)
        BY <2>1 DEF LowCourse
      <4>. QED
        BY <1>1, <1>2, <1>5, <1>7, <1>8, <4>1, <4>2, PartsAreOfFiles, TimeIsRead
    <3>. QED
      BY <1>3, <1>4, <2>1, <3>1, <3>2 DEF LowCourse
  <2>2. ASSUME LowProblem(x) PROVE LowProblem(x)'
    <3>1. LoadsProblem => x <= q \/ IsAwaited(ProblemFiles, x)'
      <4>. SUFFICES ASSUME LoadsProblem PROVE x <= q \/ IsAwaited(ProblemFiles, x)'
        OBVIOUS
      <4>1. (q = p \/ q = Latest(p, disk[f])) /\ (f \in ProblemFiles => q = Latest(p, disk[f]))
        BY <1>2, <1>3
      <4>2. p <= q
        BY <1>5, <4>1 DEF Latest
      <4>3. x <= p \/ IsAwaited(ProblemFiles, x)
        BY <2>2 DEF LowProblem
      <4>. QED
        BY <1>1, <1>2, <1>5, <4>1, <4>2, <4>3, PartsAreOfFiles, TimeIsRead
    <3>. QED
      BY <1>3, <1>4, <1>16, <2>2, <3>1 DEF LowProblem
  <2>. QED
    BY <2>1, <2>2
<1>. QED
  BY <1>12, <1>13, <1>17, <1>18, <1>19 DEF Caches, LowKept

LEMMA ReadContentKeepsCaches ==
  ASSUME ContentTypes, Shape, Caches, ReadContent
  PROVE  Caches' /\ LowKept
<1>1. /\ UNCHANGED <<disk, problem>> /\ SameRequest /\ ContentTypes'
      /\ serving.todo # <<>> /\ serving'.todo # <<>>
      /\ serving'.edits = serving.edits /\ serving'.loaded = serving.loaded
      /\ course'.modified = course.modified /\ course'.checked = course.checked
      /\ course'.error = course.error /\ course'.doubtful = course.doubtful
  BY ReadContentDoes DEF contentFiles
<1>2. PICK p \in Parts :
        /\ \A x : StillToDo(x) <=> x = <<"content", p>> \/ StillToDo(x)'
        /\ serving'.part[p] = disk[FileOf(p)]
        /\ \A q \in Parts \ {p} : serving'.part[q] = serving.part[q]
        /\ IF p = "course" THEN course'.data = serving'.part ELSE course'.data = course.data
  BY ReadContentDoes
<1>3. /\ LoadsCourse' <=> LoadsCourse
      /\ LoadsProblem' <=> LoadsProblem
      /\ LoadsProblem <=> ~LoadsCourse
      /\ ProblemUsable' <=> ProblemUsable
      /\ WantsCourse' <=> WantsCourse
  BY <1>1 DEF LoadsCourse, LoadsProblem, ProblemUsable, WantsCourse, What, RequiresToReload, SameRequest
<1>4. \A files, x : IsPast(files, x)' <=> IsPast(files, x)
  BY <1>1 DEF IsPast
<1>5. \A f : StillToDo(<<"time", f>>)' <=> StillToDo(<<"time", f>>)
  <2>. SUFFICES ASSUME NEW f PROVE <<"time", f>> # <<"content", p>>
    BY <1>2
  <2>. QED
    OBVIOUS
<1>6. \A files, x : IsAwaited(files, x)' <=> IsAwaited(files, x)
  BY <1>1, <1>5 DEF IsAwaited
<1>7. LoadsProblem => course'.data = course.data
  BY <1>2 DEF Shape
<1>8. LoadsCourse => RequiresToReload(course) /\ RequiresToReload(course)'
  BY <1>1 DEF Caches, CourseLoad, RequiresToReload
<1>9. CourseUsable' => CourseUsable /\ ~LoadsCourse
  BY <1>1, <1>3, <1>7, <1>8 DEF CourseUsable, RequiresToReload, LoadsCourse
<1>10. CourseKept'
  <2>1. IsPast(CourseFiles, course.modified)'
    BY <1>1 DEF Caches, CourseKept, IsPast
  <2>2. course'.checked # "never" => course'.data["course"] # 0
    <3>1. FileOf("course") = "course" /\ "course" \in Files
      BY DEF FileOf, Files
    <3>2. p = "course" => course'.data["course"] # 0
      BY <1>2, <3>1, Numbers
    <3>. QED
      BY <1>1, <1>2, <3>2 DEF Caches, CourseKept
  <2>3. CourseUsable' => Sees(CourseParts, course.data, course.modified, course.doubtful)'
    BY <1>1, <1>3, <1>7, <1>9 DEF Caches, CourseKept, Sees, WillBeSeen
  <2>. QED
    BY <2>1, <2>2, <2>3 DEF CourseKept
<1>11. CourseLoad'
  <2>. SUFFICES ASSUME LoadsCourse PROVE CourseLoad'
    BY <1>3 DEF CourseLoad
  <2>. PICK c : c = course.modified
    OBVIOUS
  <2>1. Reading(CourseParts, c)'
    BY <1>1, <1>2, Numbers, PartsAreOfFiles, ContentKeepsReading DEF Caches, CourseLoad
  <2>2. Reading(CourseParts, course.modified)'
    BY <1>1, <2>1 DEF Reading, Overlooked
  <2>. QED
    BY <1>1, <2>2 DEF Caches, CourseLoad
<1>12. ProblemKept'
  BY <1>1, <1>3 DEF Caches, ProblemKept, Sees, WillBeSeen, IsPast
<1>13. ProblemLoad'
  <2>. SUFFICES ASSUME LoadsProblem PROVE ProblemLoad'
    BY <1>3 DEF ProblemLoad
  <2>. PICK c : c = problem.modified
    OBVIOUS
  <2>1. Reading(ProblemParts, c)'
    BY <1>1, <1>2, Numbers, PartsAreOfFiles, ContentKeepsReading DEF Caches, ProblemLoad
  <2>2. Reading(ProblemParts, problem.modified)'
    BY <1>1, <2>1 DEF Reading, Overlooked
  <2>. QED
    BY <1>1, <2>2 DEF Caches, ProblemLoad
<1>14. LowKept
  BY <1>1, <1>3, <1>4, <1>6, <1>9 DEF LowKept, LowCourse, LowProblem
<1>. QED
  BY <1>10, <1>11, <1>12, <1>13, <1>14 DEF Caches, LowKept

LEMMA LoadEndsKeepsCaches ==
  ASSUME ContentTypes, Shape, Caches, LoadEnds
  PROVE  Caches' /\ LowKept
<1>1. /\ UNCHANGED disk /\ SameRequest /\ ContentTypes'
      /\ serving.todo # <<>> /\ \A x : StillToDo(x) => x[1] = "end"
      /\ serving'.loaded = "yes" /\ serving'.todo = <<>>
  BY LoadEndsDoes DEF contentFiles
<1>2. /\ ~LoadsCourse' /\ ~LoadsProblem'
      /\ LoadsProblem <=> ~LoadsCourse
      /\ WantsCourse' <=> WantsCourse
      /\ LoadsCourse <=> WantsCourse
  BY <1>1 DEF LoadsCourse, LoadsProblem, WantsCourse, What, SameRequest
<1>3. \A files, x : IsPast(files, x)' <=> IsPast(files, x)
  BY <1>1 DEF IsPast
<1>4. \A files, x : ~IsAwaited(files, x)
  <2>1. \A f : <<"time", f>>[1] # "end"
    OBVIOUS
  <2>. QED
    BY <1>1, <2>1 DEF IsAwaited
<1>5. CourseLoad' /\ ProblemLoad'
  BY <1>2 DEF CourseLoad, ProblemLoad
<1>6. CASE LoadsCourse
  <2>1. /\ UNCHANGED problem
        /\ course'.data = serving.part /\ course'.modified = course.modified
        /\ course'.doubtful = IF serving.edits > 1 THEN "yes" ELSE "no"
    BY <1>6, LoadEndsDoes
  <2>2. ProblemUsable' => ProblemUsable
    BY <1>1, <1>2, <1>6, <2>1 DEF ProblemUsable, RequiresToReload
  <2>. PICK c : c = course.modified
    OBVIOUS
  <2>3. /\ serving.edits > 1 \/ WillBeSeen(CourseParts, serving.part, c)
        /\ serving.part["course"] >= 1
    <3>1. c \in Int /\ Reading(CourseParts, c) /\ CourseParts \in SUBSET Parts /\ "course" \in CourseParts
      BY <1>6, Numbers, PartsAreOfFiles DEF Caches, CourseLoad, CourseParts
    <3>. QED
      BY <1>1, <3>1, ReadingEnds
  <2>4. CourseKept'
    <3>1. IsPast(CourseFiles, course.modified)'
      BY <1>1, <2>1 DEF Caches, CourseKept, IsPast
    <3>2. Sees(CourseParts, course.data, course.modified, course.doubtful)'
      BY <1>1, <2>1, <2>3 DEF Sees, WillBeSeen
    <3>. QED
      BY <2>1, <2>3, <3>1, <3>2 DEF CourseKept
  <2>5. ProblemKept'
    BY <1>1, <1>2, <1>6, <2>1, <2>2 DEF Caches, ProblemKept, Sees, WillBeSeen, IsPast
  <2>6. LowKept
    BY <1>2, <1>3, <1>4, <1>6, <2>1, <2>2 DEF LowKept, LowCourse, LowProblem
  <2>. QED
    BY <1>5, <2>4, <2>5, <2>6 DEF Caches, LowKept
<1>7. CASE LoadsProblem
  <2>1. /\ UNCHANGED course
        /\ problem'.data = serving.part /\ problem'.modified = problem.modified
        /\ problem'.doubtful = IF serving.edits > 1 THEN "yes" ELSE "no"
    BY <1>7, LoadEndsDoes
  <2>2. CourseUsable' => CourseUsable
    BY <1>1, <1>2, <1>7, <2>1 DEF CourseUsable, RequiresToReload
  <2>. PICK c : c = problem.modified
    OBVIOUS
  <2>3. /\ serving.edits > 1 \/ WillBeSeen(ProblemParts, serving.part, c)
        /\ serving.part["problem"] >= 1
    <3>1. c \in Int /\ Reading(ProblemParts, c) /\ ProblemParts \in SUBSET Parts /\ "problem" \in ProblemParts
      BY <1>7, Numbers, PartsAreOfFiles DEF Caches, ProblemLoad, ProblemParts
    <3>. QED
      BY <1>1, <3>1, ReadingEnds
  <2>4. ProblemKept'
    <3>1. IsPast(ProblemFiles, problem.modified)'
      BY <1>1, <2>1 DEF Caches, ProblemKept, IsPast
    <3>2. Sees(ProblemParts, problem.data, problem.modified, problem.doubtful)'
      BY <1>1, <2>1, <2>3 DEF Sees, WillBeSeen
    <3>3. problem'.data # Unread
      <4>1. Unread["problem"] = 0
        BY DEF Unread, Parts, Files
      <4>. QED
        BY <2>1, <2>3, <4>1
    <3>. QED
      BY <3>1, <3>2, <3>3 DEF ProblemKept
  <2>5. CourseKept'
    BY <1>1, <1>2, <1>7, <2>1, <2>2 DEF Caches, CourseKept, Sees, WillBeSeen, IsPast
  <2>6. LowKept
    BY <1>2, <1>3, <1>4, <1>7, <2>1, <2>2 DEF LowKept, LowCourse, LowProblem
  <2>. QED
    BY <1>5, <2>4, <2>5, <2>6 DEF Caches, LowKept
<1>. QED
  BY <1>2, <1>6, <1>7

LEMMA LoadThrowsKeepsCaches ==
  ASSUME ContentTypes, Shape, Caches, LoadThrows
  PROVE  Caches' /\ LowKept
<1>1. /\ UNCHANGED disk /\ serving.todo # <<>> /\ ContentTypes'
      /\ course'.data = course.data /\ course'.modified = course.modified
      /\ course'.checked = course.checked /\ course'.doubtful = course.doubtful
      /\ course.error = "yes" => course'.error = "yes"
      /\ LoadsProblem => course' = course
      /\ problem'.data = problem.data /\ problem'.modified = problem.modified
      /\ problem'.doubtful = problem.doubtful /\ problem'.checked = problem.checked
      /\ problem.error = "yes" => problem'.error = "yes"
  BY LoadThrowsDoes DEF contentFiles
<1>2. serving' = NotServing
  BY LoadThrowsDoes DEF AnswerWith
<1>3. serving'.todo = <<>> /\ serving'.loaded = "no"
  BY <1>2, Records
<1>4. /\ ~LoadsCourse' /\ ~LoadsProblem'
      /\ CourseUsable' => CourseUsable
      /\ ProblemUsable' => ProblemUsable
  <2>1. course'.error \in {"no", "yes"} /\ course.error \in {"no", "yes"}
        /\ problem'.error \in {"no", "yes"} /\ problem.error \in {"no", "yes"}
    BY <1>1 DEF ContentTypes, Items
  <2>2. ~LoadsCourse' /\ ~LoadsProblem'
    BY <1>3 DEF LoadsCourse, LoadsProblem
  <2>3. CourseUsable' => CourseUsable
    BY <1>1, <1>3, <2>1 DEF CourseUsable, RequiresToReload
  <2>4. ProblemUsable' => ProblemUsable
    BY <1>1, <1>3, <2>1 DEF ProblemUsable, RequiresToReload
  <2>. QED
    BY <2>2, <2>3, <2>4
<1>5. \A files, x : IsPast(files, x)' <=> IsPast(files, x)
  BY <1>1 DEF IsPast
<1>6. CourseKept' /\ CourseLoad'
  BY <1>1, <1>4 DEF Caches, CourseKept, CourseLoad, Sees, WillBeSeen, IsPast
<1>7. ProblemKept' /\ ProblemLoad'
  BY <1>1, <1>3, <1>4 DEF Caches, ProblemKept, ProblemLoad, Sees, WillBeSeen, IsPast
<1>8. LowKept
  BY <1>1, <1>4, <1>5 DEF LowKept, LowCourse, LowProblem
<1>. QED
  BY <1>6, <1>7, <1>8 DEF Caches, LowKept

-----------------------------------------------------------------------------
(* The content service: what its answers promise *)

Low(what, x) == IF what = "course" THEN LowCourse(x) ELSE LowProblem(x)

\* The answer of c is there and no error; or it will have the time found before.
HasAnswer(c) == calls[c].pc = "answered" /\ calls[c].answer.status \in {"same", "data"}
Serves(c) == serving.client = c /\ calls[c].pc = "sent" /\ serving.pc \in {"course", "problem"}

\* The answer that c gets will not have a time below x.
AtLeast(c, x) ==
  /\ HasAnswer(c) => x <= calls[c].answer.modified
  /\ Serves(c) => x <= serving.answer.modified

\* What is read, now or by the load under way, has each change up to time m.
ReadSoFar(parts) == {p \in parts : ~StillToDo(<<"content", p>>)}
CourseFor(m) ==
  IF serving.todo = <<>> THEN WillBeSeen(CourseParts, course.data, m)
  ELSE WillBeSeen(ReadSoFar(CourseParts), serving.part, m)
ProblemFor(m) ==
  IF LoadsProblem THEN WillBeSeen(ReadSoFar(ProblemParts), serving.part, m)
  ELSE problem.data # Unread => WillBeSeen(ProblemParts, problem.data, m)

\* An answer tells of everything that has changed since stamp.
AnswerRight(a, what, stamp) ==
  /\ a.status \in {"same", "data", "error"}
  /\ a.status # "error" => Low(what, a.modified) /\ a.modified >= 1
  /\ a.status = "same" => a.modified <= stamp
  /\ a.status = "data" =>
       /\ a.modified > stamp
       /\ Sees(IF what = "course" THEN CourseParts ELSE ProblemParts, a.data, a.modified, a.doubtful)
       /\ what = "problem" => a.doubtful = "yes" \/ ProblemFor(a.modified)

AnswersRight == \A c \in Clients :
  calls[c].pc = "answered" => AnswerRight(calls[c].answer, calls[c].what, calls[c].stamp)

ServesRight ==
  serving.pc \in {"course", "problem"} =>
    /\ Low(What, serving.answer.modified) /\ serving.answer.modified >= 1
    /\ serving.answer.modified > serving.stamp
    /\ What = "course" => serving.answer.doubtful = "yes" \/ CourseFor(serving.answer.modified)
    /\ What = "problem" => serving.answer.doubtful = "yes" \/ ProblemFor(serving.answer.modified)

ContentInv == Shape /\ Caches /\ AnswersRight /\ ServesRight

\* What others rely on, with FilesAge and LowKept: among it, that data that are
\* read have each change up to time m, if those that are cached have.
DataFor(c, m) ==
  calls[c].pc = "answered" /\ calls[c].answer.status = "data" =>
    WillBeSeen(ProblemParts, calls[c].answer.data, m)

FoundKept == \A m \in Int : m <= LastEdit /\ ProblemFor(m) => ProblemFor(m)'
DataKept == \A c \in Clients, m \in Int :
  m <= LastEdit /\ calls[c].what = "problem" /\ DataFor(c, m) /\ ProblemFor(m) => DataFor(c, m)'

OnlyAnswers == \A c \in Clients :
  \/ calls'[c] = calls[c]
  \/ /\ calls[c].pc = "sent" /\ calls'[c].pc = "answered"
     /\ calls'[c].what = calls[c].what /\ calls'[c].stamp = calls[c].stamp

BoundsKept == \A c \in Clients, x \in Int :
  AtLeast(c, x) /\ Low(calls[c].what, x) => AtLeast(c, x)'

Guarantee == FilesAge /\ LowKept /\ OnlyAnswers /\ BoundsKept /\ FoundKept /\ DataKept

\* A time of which no answer is below is not in the future.
LEMMA LowIsPast ==
  ASSUME ContentTypes, NEW what, NEW x \in Int, Low(what, x)
  PROVE  x <= LastEdit
BY PastIsPast, PartsAreOfFiles DEF Low, LowCourse, LowProblem

\* An answer that was right stays so.
LEMMA AnswerStaysRight ==
  ASSUME ContentTypes, FilesAge, LowKept, FoundKept, NEW a \in AnswerRecords, NEW what, NEW stamp,
         AnswerRight(a, what, stamp)
  PROVE  AnswerRight(a, what, stamp)'
<1>1. a.modified \in Int /\ a.data \in Times
  BY DEF AnswerRecords
<1>2. ASSUME a.status # "error" PROVE Low(what, a.modified)' /\ a.modified <= LastEdit
  <2>1. Low(what, a.modified)
    BY <1>2 DEF AnswerRight
  <2>2. a.modified <= LastEdit
    BY <1>1, <2>1, LowIsPast
  <2>3. Low(what, a.modified)'
    BY <1>1, <2>1 DEF LowKept, Low
  <2>. QED
    BY <2>2, <2>3
<1>. PICK parts : parts = IF what = "course" THEN CourseParts ELSE ProblemParts
  OBVIOUS
<1>3. parts \in SUBSET Parts
  BY PartsAreOfFiles
<1>4. ASSUME a.status = "data" PROVE Sees(parts, a.data, a.modified, a.doubtful)'
  <2>1. Sees(parts, a.data, a.modified, a.doubtful)
    BY <1>4 DEF AnswerRight
  <2>. QED
    BY <1>1, <1>2, <1>3, <1>4, <2>1 DEF Sees, FilesAge
<1>5. ASSUME a.status = "data", what = "problem" PROVE a.doubtful = "yes" \/ ProblemFor(a.modified)'
  BY <1>1, <1>2, <1>5 DEF AnswerRight, FoundKept
<1>. QED
  BY <1>2, <1>4, <1>5 DEF AnswerRight

\* The answers that are there stay right; so do all, if no other comes.
LEMMA OldAnswerStaysRight ==
  ASSUME ContentTypes, AnswersRight, FilesAge, LowKept, FoundKept,
         NEW c \in Clients, calls'[c] = calls[c], calls[c].pc = "answered"
  PROVE  AnswerRight(calls[c].answer, calls[c].what, calls[c].stamp)'
<1>. PICK a, what, stamp : a = calls[c].answer /\ what = calls[c].what /\ stamp = calls[c].stamp
  OBVIOUS
<1>1. a \in AnswerRecords
  BY DEF ContentTypes, CallRecords
<1>2. AnswerRight(a, what, stamp)
  BY DEF AnswersRight
<1>3. AnswerRight(a, what, stamp)'
  BY <1>1, <1>2, AnswerStaysRight
<1>4. a = calls'[c].answer /\ what = calls'[c].what /\ stamp = calls'[c].stamp
  OBVIOUS
<1>. QED
  BY <1>3, <1>4 DEF AnswerRight, Sees, WillBeSeen

\* The data that are there keep what they have.
LEMMA OldDataKept ==
  ASSUME ContentTypes, FilesAge, NEW c \in Clients, calls'[c] = calls[c],
         NEW m \in Int, m <= LastEdit, DataFor(c, m)
  PROVE  DataFor(c, m)'
<1>. PICK data : data = calls[c].answer.data
  OBVIOUS
<1>1. data \in Times
  BY DEF ContentTypes, CallRecords, AnswerRecords
<1>2. WillBeSeen(ProblemParts, data, m) => WillBeSeen(ProblemParts, data, m)'
  BY <1>1, PartsAreOfFiles DEF FilesAge
<1>. QED
  BY <1>2 DEF DataFor, WillBeSeen

LEMMA SameAnswersStayRight ==
  ASSUME ContentTypes, AnswersRight, FilesAge, LowKept, FoundKept, UNCHANGED calls
  PROVE  AnswersRight' /\ OnlyAnswers /\ DataKept
BY OldAnswerStaysRight, OldDataKept DEF AnswersRight, OnlyAnswers, DataKept

\* The only new answer, if any, is a, to the client that is served.
LEMMA AnswersStayRight ==
  ASSUME ContentTypes, Shape, AnswersRight, FilesAge, LowKept, FoundKept, serving.pc # "none",
         NEW a \in AnswerRecords, AnswerWith(a),
         NEW what, NEW stamp, what = What, stamp = serving.stamp, AnswerRight(a, what, stamp)'
  PROVE  AnswersRight' /\ OnlyAnswers
<1>1. /\ serving.client \in Clients
      /\ calls[serving.client].pc = "sent" =>
           calls[serving.client].what = What /\ calls[serving.client].stamp = serving.stamp
  BY DEF Shape
<1>2. \A c \in Clients :
        \/ calls'[c] = calls[c] /\ (c = serving.client => calls[c].pc # "sent")
        \/ /\ c = serving.client
           /\ calls[c].pc = "sent" /\ calls'[c].pc = "answered" /\ calls'[c].answer = a
           /\ calls'[c].what = calls[c].what /\ calls'[c].stamp = calls[c].stamp
  BY <1>1, AnswerWithDoes
<1>3. OnlyAnswers
  BY <1>2 DEF OnlyAnswers
<1>4. ASSUME NEW c \in Clients, calls'[c].pc = "answered"
      PROVE  AnswerRight(calls[c].answer, calls[c].what, calls[c].stamp)'
  <2>1. CASE calls'[c] = calls[c]
    BY <1>4, <2>1, OldAnswerStaysRight
  <2>2. CASE calls'[c] # calls[c]
    <3>1. /\ c = serving.client /\ calls[c].pc = "sent" /\ calls'[c].answer = a
          /\ calls'[c].what = calls[c].what /\ calls'[c].stamp = calls[c].stamp
      BY <1>2, <2>2
    <3>2. calls'[c].answer = a /\ calls'[c].what = what /\ calls'[c].stamp = stamp
      BY <1>1, <3>1
    <3>. QED
      BY <3>2 DEF AnswerRight, Sees, WillBeSeen
  <2>. QED
    BY <2>1, <2>2
<1>. QED
  BY <1>3, <1>4 DEF AnswersRight

ForKept ==
  /\ \A m \in Int : m <= LastEdit /\ serving.pc \in {"course", "problem"} /\ What = "course"
       /\ CourseFor(m) => CourseFor(m)'
  /\ FoundKept

\* The steps of loads, edits and time do not touch requests and answers.
LEMMA LoadingKeepsContent ==
  ASSUME ContentTypes, ContentInv, FilesAge, UNCHANGED calls, SameRequest, Shape',
         Caches' /\ LowKept, ForKept
  PROVE  ContentInv' /\ Guarantee
<1>1. AnswersRight' /\ OnlyAnswers /\ DataKept /\ FoundKept
  BY SameAnswersStayRight DEF ContentInv, ForKept
<1>2. ServesRight'
  <2>. SUFFICES ASSUME serving.pc \in {"course", "problem"} PROVE ServesRight'
    BY DEF ServesRight, SameRequest
  <2>. PICK m, what : m = serving.answer.modified /\ what = What
    OBVIOUS
  <2>1. m \in Int /\ Low(what, m)
    BY Numbers DEF ContentInv, ServesRight
  <2>2. m <= LastEdit /\ Low(what, m)'
    <3>1. m <= LastEdit
      BY <2>1, LowIsPast
    <3>2. Low(what, m)'
      BY <2>1 DEF LowKept, Low
    <3>. QED
      BY <3>1, <3>2
  <2>3. m = serving'.answer.modified /\ what = What'
    BY DEF SameRequest, What
  <2>4. What = "course" => serving.answer.doubtful = "yes" \/ CourseFor(m)'
    BY <2>1, <2>2 DEF ContentInv, ServesRight, ForKept, FoundKept
  <2>5. What = "problem" => serving.answer.doubtful = "yes" \/ ProblemFor(m)'
    BY <2>1, <2>2 DEF ContentInv, ServesRight, ForKept, FoundKept
  <2>6. Low(What, serving.answer.modified)'
    BY <2>2, <2>3 DEF Low, LowCourse, LowProblem
  <2>7. CourseFor(m)' => CourseFor(serving.answer.modified)'
    BY <2>3 DEF CourseFor, WillBeSeen
  <2>8. ProblemFor(m)' => ProblemFor(serving.answer.modified)'
    BY <2>3 DEF ProblemFor, WillBeSeen
  <2>. QED
    BY <2>3, <2>4, <2>5, <2>6, <2>7, <2>8 DEF ContentInv, ServesRight, SameRequest
<1>3. BoundsKept
  BY DEF BoundsKept, AtLeast, HasAnswer, Serves, SameRequest
<1>. QED
  BY <1>1, <1>2, <1>3 DEF ContentInv, Guarantee

LEMMA EditKeepsContent ==
  ASSUME ContentTypes, ContentInv, NEW f \in Files, Edit(f)
  PROVE  ContentInv' /\ Guarantee
<1>0. Shape /\ Caches
  BY DEF ContentInv
<1>1. /\ UNCHANGED <<course, problem, calls>> /\ SameRequest
      /\ serving'.loaded = serving.loaded /\ serving'.todo = serving.todo
      /\ serving'.part = serving.part
  BY EditDoes DEF caches, SameRequest
<1>2. FilesAge /\ Caches' /\ LowKept
  BY <1>0, EditedFilesAge, EditKeepsCaches
<1>3. /\ LoadsProblem' <=> LoadsProblem
      /\ What' = What
      /\ \A x : StillToDo(x)' <=> StillToDo(x)
      /\ \A parts : ReadSoFar(parts)' = ReadSoFar(parts)
  BY <1>1 DEF LoadsProblem, WantsCourse, What, StillToDo, ReadSoFar, SameRequest
<1>4. Shape'
  BY <1>0, <1>1, <1>3 DEF Shape, EndsOnce, SameRequest
<1>5. ForKept
  <2>1. ASSUME NEW m \in Int, m <= LastEdit, NEW parts \in SUBSET Parts, NEW data \in Times,
               WillBeSeen(parts, data, m)
        PROVE  WillBeSeen(parts, data, m)'
    BY <1>2, <2>1 DEF FilesAge
  <2>2. /\ course.data \in Times /\ problem.data \in Times /\ serving.part \in Times
    BY DEF ContentTypes, Items, Servings, Null
  <2>3. /\ CourseParts \in SUBSET Parts /\ ProblemParts \in SUBSET Parts
        /\ ReadSoFar(CourseParts) \in SUBSET Parts /\ ReadSoFar(ProblemParts) \in SUBSET Parts
    BY PartsAreOfFiles DEF ReadSoFar
  <2>4. ASSUME NEW m \in Int, m <= LastEdit, CourseFor(m) PROVE CourseFor(m)'
    BY <1>1, <1>3, <2>1, <2>2, <2>3, <2>4 DEF CourseFor, WillBeSeen
  <2>5. ASSUME NEW m \in Int, m <= LastEdit, ProblemFor(m) PROVE ProblemFor(m)'
    BY <1>1, <1>3, <2>1, <2>2, <2>3, <2>5 DEF ProblemFor, WillBeSeen
  <2>. QED
    BY <2>4, <2>5 DEF ForKept, FoundKept
<1>. QED
  BY <1>1, <1>2, <1>4, <1>5, LoadingKeepsContent

LEMMA ExpireKeepsContent ==
  ASSUME ContentTypes, ContentInv, Expire
  PROVE  ContentInv' /\ Guarantee
<1>0. Shape /\ Caches
  BY DEF ContentInv
<1>1. /\ UNCHANGED <<disk, serving, calls>> /\ SameRequest
      /\ course'.data = course.data /\ problem'.data = problem.data
  BY ExpireDoes DEF contentFiles, SameRequest
<1>2. FilesAge /\ Caches' /\ LowKept
  BY <1>0, <1>1, SameFilesAge, ExpireKeepsCaches
<1>3. /\ LoadsProblem' <=> LoadsProblem
      /\ What' = What
      /\ \A x : StillToDo(x)' <=> StillToDo(x)
      /\ \A parts : ReadSoFar(parts)' = ReadSoFar(parts)
  BY <1>1 DEF LoadsProblem, WantsCourse, What, StillToDo, ReadSoFar
<1>4. Shape'
  BY <1>0, <1>1, <1>3 DEF Shape, EndsOnce
<1>5. ForKept
  BY <1>1, <1>3 DEF ForKept, FoundKept, CourseFor, ProblemFor, WillBeSeen
<1>. QED
  BY <1>1, <1>2, <1>4, <1>5, LoadingKeepsContent

LEMMA LoadCourseKeepsContent ==
  ASSUME ContentTypes, ContentInv, LoadCourse
  PROVE  ContentInv' /\ Guarantee
<1>0. Shape /\ Caches
  BY DEF ContentInv
<1>1. /\ UNCHANGED <<disk, problem, calls>> /\ SameRequest
      /\ NotLoaded /\ WantsCourse
      /\ serving'.todo = CourseSteps /\ serving'.loaded = "no"
  BY <1>0, LoadCourseDoes DEF contentFiles
<1>2. FilesAge /\ Caches' /\ LowKept
  BY <1>0, <1>1, SameFilesAge, LoadCourseKeepsCaches
<1>3. /\ ~LoadsProblem' /\ ~LoadsProblem /\ What' = What
      /\ serving'.todo # <<>> /\ EndsOnce(serving'.todo)
      /\ serving.pc # "none"
  BY <1>1, LoadsHave DEF LoadsProblem, WantsCourse, What, SameRequest
<1>4. Shape'
  BY <1>0, <1>1, <1>3 DEF Shape, SameRequest, EndsOnce
<1>5. ForKept
  <2>1. ReadSoFar(CourseParts)' = {}
    BY <1>1, LoadBegins, PartsAreOfFiles DEF ReadSoFar
  <2>2. \A m : CourseFor(m)'
    BY <1>3, <2>1 DEF CourseFor, WillBeSeen
  <2>. QED
    BY <1>1, <1>3, <2>2 DEF ForKept, FoundKept, ProblemFor, WillBeSeen
<1>. QED
  BY <1>0, <1>1, <1>2, <1>4, <1>5, LoadingKeepsContent

LEMMA LoadProblemKeepsContent ==
  ASSUME ContentTypes, ContentInv, LoadProblem
  PROVE  ContentInv' /\ Guarantee
<1>0. Shape /\ Caches
  BY DEF ContentInv
<1>1. /\ UNCHANGED <<disk, course, calls>> /\ SameRequest
      /\ NotLoaded /\ ~WantsCourse /\ What = "problem" /\ serving.pc # "none"
      /\ serving'.todo = ProblemSteps /\ serving'.loaded = "no"
  BY <1>0, LoadProblemDoes DEF contentFiles
<1>2. FilesAge /\ Caches' /\ LowKept
  BY <1>0, <1>1, SameFilesAge, LoadProblemKeepsCaches
<1>3. /\ LoadsProblem' /\ What' = What
      /\ serving'.todo # <<>> /\ EndsOnce(serving'.todo)
  BY <1>1, LoadsHave DEF LoadsProblem, WantsCourse, What, SameRequest
<1>4. Shape'
  <2>1. ~StillToDo(<<"content", "course">>)'
    BY <1>1, LoadBegins
  <2>. QED
    BY <1>0, <1>1, <1>3, <2>1 DEF Shape, SameRequest, EndsOnce
<1>5. ForKept
  <2>1. ReadSoFar(ProblemParts)' = {}
    BY <1>1, LoadBegins DEF ReadSoFar
  <2>2. \A m : ProblemFor(m)'
    BY <1>3, <2>1 DEF ProblemFor, WillBeSeen
  <2>. QED
    BY <1>1, <2>2 DEF ForKept, FoundKept
<1>. QED
  BY <1>0, <1>1, <1>2, <1>4, <1>5, LoadingKeepsContent

LEMMA ReadTimeKeepsContent ==
  ASSUME ContentTypes, ContentInv, ReadTime
  PROVE  ContentInv' /\ Guarantee
<1>0. Shape /\ Caches
  BY DEF ContentInv
<1>1. /\ UNCHANGED <<disk, calls>> /\ SameRequest
      /\ serving.todo # <<>> /\ serving'.todo # <<>> /\ EndsOnce(serving'.todo)
      /\ serving'.part = serving.part /\ serving'.loaded = serving.loaded
  BY <1>0, ReadTimeDoes DEF contentFiles
<1>2. FilesAge /\ Caches' /\ LowKept
  BY <1>0, <1>1, SameFilesAge, ReadTimeKeepsCaches
<1>3. /\ LoadsProblem' <=> LoadsProblem
      /\ What' = What
  BY <1>1 DEF LoadsProblem, WantsCourse, What, SameRequest
<1>4. PICK f \in Files :
        /\ \A x : StillToDo(x) <=> x = <<"time", f>> \/ StillToDo(x)'
        /\ \/ f \notin ProblemFiles /\ problem' = problem
           \/ f \in ProblemFiles /\ LoadsCourse /\ problem' = NoItem
           \/ f \in ProblemFiles /\ LoadsProblem
  BY <1>0, ReadTimeDoes
<1>5. /\ \A p : StillToDo(<<"content", p>>)' <=> StillToDo(<<"content", p>>)
      /\ \A parts : ReadSoFar(parts)' = ReadSoFar(parts)
  <2>1. \A p : <<"content", p>> # <<"time", f>>
    OBVIOUS
  <2>2. \A p : StillToDo(<<"content", p>>)' <=> StillToDo(<<"content", p>>)
    BY <1>4, <2>1
  <2>. QED
    BY <2>2 DEF ReadSoFar
<1>6. Shape'
  BY <1>0, <1>1, <1>3, <1>5 DEF Shape, SameRequest, EndsOnce
<1>7. ForKept
  <2>1. \A m : CourseFor(m) => CourseFor(m)'
    BY <1>1, <1>5 DEF CourseFor, WillBeSeen
  <2>2. NoItem.data = Unread
    BY DEF NoItem
  <2>3. LoadsProblem \/ problem' = problem \/ problem'.data = Unread
    BY <1>4, <2>2
  <2>4. \A m : ProblemFor(m) => ProblemFor(m)'
    BY <1>1, <1>3, <1>5, <2>3 DEF ProblemFor, WillBeSeen, Unread
  <2>. QED
    BY <2>1, <2>4 DEF ForKept, FoundKept
<1>. QED
  BY <1>0, <1>1, <1>2, <1>6, <1>7, LoadingKeepsContent

LEMMA ReadContentKeepsContent ==
  ASSUME ContentTypes, ContentInv, ReadContent
  PROVE  ContentInv' /\ Guarantee
<1>0. Shape /\ Caches
  BY DEF ContentInv
<1>1. /\ UNCHANGED <<disk, problem, calls>> /\ SameRequest
      /\ serving.todo # <<>> /\ serving'.todo # <<>> /\ EndsOnce(serving'.todo)
      /\ serving'.loaded = serving.loaded
  BY <1>0, ReadContentDoes DEF contentFiles
<1>2. FilesAge /\ Caches' /\ LowKept
  BY <1>0, <1>1, SameFilesAge, ReadContentKeepsCaches
<1>3. /\ LoadsProblem' <=> LoadsProblem
      /\ What' = What
  BY <1>1 DEF LoadsProblem, WantsCourse, What, SameRequest
<1>4. PICK p \in Parts :
        /\ \A x : StillToDo(x) <=> x = <<"content", p>> \/ StillToDo(x)'
        /\ serving'.part[p] = disk[FileOf(p)]
        /\ \A q \in Parts \ {p} : serving'.part[q] = serving.part[q]
  BY <1>0, ReadContentDoes
<1>5. Shape'
  BY <1>0, <1>1, <1>3, <1>4 DEF Shape, SameRequest, EndsOnce
<1>6. ASSUME NEW parts \in SUBSET Parts, NEW m, WillBeSeen(ReadSoFar(parts), serving.part, m)
      PROVE  WillBeSeen(ReadSoFar(parts), serving.part, m)'
  <2>. SUFFICES ASSUME NEW q \in parts, ~StillToDo(<<"content", q>>)',
                       serving'.part[q] < disk[FileOf(q)]
                PROVE  disk[FileOf(q)] > m
    BY <1>1 DEF WillBeSeen, ReadSoFar
  <2>1. CASE q = p
    BY <1>4, <2>1, Numbers, PartsAreOfFiles
  <2>2. CASE q # p
    <3>1. ~StillToDo(<<"content", q>>)
      BY <1>4, <2>2
    <3>. QED
      BY <1>4, <1>6, <2>2, <3>1 DEF WillBeSeen, ReadSoFar
  <2>. QED
    BY <2>1, <2>2
<1>7. ForKept
  <2>1. \A m : CourseFor(m) => CourseFor(m)'
    BY <1>1, <1>6, PartsAreOfFiles DEF CourseFor
  <2>2. \A m : ProblemFor(m) => ProblemFor(m)'
    BY <1>1, <1>3, <1>6, PartsAreOfFiles DEF ProblemFor, WillBeSeen
  <2>. QED
    BY <2>1, <2>2 DEF ForKept, FoundKept
<1>. QED
  BY <1>0, <1>1, <1>2, <1>5, <1>7, LoadingKeepsContent

LEMMA LoadEndsKeepsContent ==
  ASSUME ContentTypes, ContentInv, LoadEnds
  PROVE  ContentInv' /\ Guarantee
<1>0. Shape /\ Caches
  BY DEF ContentInv
<1>1. /\ UNCHANGED <<disk, calls>> /\ SameRequest
      /\ serving.todo # <<>> /\ \A x : StillToDo(x) => x[1] = "end"
      /\ serving'.loaded = "yes" /\ serving'.todo = <<>>
      /\ LoadsCourse => UNCHANGED problem /\ course'.data = serving.part
      /\ LoadsProblem => UNCHANGED course /\ problem'.data = serving.part
  BY <1>0, LoadEndsDoes DEF contentFiles
<1>2. FilesAge /\ Caches' /\ LowKept
  BY <1>0, <1>1, SameFilesAge, LoadEndsKeepsCaches
<1>3. ~LoadsProblem' /\ What' = What /\ (LoadsProblem <=> ~LoadsCourse)
  BY <1>1 DEF LoadsCourse, LoadsProblem, WantsCourse, What, SameRequest
<1>4. Shape'
  BY <1>0, <1>1, <1>3 DEF Shape, EndsOnce, SameRequest
<1>5. \A parts : ReadSoFar(parts) = parts
  <2>1. \A p : <<"content", p>>[1] # "end"
    OBVIOUS
  <2>. QED
    BY <1>1, <2>1 DEF ReadSoFar
<1>6. ForKept
  <2>1. ASSUME NEW m, What = "course", CourseFor(m) PROVE CourseFor(m)'
    <3>1. LoadsCourse
      BY <1>0, <1>3, <2>1 DEF Shape
    <3>. QED
      BY <1>1, <1>5, <2>1, <3>1 DEF CourseFor, WillBeSeen
  <2>2. ASSUME NEW m, ProblemFor(m) PROVE ProblemFor(m)'
    BY <1>1, <1>3, <1>5, <2>2 DEF ProblemFor, WillBeSeen
  <2>. QED
    BY <2>1, <2>2 DEF ForKept, FoundKept
<1>. QED
  BY <1>0, <1>1, <1>2, <1>4, <1>6, LoadingKeepsContent

\* An item that a place of the handler may be left with.
LEMMA LoadedIsKnown ==
  ASSUME ContentTypes, ContentInv
  PROVE  /\ Loaded("modified", Item) /\ What = "course" => CourseUsable
         /\ Loaded("modified", Item) /\ What = "problem" => ProblemUsable
         /\ Loaded("course", course) => CourseUsable
         /\ Loaded("problem", problem) => ProblemUsable /\ problem.data # Unread
<1>1. ASSUME Loaded("modified", Item), What = "course" PROVE CourseUsable
  BY <1>1 DEF Loaded, Item, CourseUsable, WantsCourse
<1>2. ASSUME Loaded("modified", Item), What = "problem" PROVE ProblemUsable
  BY <1>2 DEF Loaded, Item, ProblemUsable, WantsCourse
<1>3. ASSUME Loaded("course", course) PROVE CourseUsable
  BY <1>3 DEF Loaded, CourseUsable, WantsCourse
<1>4. ASSUME Loaded("problem", problem) PROVE ProblemUsable /\ problem.data # Unread
  BY <1>4 DEF Loaded, ProblemUsable, WantsCourse, RequiresToReload, ContentInv, Caches, ProblemKept
<1>. QED
  BY <1>1, <1>2, <1>3, <1>4

LEMMA RestKeepsFound ==
  ASSUME serving.todo = <<>>, serving'.todo = <<>>, UNCHANGED <<disk, caches>>
  PROVE  FoundKept
BY DEF FoundKept, ProblemFor, LoadsProblem, WillBeSeen, caches

LEMMA TakeKeepsContent ==
  ASSUME ContentTypes, ContentInv, NEW c \in Clients, Take(c)
  PROVE  ContentInv' /\ Guarantee
<1>0. Shape /\ Caches /\ AnswersRight
  BY DEF ContentInv
<1>1. /\ UNCHANGED <<disk, caches, calls>>
      /\ serving.pc = "none" /\ calls[c].pc = "sent"
      /\ serving'.pc = "modified" /\ serving'.client = c
      /\ serving'.what = calls[c].what /\ serving'.stamp = calls[c].stamp
      /\ serving'.todo = <<>> /\ serving'.loaded = "no"
  BY TakeDoes DEF contentFiles
<1>2. serving.todo = <<>>
  BY <1>0, <1>1 DEF Shape
<1>3. FilesAge /\ Caches' /\ LowKept /\ FoundKept
  BY <1>0, <1>1, <1>2, SameFilesAge, RestKeepsCaches, RestKeepsFound
<1>4. Shape'
  BY <1>1 DEF Shape, LoadsProblem, What, EndsOnce
<1>5. AnswersRight' /\ OnlyAnswers /\ DataKept
  BY <1>0, <1>1, <1>3, SameAnswersStayRight
<1>6. ServesRight'
  BY <1>1 DEF ServesRight
<1>7. BoundsKept
  BY <1>1 DEF BoundsKept, AtLeast, HasAnswer, Serves
<1>. QED
  BY <1>3, <1>4, <1>5, <1>6, <1>7 DEF ContentInv, Guarantee

\* The time of the item is found: no answer about it has an earlier one.
LEMMA CompareModifiedKeepsContent ==
  ASSUME ContentTypes, ContentInv, CompareModified
  PROVE  ContentInv' /\ Guarantee
<1>0. Shape /\ Caches /\ AnswersRight
  BY DEF ContentInv
<1>1. /\ UNCHANGED <<disk, caches>> /\ Loaded("modified", Item)
  BY <1>0, CompareModifiedDoes DEF contentFiles
<1>2. PICK a \in AnswerRecords :
        /\ a.modified = Item.modified /\ a.doubtful = Item.doubtful
        /\ \/ /\ a.modified > serving.stamp /\ GoOn("course", a)
           \/ /\ a.modified <= serving.stamp /\ a.status = "same" /\ AnswerWith(a)
  BY <1>0, CompareModifiedDoes
<1>3. serving.todo = <<>> /\ serving.pc = "modified" /\ What \in YamlFiles
  BY <1>1 DEF Loaded, What, ContentTypes, Servings
<1>4. serving'.todo = <<>> /\ serving'.loaded = "no"
  BY <1>2, <1>3, GoOnDoes, Records DEF AnswerWith
<1>5. FilesAge /\ Caches' /\ LowKept /\ FoundKept
  BY <1>0, <1>1, <1>3, <1>4, SameFilesAge, RestKeepsCaches, RestKeepsFound
<1>6. PICK m, what, stamp : m = a.modified /\ what = What /\ stamp = serving.stamp
  OBVIOUS
<1>7. m \in Int /\ what \in YamlFiles
  <2>1. a.modified \in Int
    BY DEF AnswerRecords
  <2>. QED
    BY <1>3, <1>6, <2>1
<1>8. ~LoadsCourse /\ ~LoadsProblem
  BY <1>3 DEF LoadsCourse, LoadsProblem
<1>9. Low(what, m) /\ m >= 1 /\ \A x \in Int : Low(what, x) => x <= m
  <2>1. CASE What = "course"
    <3>1. CourseUsable /\ m = course.modified /\ what = "course"
      BY <1>1, <1>2, <1>6, <2>1, LoadedIsKnown DEF Item
    <3>2. IsPast(CourseFiles, m) /\ LowCourse(1)
      BY <1>0, <3>1 DEF Caches, CourseKept
    <3>. QED
      BY <1>7, <1>8, <3>1, <3>2 DEF Low, LowCourse
  <2>2. CASE What = "problem"
    <3>1. ProblemUsable /\ m = problem.modified /\ what = "problem"
      BY <1>1, <1>2, <1>6, <2>2, LoadedIsKnown DEF Item
    <3>2. IsPast(ProblemFiles, m) /\ LowProblem(1)
      BY <1>0, <3>1 DEF Caches, ProblemKept
    <3>. QED
      BY <1>7, <1>8, <3>1, <3>2 DEF Low, LowProblem
  <2>. QED
    BY <1>3, <2>1, <2>2 DEF YamlFiles
<1>10. Low(what, m)'
  BY <1>5, <1>7, <1>9 DEF LowKept, Low
<1>11. CASE a.modified > serving.stamp /\ GoOn("course", a)
  <2>1. /\ UNCHANGED calls /\ serving'.pc = "course" /\ serving'.answer = a
        /\ serving'.client = serving.client /\ serving'.what = serving.what
        /\ serving'.stamp = serving.stamp /\ serving'.todo = serving.todo
        /\ serving'.loaded = "no"
    BY <1>11, GoOnDoes
  <2>2. Shape'
    BY <1>0, <1>3, <2>1 DEF Shape, LoadsProblem, What, EndsOnce
  <2>3. AnswersRight' /\ OnlyAnswers /\ DataKept
    BY <1>0, <1>5, <2>1, SameAnswersStayRight
  <2>4. ServesRight'
    <3>1. what = What' /\ m = serving'.answer.modified
      BY <1>6, <2>1 DEF What
    <3>2. Low(What, serving.answer.modified)'
      BY <1>10, <3>1 DEF Low, LowCourse, LowProblem
    <3>3. ASSUME What' = "course"
          PROVE  serving'.answer.doubtful = "yes" \/ CourseFor(serving.answer.modified)'
      <4>1. What = "course" /\ Item = course
        BY <2>1, <3>3 DEF What, Item
      <4>2. Sees(CourseParts, course.data, course.modified, course.doubtful)
        BY <1>0, <1>1, <4>1, LoadedIsKnown DEF Caches, CourseKept
      <4>3. a.doubtful = "yes" \/ WillBeSeen(CourseParts, course.data, m)
        BY <1>2, <1>6, <4>1, <4>2 DEF Sees
      <4>. QED
        BY <1>1, <1>3, <2>1, <3>1, <4>3 DEF CourseFor, WillBeSeen, caches
    <3>4. ASSUME What' = "problem"
          PROVE  serving'.answer.doubtful = "yes" \/ ProblemFor(serving.answer.modified)'
      <4>1. What = "problem" /\ Item = problem
        BY <2>1, <3>4 DEF What, Item
      <4>2. Sees(ProblemParts, problem.data, problem.modified, problem.doubtful)
        BY <1>0, <1>1, <4>1, LoadedIsKnown DEF Caches, ProblemKept
      <4>3. a.doubtful = "yes" \/ WillBeSeen(ProblemParts, problem.data, m)
        BY <1>2, <1>6, <4>1, <4>2 DEF Sees
      <4>4. ~LoadsProblem'
        BY <1>4 DEF LoadsProblem
      <4>. QED
        BY <1>1, <2>1, <3>1, <4>3, <4>4 DEF ProblemFor, WillBeSeen, caches
    <3>. QED
      BY <1>9, <1>11, <2>1, <3>1, <3>2, <3>3, <3>4 DEF ServesRight
  <2>5. BoundsKept
    <3>. SUFFICES ASSUME NEW c \in Clients, NEW x \in Int, AtLeast(c, x), Low(calls[c].what, x)
                  PROVE  AtLeast(c, x)'
      BY DEF BoundsKept
    <3>1. Serves(c)' => x <= m
      <4>1. Serves(c)' => calls[c].what = what
        BY <1>0, <1>3, <1>6, <2>1 DEF Serves, Shape
      <4>. QED
        BY <1>9, <4>1
    <3>. QED
      BY <1>6, <2>1, <3>1 DEF AtLeast, HasAnswer
  <2>. QED
    BY <1>5, <2>2, <2>3, <2>4, <2>5 DEF ContentInv, Guarantee
<1>12. CASE a.modified <= serving.stamp /\ a.status = "same" /\ AnswerWith(a)
  <2>1. serving.client \in Clients /\ serving.pc # "none"
    BY <1>0, <1>3 DEF Shape
  <2>2. serving' = NotServing /\ NotServing.pc = "none" /\ NotServing.todo = <<>>
    BY <1>12, Records DEF AnswerWith
  <2>3. Shape' /\ ServesRight'
    BY <2>2 DEF Shape, ServesRight, LoadsProblem, EndsOnce
  <2>4. AnswerRight(a, what, stamp)'
    BY <1>6, <1>9, <1>10, <1>12 DEF AnswerRight
  <2>5. AnswersRight' /\ OnlyAnswers
    BY <1>0, <1>5, <1>6, <1>12, <2>1, <2>4, AnswersStayRight
  <2>6. ASSUME NEW c \in Clients
        PROVE  \/ calls'[c] = calls[c]
               \/ /\ c = serving.client /\ calls[c].pc = "sent" /\ calls'[c].answer = a
    BY <1>12, <2>1, AnswerWithDoes
  <2>7. DataKept
    BY <1>5, <1>12, <2>6, OldDataKept DEF DataKept, DataFor
  <2>8. BoundsKept
    <3>. SUFFICES ASSUME NEW c \in Clients, NEW x \in Int, AtLeast(c, x), Low(calls[c].what, x)
                  PROVE  AtLeast(c, x)'
      BY DEF BoundsKept
    <3>2. CASE calls'[c] = calls[c]
      BY <2>2, <3>2 DEF AtLeast, HasAnswer, Serves
    <3>3. CASE c = serving.client /\ calls[c].pc = "sent" /\ calls'[c].answer = a
      <4>1. calls[c].what = what
        BY <1>0, <1>6, <2>1, <3>3 DEF Shape
      <4>2. x <= m
        BY <1>9, <4>1
      <4>. QED
        BY <1>6, <2>2, <3>3, <4>2 DEF AtLeast, HasAnswer, Serves
    <3>. QED
      BY <2>6, <3>2, <3>3
  <2>. QED
    BY <1>5, <2>3, <2>5, <2>7, <2>8 DEF ContentInv, Guarantee
<1>. QED
  BY <1>2, <1>11, <1>12

\* The client that is served gets an answer with the time found before.
LEMMA AnsweringKeepsContent ==
  ASSUME ContentTypes, ContentInv, serving.pc # "none", FilesAge, Caches' /\ LowKept, FoundKept,
         NEW a \in AnswerRecords, AnswerWith(a),
         NEW what, NEW stamp, what = What, stamp = serving.stamp, AnswerRight(a, what, stamp)',
         a.status = "data" /\ What = "problem" =>
           \A m : ProblemFor(m) => WillBeSeen(ProblemParts, a.data, m)',
         \/ a.status = "error"
         \/ serving.pc \in {"course", "problem"} /\ a.modified = serving.answer.modified
  PROVE  ContentInv' /\ Guarantee
<1>0. Shape /\ Caches /\ AnswersRight
  BY DEF ContentInv
<1>1. serving.client \in Clients
  BY <1>0 DEF Shape
<1>2. serving' = NotServing /\ NotServing.pc = "none" /\ NotServing.todo = <<>>
  BY Records DEF AnswerWith
<1>3. Shape' /\ ServesRight'
  BY <1>2 DEF Shape, ServesRight, LoadsProblem, EndsOnce
<1>4. AnswersRight' /\ OnlyAnswers
  BY <1>0, AnswersStayRight
<1>5. ASSUME NEW c \in Clients
      PROVE  \/ calls'[c] = calls[c]
             \/ /\ c = serving.client /\ calls[c].pc = "sent" /\ calls'[c].answer = a
  BY <1>1, AnswerWithDoes
<1>6. DataKept
  <2>. SUFFICES ASSUME NEW c \in Clients, NEW m \in Int, m <= LastEdit, calls[c].what = "problem",
                       DataFor(c, m), ProblemFor(m)
                PROVE  DataFor(c, m)'
    BY DEF DataKept
  <2>1. CASE calls'[c] = calls[c]
    BY <2>1, OldDataKept
  <2>2. CASE c = serving.client /\ calls[c].pc = "sent" /\ calls'[c].answer = a
    <3>1. What = "problem"
      BY <1>0, <2>2 DEF Shape
    <3>. QED
      BY <2>2, <3>1 DEF DataFor, WillBeSeen
  <2>. QED
    BY <1>5, <2>1, <2>2
<1>7. BoundsKept
  <2>. SUFFICES ASSUME NEW c \in Clients, NEW x \in Int, AtLeast(c, x), Low(calls[c].what, x)
                PROVE  AtLeast(c, x)'
    BY DEF BoundsKept
  <2>2. CASE calls'[c] = calls[c]
    BY <1>2, <2>2 DEF AtLeast, HasAnswer, Serves
  <2>3. CASE c = serving.client /\ calls[c].pc = "sent" /\ calls'[c].answer = a
    <3>1. ~Serves(c)' /\ (HasAnswer(c)' => a.status # "error")
      BY <1>2, <2>3 DEF HasAnswer, Serves
    <3>2. HasAnswer(c)' => x <= a.modified
      BY <2>3, <3>1 DEF AtLeast, Serves
    <3>. QED
      BY <2>3, <3>1, <3>2 DEF AtLeast
  <2>. QED
    BY <1>5, <2>2, <2>3
<1>. QED
  BY <1>3, <1>4, <1>7, <1>6 DEF ContentInv, Guarantee

LEMMA UseCourseDataKeepsContent ==
  ASSUME ContentTypes, ContentInv, UseCourseData
  PROVE  ContentInv' /\ Guarantee
<1>0. Shape /\ Caches /\ AnswersRight /\ ServesRight
  BY DEF ContentInv
<1>1. /\ UNCHANGED <<disk, caches>> /\ Loaded("course", course)
      /\ \/ What = "problem" /\ GoOn("problem", serving.answer)
         \/ /\ What = "course"
            /\ \E a \in AnswerRecords :
                 /\ a.modified = serving.answer.modified /\ a.doubtful = serving.answer.doubtful
                 /\ a.status = "data" /\ a.data = Public(course.data) /\ AnswerWith(a)
  BY <1>0, UseCourseDataDoes DEF contentFiles
<1>2. serving.todo = <<>> /\ serving.pc = "course" /\ serving.answer \in AnswerRecords
  BY <1>1 DEF Loaded, ContentTypes, Servings
<1>3. serving'.todo = <<>> /\ serving'.loaded = "no"
  BY <1>1, <1>2, GoOnDoes, Records DEF AnswerWith
<1>4. FilesAge /\ Caches' /\ LowKept /\ FoundKept
  BY <1>0, <1>1, <1>2, <1>3, SameFilesAge, RestKeepsCaches, RestKeepsFound
<1>5. PICK m, what, stamp : m = serving.answer.modified /\ what = What /\ stamp = serving.stamp
  OBVIOUS
<1>6. /\ m \in Int /\ Low(what, m) /\ m >= 1 /\ m > stamp
      /\ What = "course" => serving.answer.doubtful = "yes" \/ CourseFor(m)
      /\ What = "problem" => serving.answer.doubtful = "yes" \/ ProblemFor(m)
  BY <1>0, <1>2, <1>5, Numbers DEF ServesRight
<1>7. Low(what, m)'
  BY <1>4, <1>6 DEF LowKept, Low
<1>8. CASE What = "problem" /\ GoOn("problem", serving.answer)
  <2>1. /\ UNCHANGED calls /\ serving'.pc = "problem" /\ serving'.answer = serving.answer
        /\ serving'.client = serving.client /\ serving'.what = serving.what
        /\ serving'.stamp = serving.stamp /\ serving'.todo = serving.todo
        /\ serving'.loaded = "no"
    BY <1>2, <1>8, GoOnDoes
  <2>2. Shape'
    BY <1>0, <1>2, <1>8, <2>1 DEF Shape, LoadsProblem, What, EndsOnce
  <2>3. AnswersRight' /\ OnlyAnswers /\ DataKept
    BY <1>0, <1>4, <2>1, SameAnswersStayRight
  <2>4. ServesRight'
    <3>1. what = What' /\ m = serving'.answer.modified /\ stamp = serving'.stamp
      BY <1>5, <2>1 DEF What
    <3>2. Low(What, serving.answer.modified)'
      BY <1>7, <3>1 DEF Low, LowCourse, LowProblem
    <3>3. serving'.answer.doubtful = "yes" \/ ProblemFor(serving.answer.modified)'
      BY <1>1, <1>2, <1>6, <1>8, <2>1, <3>1 DEF ProblemFor, LoadsProblem, WillBeSeen, caches
    <3>. QED
      BY <1>5, <1>6, <1>8, <3>1, <3>2, <3>3 DEF ServesRight
  <2>5. BoundsKept
    BY <1>2, <2>1 DEF BoundsKept, AtLeast, HasAnswer, Serves
  <2>. QED
    BY <1>4, <2>2, <2>3, <2>4, <2>5 DEF ContentInv, Guarantee
<1>9. CASE ~(What = "problem" /\ GoOn("problem", serving.answer))
  <2>1. PICK a \in AnswerRecords :
          /\ a.modified = serving.answer.modified /\ a.doubtful = serving.answer.doubtful
          /\ a.status = "data" /\ a.data = Public(course.data) /\ AnswerWith(a)
    BY <1>1, <1>9
  <2>2. What = "course" /\ serving.pc # "none"
    BY <1>1, <1>2, <1>9
  <2>3. a.doubtful = "yes" \/ WillBeSeen(CourseParts, a.data, m)
    <3>1. \A p \in CourseParts : Public(course.data)[p] = course.data[p]
      BY DEF Public, CourseParts, ContentTypes, Items, Times, Parts, Files, Null
    <3>. QED
      BY <1>2, <1>6, <2>1, <2>2, <3>1 DEF CourseFor, WillBeSeen
  <2>4. AnswerRight(a, what, stamp)'
    BY <1>1, <1>5, <1>6, <1>7, <2>1, <2>2, <2>3 DEF AnswerRight, Sees, WillBeSeen
  <2>. QED
    BY <1>2, <1>4, <1>5, <2>1, <2>2, <2>4, AnsweringKeepsContent
<1>. QED
  BY <1>8, <1>9

LEMMA UseProblemDataKeepsContent ==
  ASSUME ContentTypes, ContentInv, UseProblemData
  PROVE  ContentInv' /\ Guarantee
<1>0. Shape /\ Caches /\ AnswersRight /\ ServesRight
  BY DEF ContentInv
<1>1. /\ UNCHANGED <<disk, caches>> /\ Loaded("problem", problem)
      /\ \E a \in AnswerRecords :
           /\ a.modified = serving.answer.modified /\ a.doubtful = serving.answer.doubtful
           /\ a.status = "data" /\ a.data = problem.data /\ AnswerWith(a)
  BY <1>0, UseProblemDataDoes DEF contentFiles
<1>2. serving.todo = <<>> /\ serving.pc = "problem" /\ serving.pc # "none" /\ What = "problem"
  BY <1>0, <1>1 DEF Loaded, Shape
<1>3. serving'.todo = <<>> /\ serving'.loaded = "no"
  BY <1>1, Records DEF AnswerWith
<1>4. FilesAge /\ Caches' /\ LowKept /\ FoundKept
  BY <1>0, <1>1, <1>2, <1>3, SameFilesAge, RestKeepsCaches, RestKeepsFound
<1>5. PICK m, what, stamp : m = serving.answer.modified /\ what = What /\ stamp = serving.stamp
  OBVIOUS
<1>6. /\ m \in Int /\ Low(what, m) /\ m >= 1 /\ m > stamp
      /\ serving.answer.doubtful = "yes" \/ ProblemFor(m)
  BY <1>0, <1>2, <1>5, Numbers DEF ServesRight
<1>7. Low(what, m)'
  BY <1>4, <1>6 DEF LowKept, Low
<1>8. PICK a \in AnswerRecords :
        /\ a.modified = serving.answer.modified /\ a.doubtful = serving.answer.doubtful
        /\ a.status = "data" /\ a.data = problem.data /\ AnswerWith(a)
  BY <1>1
<1>9. a.doubtful = "yes" \/ WillBeSeen(ProblemParts, a.data, m)
  BY <1>1, <1>2, <1>6, <1>8, LoadedIsKnown DEF ProblemFor, LoadsProblem
<1>10. ~LoadsProblem /\ \A x : ProblemFor(x) => WillBeSeen(ProblemParts, a.data, x)'
  BY <1>1, <1>2, <1>8, LoadedIsKnown DEF ProblemFor, LoadsProblem, WillBeSeen
<1>11. a.doubtful = "yes" \/ ProblemFor(m)'
  BY <1>1, <1>2, <1>3, <1>6, <1>8, <1>10 DEF ProblemFor, LoadsProblem, WillBeSeen, caches
<1>12. AnswerRight(a, what, stamp)'
  BY <1>1, <1>2, <1>5, <1>6, <1>7, <1>8, <1>9, <1>11 DEF AnswerRight, Sees, WillBeSeen, ProblemFor
<1>. QED
  BY <1>2, <1>4, <1>5, <1>8, <1>12, <1>10, AnsweringKeepsContent

LEMMA LoadThrowsKeepsContent ==
  ASSUME ContentTypes, ContentInv, LoadThrows
  PROVE  ContentInv' /\ Guarantee
<1>0. Shape /\ Caches
  BY DEF ContentInv
<1>1. UNCHANGED disk /\ serving.todo # <<>>
  BY <1>0, LoadThrowsDoes DEF contentFiles
<1>2. serving.pc # "none"
  BY <1>0, <1>1 DEF Shape
<1>3. PICK a \in AnswerRecords : a.status = "error" /\ AnswerWith(a)
  BY <1>0, LoadThrowsDoes
<1>4. FilesAge /\ Caches' /\ LowKept
  BY <1>0, <1>1, SameFilesAge, LoadThrowsKeepsCaches
<1>5. FoundKept
  <2>1. serving'.todo = <<>> /\ problem'.data = problem.data
    BY <1>0, <1>3, LoadThrowsDoes, Records DEF AnswerWith
  <2>2. LoadsProblem => problem.data = Unread
    BY <1>0 DEF Caches, ProblemLoad
  <2>. QED
    BY <1>1, <2>1, <2>2 DEF FoundKept, ProblemFor, LoadsProblem, WillBeSeen, Unread
<1>6. PICK what, stamp : what = What /\ stamp = serving.stamp
  OBVIOUS
<1>7. AnswerRight(a, what, stamp)'
  BY <1>3 DEF AnswerRight
<1>. QED
  BY <1>2, <1>3, <1>4, <1>5, <1>6, <1>7, AnsweringKeepsContent

\* The content service and the files, in one.
LEMMA ContentKeeps ==
  ASSUME ContentTypes, ContentInv, Serve \/ Expire \/ \E f \in Files : Edit(f)
  PROVE  ContentTypes' /\ ContentInv' /\ Guarantee
<1>0. Shape
  BY DEF ContentInv
<1>1. CASE Expire
  BY <1>1, ExpireDoes, ExpireKeepsContent
<1>2. CASE \E f \in Files : Edit(f)
  BY <1>2, EditDoes, EditKeepsContent
<1>3. CASE \E c \in Clients : Take(c)
  BY <1>3, TakeDoes, TakeKeepsContent
<1>4. CASE CompareModified
  BY <1>0, <1>4, CompareModifiedDoes, CompareModifiedKeepsContent
<1>5. CASE UseCourseData
  BY <1>0, <1>5, UseCourseDataDoes, UseCourseDataKeepsContent
<1>6. CASE UseProblemData
  BY <1>0, <1>6, UseProblemDataDoes, UseProblemDataKeepsContent
<1>7. CASE LoadCourse
  BY <1>0, <1>7, LoadCourseDoes, LoadCourseKeepsContent
<1>8. CASE LoadProblem
  BY <1>0, <1>8, LoadProblemDoes, LoadProblemKeepsContent
<1>9. CASE ReadTime
  BY <1>0, <1>9, ReadTimeDoes, ReadTimeKeepsContent
<1>10. CASE ReadContent
  BY <1>0, <1>10, ReadContentDoes, ReadContentKeepsContent
<1>11. CASE LoadEnds
  BY <1>0, <1>11, LoadEndsDoes, LoadEndsKeepsContent
<1>12. CASE LoadThrows
  BY <1>0, <1>12, LoadThrowsDoes, LoadThrowsKeepsContent
<1>. QED
  BY <1>1, <1>2, <1>3, <1>4, <1>5, <1>6, <1>7, <1>8, <1>9, <1>10, <1>11, <1>12 DEF Serve

-----------------------------------------------------------------------------
(* The clients of the content service *)

\* A client sends a request after the old one is done, takes an answer, or dies.
ClientsStep ==
  /\ calls' \in [Clients -> CallRecords]
  /\ \A c \in Clients :
       calls'[c] \in {calls[c], NoCall} \/ (calls'[c].pc = "sent" /\ serving.client # c)

LEMMA ClientsKeepContent ==
  ASSUME ContentTypes, ContentInv, UNCHANGED <<contentFiles, caches, serving>>, ClientsStep
  PROVE  ContentTypes' /\ ContentInv' /\ FilesAge /\ LowKept /\ FoundKept
<1>0. Shape /\ Caches /\ AnswersRight /\ ServesRight
  BY DEF ContentInv
<1>1. UNCHANGED <<disk, broken, course, problem, serving>>
  BY DEF contentFiles, caches
<1>2. ContentTypes'
  BY <1>1 DEF ContentTypes, ClientsStep
<1>3. /\ LoadsCourse' = LoadsCourse /\ LoadsProblem' = LoadsProblem
      /\ What' = What /\ WantsCourse' = WantsCourse
      /\ CourseUsable' = CourseUsable /\ ProblemUsable' = ProblemUsable
      /\ \A x : StillToDo(x)' = StillToDo(x)
      /\ \A files, x : IsPast(files, x)' = IsPast(files, x) /\ IsAwaited(files, x)' = IsAwaited(files, x)
      /\ \A parts : ReadSoFar(parts)' = ReadSoFar(parts)
  BY <1>1 DEF LoadsCourse, LoadsProblem, What, WantsCourse, CourseUsable, ProblemUsable,
              RequiresToReload, StillToDo, IsPast, IsAwaited, ReadSoFar
<1>4. FilesAge
  BY <1>1, SameFilesAge
<1>5. ASSUME NEW x \in Int
      PROVE  LowCourse(x)' = LowCourse(x) /\ LowProblem(x)' = LowProblem(x)
  BY <1>1, <1>3 DEF LowCourse, LowProblem
<1>6. LowKept /\ FoundKept
  BY <1>1, <1>3, <1>5 DEF LowKept, FoundKept, ProblemFor, WillBeSeen
<1>7. Caches'
  <2>1. CourseKept' /\ ProblemKept'
    BY <1>0, <1>1, <1>3 DEF Caches, CourseKept, ProblemKept, Sees, WillBeSeen
  <2>2. \A parts, m : Reading(parts, m)' = Reading(parts, m)
    BY <1>1, <1>3 DEF Reading, Overlooked
  <2>3. CourseLoad' /\ ProblemLoad'
    BY <1>0, <1>1, <1>3, <2>2 DEF Caches, CourseLoad, ProblemLoad
  <2>. QED
    BY <1>0, <1>5, <2>1, <2>3 DEF Caches
<1>8. NoCall.pc = "none"
  BY DEF NoCall
<1>9. Shape'
  <2>1. ASSUME serving.pc # "none"
        PROVE  /\ calls'[serving.client].pc \in {"none", "sent"}
               /\ calls'[serving.client].pc = "sent" =>
                    calls'[serving.client] = calls[serving.client]
    <3>1. serving.client \in Clients /\ calls[serving.client].pc \in {"none", "sent"}
      BY <1>0, <2>1 DEF Shape
    <3>2. calls'[serving.client] \in {calls[serving.client], NoCall}
      BY <3>1 DEF ClientsStep
    <3>. QED
      BY <1>8, <3>1, <3>2
  <2>. QED
    BY <1>0, <1>1, <1>3, <2>1 DEF Shape, EndsOnce
<1>10. AnswersRight'
  <2>. SUFFICES ASSUME NEW c \in Clients, calls'[c].pc = "answered"
                PROVE  AnswerRight(calls[c].answer, calls[c].what, calls[c].stamp)'
    BY DEF AnswersRight
  <2>1. calls'[c] = calls[c]
    BY <1>8 DEF ClientsStep
  <2>. QED
    BY <1>0, <1>4, <1>6, <2>1, OldAnswerStaysRight
<1>11. ServesRight'
  <2>1. serving.answer.modified \in Int
    BY Numbers
  <2>2. Low(What, serving.answer.modified)' = Low(What, serving.answer.modified)
    BY <1>1, <1>3, <1>5, <2>1 DEF Low
  <2>3. /\ CourseFor(serving.answer.modified)' = CourseFor(serving.answer.modified)
        /\ ProblemFor(serving.answer.modified)' = ProblemFor(serving.answer.modified)
    BY <1>1, <1>3 DEF CourseFor, ProblemFor, WillBeSeen
  <2>. QED
    BY <1>0, <1>1, <1>3, <2>2, <2>3 DEF ServesRight
<1>. QED
  BY <1>2, <1>4, <1>6, <1>7, <1>9, <1>10, <1>11 DEF ContentInv

\* A request that was just sent has no answer yet.
LEMMA RequestDoes ==
  ASSUME ContentTypes, NEW c \in Clients, NEW what \in YamlFiles, NEW stamp \in Int,
         Request(c, what, stamp)
  PROVE  /\ ClientsStep /\ calls'[c].pc = "sent" /\ calls'[c].what = what
         /\ calls'[c].stamp = stamp
         /\ \A d \in Clients \ {c} : calls'[d] = calls[d]
         /\ serving.client # c
<1>1. PICK rec : rec = [NoCall EXCEPT !.pc = "sent", !.what = what, !.stamp = stamp]
  OBVIOUS
<1>2. NoCall \in CallRecords
  BY Records
<1>3. rec \in CallRecords /\ rec.pc = "sent" /\ rec.what = what /\ rec.stamp = stamp
  BY <1>1, <1>2 DEF CallRecords
<1>4. calls \in [Clients -> CallRecords] /\ calls' = [calls EXCEPT ![c] = rec] /\ serving.client # c
  BY <1>1 DEF ContentTypes, Request
<1>. QED
  BY <1>3, <1>4 DEF ClientsStep

LEMMA TakeAnswerDoes ==
  ASSUME ContentTypes, NEW c \in Clients, TakeAnswer(c)
  PROVE  /\ ClientsStep /\ calls'[c] = NoCall
         /\ \A d \in Clients \ {c} : calls'[d] = calls[d]
<1>1. calls \in [Clients -> CallRecords] /\ calls' = [calls EXCEPT ![c] = NoCall]
  BY DEF ContentTypes, TakeAnswer
<1>2. NoCall \in CallRecords
  BY Records
<1>. QED
  BY <1>1, <1>2 DEF ClientsStep

-----------------------------------------------------------------------------
(* The problem loader *)

LoaderRecords ==
  [pc : {"idle", "loaded"} \cup LoadPlaces, response : AnswerRecords, compiled : {"no", "yes"}]
Directories ==
  [stamp : Nat \cup {Null}, public : Nat, private : Nat, source : Nat, binary : Nat, plain : Nat,
   named : Nat, tests : Nat, args : Nat]

LoaderTypes ==
  directory \in Directories /\ loader \in LoaderRecords /\ loaded \in LoaderRecords

Writes == loader.pc \in {"build", "programs", "options", "tests", "stamp"}

\* The directory is as the last load that was not left half way has left it.
Whole ==
  LET data == loaded.response.data IN
  /\ loaded # NoLoader /\ directory.stamp = loaded.response.modified
  /\ directory.public = data["template"] /\ directory.tests = data["tests"]
  /\ directory.private = data["options"] /\ directory.plain = data["options"]
  /\ HasProgram(data) =>
       /\ directory.source = data["options"] /\ directory.named = data["options"]
       /\ directory.binary = data["options"] \/ loaded.compiled = "no"
  /\ HasArguments(data) => directory.args = data["tests"]

\* What the load under way has written.
Written ==
  /\ loader.pc \in {"programs", "options", "tests", "stamp"} =>
       /\ directory.public = Data["template"] /\ directory.private = Data["options"]
       /\ HasProgram(Data) => directory.source = Data["options"]
  /\ loader.pc \in {"options", "tests", "stamp"} =>
       (HasProgram(Data) => directory.binary = Data["options"] \/ loader.compiled = "no")
  /\ loader.pc \in {"tests", "stamp"} =>
       /\ directory.plain = Data["options"]
       /\ HasProgram(Data) => directory.named = Data["options"]
  /\ loader.pc = "stamp" =>
       /\ directory.tests = Data["tests"]
       /\ HasArguments(Data) => directory.args = Data["tests"]

Asked ==
  loader.pc = "request" =>
    /\ calls[Grader].pc # "none" /\ calls[Grader].what = "problem"
    /\ calls[Grader].stamp = directory.stamp

\* The next answer has all of the problem if the directory is not whole.
Promised ==
  /\ Whole \/ LowProblem(directory.stamp + 1)
  /\ loader.pc = "request" => Whole \/ AtLeast(Grader, directory.stamp + 1)
  /\ Writes => LowProblem(loader.response.modified) /\ loader.response.modified > directory.stamp
  /\ loader.pc = "loaded" => Whole

\* What is in the directory and what may still come to it has each change up to
\* the time of the version that was loaded last, and of the one that is loaded.
InDirectory(m) ==
  /\ Finds(directory.private, "problem", m) /\ Finds(directory.plain, "problem", m)
  /\ Finds(directory.tests, "tests", m)

LoadedKnown ==
  loaded # NoLoader =>
    /\ directory.stamp \in {loaded.response.modified, Null}
    /\ loaded.response.modified <= LastEdit
    /\ loaded.response.doubtful = "no" =>
         /\ ProblemFor(loaded.response.modified) /\ InDirectory(loaded.response.modified)
         /\ WillBeSeen(ProblemParts, loaded.response.data, loaded.response.modified)
         /\ Writes => WillBeSeen(ProblemParts, Data, loaded.response.modified)
         /\ loader.pc = "request" => DataFor(Grader, loaded.response.modified)

LoadingKnown ==
  Writes /\ loader.response.doubtful = "no" =>
    /\ ProblemFor(loader.response.modified)
    /\ WillBeSeen(ProblemParts, Data, loader.response.modified)

LoaderInv == Asked /\ Written /\ Promised /\ LoadedKnown /\ LoadingKnown

LEMMA LowProblemBelow ==
  ASSUME ContentTypes, NEW x \in Int, NEW y \in Int, LowProblem(x), y <= x
  PROVE  LowProblem(y)
<1>1. \A f \in ProblemFiles : disk[f] \in Nat
  BY Numbers, PartsAreOfFiles
<1>2. IsPast(ProblemFiles, y) /\ (IsAwaited(ProblemFiles, x) => IsAwaited(ProblemFiles, y))
  BY <1>1 DEF LowProblem, IsPast, IsAwaited
<1>. QED
  BY <1>2, Numbers DEF LowProblem

LEMMA FindsAges ==
  ASSUME FilesAge, NEW v \in Nat, NEW f \in Files, NEW m \in Int, m <= LastEdit, Finds(v, f, m)
  PROVE  Finds(v, f, m)'
<1>. PICK data : data = [p \in Parts |-> v]
  OBVIOUS
<1>1. data \in Times /\ {f} \in SUBSET Parts /\ data[f] = v /\ FileOf(f) = f
  BY DEF Times, Parts, FileOf, Files
<1>2. WillBeSeen({f}, data, m)
  BY <1>1 DEF WillBeSeen, Finds
<1>3. WillBeSeen({f}, data, m)'
  BY <1>1, <1>2 DEF FilesAge
<1>. QED
  BY <1>1, <1>3 DEF WillBeSeen, Finds

LEMMA LoaderNumbers ==
  ASSUME LoaderTypes
  PROVE  /\ directory.stamp \in Int /\ directory.stamp + 1 \in Int
         /\ directory.private \in Nat /\ directory.plain \in Nat /\ directory.tests \in Nat
         /\ loaded.response \in AnswerRecords /\ loaded.response.modified \in Int
         /\ loaded.response.data \in Times
         /\ loader.response \in AnswerRecords /\ loader.response.modified \in Int /\ Data \in Times
<1>1. loaded.response \in AnswerRecords /\ loader.response \in AnswerRecords
  BY DEF LoaderTypes, LoaderRecords
<1>2. directory.stamp \in Int /\ directory.private \in Nat /\ directory.plain \in Nat /\ directory.tests \in Nat
  BY DEF LoaderTypes, Directories, Null
<1>. QED
  BY <1>1, <1>2 DEF AnswerRecords, Data

\* The content service answers, files are edited.
LEMMA ContentKeepsLoader ==
  ASSUME ContentTypes, ContentTypes', LoaderTypes, LoaderInv, Guarantee, Grader \in Clients,
         UNCHANGED <<directory, loader, loaded>>
  PROVE  LoaderInv'
<1>. PICK x, m, l : x = directory.stamp + 1 /\ m = loader.response.modified /\ l = loaded.response.modified
  OBVIOUS
<1>0. x \in Int /\ m \in Int /\ l \in Int
  BY LoaderNumbers
<1>1. LastEdit \in Nat /\ LastEdit' \in Nat /\ LastEdit <= LastEdit'
  <2>1. /\ disk'["course"] \in Nat /\ disk'["problem"] \in Nat
        /\ disk'["template"] \in Nat /\ disk'["tests"] \in Nat
    BY DEF ContentTypes, Files
  <2>2. LastEdit' \in Nat
    BY <2>1, LatestOfAll DEF LastEdit
  <2>. QED
    BY <2>2, LastIs DEF Guarantee, FilesAge
<1>2. ASSUME NEW y \in Int, LowProblem(y) PROVE LowProblem(y)' /\ y <= LastEdit
  <2>1. Low("problem", y)
    BY <1>2 DEF Low
  <2>. QED
    BY <1>2, <2>1, LowIsPast DEF Guarantee, LowKept
<1>3. \/ calls'[Grader] = calls[Grader]
      \/ /\ calls[Grader].pc = "sent" /\ calls'[Grader].pc = "answered"
         /\ calls'[Grader].what = calls[Grader].what /\ calls'[Grader].stamp = calls[Grader].stamp
  BY DEF Guarantee, OnlyAnswers
<1>4. Whole' <=> Whole
  BY DEF Whole, HasProgram, HasArguments
<1>5. Asked' /\ Written'
  BY <1>3 DEF LoaderInv, Asked, Written, Data, HasProgram, HasArguments
<1>6. Promised'
  <2>1. Whole \/ LowProblem(x)'
    BY <1>0, <1>2 DEF LoaderInv, Promised
  <2>2. ASSUME loader.pc = "request", ~Whole PROVE AtLeast(Grader, x)'
    <3>1. AtLeast(Grader, x) /\ calls[Grader].what = "problem" /\ LowProblem(x)
      BY <2>2 DEF LoaderInv, Promised, Asked
    <3>. QED
      BY <1>0, <3>1 DEF Guarantee, BoundsKept, Low
  <2>3. Writes => LowProblem(m)' /\ m > directory.stamp
    BY <1>0, <1>2 DEF LoaderInv, Promised
  <2>4. /\ LowProblem(x)' => LowProblem(directory.stamp + 1)'
        /\ AtLeast(Grader, x)' => AtLeast(Grader, directory.stamp + 1)'
        /\ LowProblem(m)' => LowProblem(loader.response.modified)'
    BY DEF LowProblem, AtLeast, IsPast, IsAwaited
  <2>. QED
    BY <1>4, <2>1, <2>2, <2>3, <2>4 DEF LoaderInv, Promised, Writes
<1>7. ASSUME NEW data \in Times, NEW y \in Int, y <= LastEdit, WillBeSeen(ProblemParts, data, y)
      PROVE  WillBeSeen(ProblemParts, data, y)'
  BY <1>7, PartsAreOfFiles DEF Guarantee, FilesAge
<1>8. ASSUME NEW y \in Int, y <= LastEdit, ProblemFor(y) PROVE ProblemFor(y)'
  BY <1>8 DEF Guarantee, FoundKept
<1>. PICK old, new : old = loaded.response.data /\ new = Data
  OBVIOUS
<1>9. old \in Times /\ new \in Times /\ Data' = Data
  BY LoaderNumbers DEF Data
<1>10. LoadedKnown'
  <2>. SUFFICES ASSUME loaded # NoLoader PROVE LoadedKnown'
    BY DEF LoadedKnown
  <2>1. directory.stamp \in {l, Null} /\ l <= LastEdit /\ l <= LastEdit'
    BY <1>0, <1>1 DEF LoaderInv, LoadedKnown
  <2>2. ASSUME loaded.response.doubtful = "no"
        PROVE  /\ ProblemFor(l)' /\ InDirectory(l)' /\ WillBeSeen(ProblemParts, old, l)'
               /\ Writes => WillBeSeen(ProblemParts, new, l)'
               /\ loader.pc = "request" => DataFor(Grader, l)'
    <3>1. /\ ProblemFor(l) /\ InDirectory(l) /\ WillBeSeen(ProblemParts, old, l)
          /\ Writes => WillBeSeen(ProblemParts, new, l)
          /\ loader.pc = "request" => DataFor(Grader, l) /\ calls[Grader].what = "problem"
      BY <2>2 DEF LoaderInv, LoadedKnown, Asked
    <3>2. ProblemFor(l)' /\ WillBeSeen(ProblemParts, old, l)'
      BY <1>0, <1>7, <1>8, <1>9, <2>1, <3>1
    <3>3. Writes => WillBeSeen(ProblemParts, new, l)'
      BY <1>0, <1>7, <1>9, <2>1, <3>1
    <3>4. loader.pc = "request" => DataFor(Grader, l)'
      BY <1>0, <2>1, <3>1 DEF Guarantee, DataKept
    <3>5. InDirectory(l)'
      <4>. PICK a, b, c : a = directory.private /\ b = directory.plain /\ c = directory.tests
        OBVIOUS
      <4>1. Finds(a, "problem", l) /\ Finds(b, "problem", l) /\ Finds(c, "tests", l)
        BY <3>1 DEF InDirectory
      <4>2. a \in Nat /\ b \in Nat /\ c \in Nat /\ "problem" \in Files /\ "tests" \in Files
        BY LoaderNumbers DEF Files
      <4>3. Finds(a, "problem", l)' /\ Finds(b, "problem", l)' /\ Finds(c, "tests", l)'
        BY <1>0, <2>1, <4>1, <4>2, FindsAges DEF Guarantee
      <4>. QED
        BY <4>3 DEF InDirectory, Finds
    <3>. QED
      BY <3>2, <3>3, <3>4, <3>5
  <2>3. /\ ProblemFor(l)' => ProblemFor(loaded.response.modified)'
        /\ InDirectory(l)' => InDirectory(loaded.response.modified)'
        /\ WillBeSeen(ProblemParts, old, l)' =>
             WillBeSeen(ProblemParts, loaded.response.data, loaded.response.modified)'
        /\ WillBeSeen(ProblemParts, new, l)' =>
             WillBeSeen(ProblemParts, Data, loaded.response.modified)'
        /\ DataFor(Grader, l)' => DataFor(Grader, loaded.response.modified)'
    BY <1>9 DEF ProblemFor, InDirectory, Finds, WillBeSeen, DataFor
  <2>. QED
    BY <2>1, <2>2, <2>3 DEF LoadedKnown, Writes
<1>11. LoadingKnown'
  <2>. SUFFICES ASSUME Writes, loader.response.doubtful = "no" PROVE LoadingKnown'
    BY DEF LoadingKnown, Writes
  <2>1. ProblemFor(m) /\ WillBeSeen(ProblemParts, new, m) /\ m <= LastEdit
    BY <1>0, <1>2 DEF LoaderInv, LoadingKnown, Promised
  <2>2. ProblemFor(m)' /\ WillBeSeen(ProblemParts, new, m)'
    BY <1>0, <1>7, <1>8, <1>9, <2>1
  <2>. QED
    BY <1>9, <2>2 DEF LoadingKnown, ProblemFor, WillBeSeen
<1>. QED
  BY <1>5, <1>6, <1>10, <1>11 DEF LoaderInv

\* What is not changed by a step that leaves the content service alone.
LEMMA SameBounds ==
  ASSUME UNCHANGED own
  PROVE  /\ \A x : LowProblem(x)' <=> LowProblem(x)
         /\ \A x : LowCourse(x)' <=> LowCourse(x)
         /\ \A v, f, m : Finds(v, f, m)' <=> Finds(v, f, m)
         /\ \A parts, data, m : WillBeSeen(parts, data, m)' <=> WillBeSeen(parts, data, m)
         /\ \A m : ProblemFor(m)' <=> ProblemFor(m)
         /\ LastEdit' = LastEdit
<1>1. UNCHANGED <<disk, course, problem, serving>>
  BY DEF own, contentFiles, caches
<1>2. /\ LoadsCourse' = LoadsCourse /\ LoadsProblem' = LoadsProblem /\ LastEdit' = LastEdit
      /\ CourseUsable' = CourseUsable /\ ProblemUsable' = ProblemUsable
      /\ \A files, x : IsPast(files, x)' = IsPast(files, x) /\ IsAwaited(files, x)' = IsAwaited(files, x)
      /\ \A parts : ReadSoFar(parts)' = ReadSoFar(parts)
  BY <1>1 DEF LoadsCourse, LoadsProblem, LastEdit, CourseUsable, ProblemUsable, WantsCourse, What,
              RequiresToReload, IsPast, IsAwaited, StillToDo, ReadSoFar
<1>3. \A x : LowProblem(x)' <=> LowProblem(x)
  BY <1>1, <1>2 DEF LowProblem
<1>4. \A x : LowCourse(x)' <=> LowCourse(x)
  BY <1>1, <1>2 DEF LowCourse
<1>5. \A v, f, m : Finds(v, f, m)' <=> Finds(v, f, m)
  BY <1>1 DEF Finds
<1>6. \A parts, data, m : WillBeSeen(parts, data, m)' <=> WillBeSeen(parts, data, m)
  BY <1>1 DEF WillBeSeen
<1>7. \A m : ProblemFor(m)' <=> ProblemFor(m)
  BY <1>1, <1>2, <1>6 DEF ProblemFor
<1>. QED
  BY <1>2, <1>3, <1>4, <1>5, <1>6, <1>7

\* Steps of other clients leave the call of the grader alone.
LEMMA OthersKeepLoader ==
  ASSUME LoaderTypes, LoaderInv, UNCHANGED <<own, directory, loader, loaded>>,
         calls'[Grader] = calls[Grader]
  PROVE  LoaderInv'
<1>0. UNCHANGED serving /\ UNCHANGED own
  BY DEF own
<1>1. Whole' = Whole /\ Data' = Data /\ Writes' = Writes
  BY DEF Whole, HasProgram, HasArguments, Data, Writes
<1>2. /\ \A x : AtLeast(Grader, x)' = AtLeast(Grader, x)
      /\ \A m : DataFor(Grader, m)' = DataFor(Grader, m)
  BY <1>0, SameBounds DEF AtLeast, HasAnswer, Serves, DataFor
<1>3. Asked' /\ Written'
  BY <1>1 DEF LoaderInv, Asked, Written, HasProgram, HasArguments
<1>4. Promised'
  BY <1>0, <1>1, <1>2, SameBounds DEF LoaderInv, Promised
<1>5. LoadedKnown' /\ LoadingKnown'
  BY <1>0, <1>1, <1>2, SameBounds DEF LoaderInv, LoadedKnown, LoadingKnown, InDirectory
<1>. QED
  BY <1>3, <1>4, <1>5 DEF LoaderInv

LEMMA LoadProblemDataKeeps ==
  ASSUME ContentTypes, LoaderTypes, LoaderInv, Grader \in Clients, LoadProblemData, UNCHANGED own
  PROVE  LoaderTypes' /\ LoaderInv' /\ ClientsStep
         /\ \A c \in Clients \ {Grader} : calls'[c] = calls[c]
<1>1. /\ loader.pc = "idle" /\ UNCHANGED <<directory, loaded>>
      /\ loader' = [NoLoader EXCEPT !.pc = "request"]
      /\ Request(Grader, "problem", directory.stamp)
  BY DEF LoadProblemData
<1>2. /\ ClientsStep /\ calls'[Grader].pc = "sent" /\ calls'[Grader].what = "problem"
      /\ calls'[Grader].stamp = directory.stamp
      /\ \A d \in Clients \ {Grader} : calls'[d] = calls[d]
      /\ serving.client # Grader
  BY <1>1, RequestDoes, LoaderNumbers DEF YamlFiles
<1>3. loader' \in LoaderRecords /\ loader'.pc = "request"
  <2>1. NoLoader \in LoaderRecords
    BY Records DEF NoLoader, LoaderRecords
  <2>. QED
    BY <1>1, <2>1 DEF LoaderRecords, LoadPlaces
<1>4. Whole' = Whole /\ ~Writes'
  BY <1>1, <1>3 DEF Whole, HasProgram, HasArguments, Writes
<1>5. Asked' /\ Written'
  BY <1>1, <1>2, <1>3 DEF Asked, Written
<1>6. Promised'
  <2>1. AtLeast(Grader, directory.stamp + 1)'
    <3>1. serving' = serving
      BY DEF own
    <3>. QED
      BY <1>2, <3>1 DEF AtLeast, HasAnswer, Serves
  <2>. QED
    BY <1>1, <1>3, <1>4, <2>1, SameBounds DEF LoaderInv, Promised
<1>7. LoadedKnown' /\ LoadingKnown'
  BY <1>1, <1>2, <1>3, <1>4, SameBounds DEF LoaderInv, LoadedKnown, LoadingKnown, InDirectory, DataFor
<1>. QED
  BY <1>1, <1>2, <1>3, <1>5, <1>6, <1>7 DEF LoaderInv, LoaderTypes

LEMMA GotProblemKeeps ==
  ASSUME ContentTypes, AnswersRight, LoaderTypes, LoaderInv, Grader \in Clients, GotProblem,
         UNCHANGED own
  PROVE  LoaderTypes' /\ LoaderInv' /\ ClientsStep
         /\ \A c \in Clients \ {Grader} : calls'[c] = calls[c]
<1>. PICK a : a = Answer(Grader)
  OBVIOUS
<1>1. /\ loader.pc = "request" /\ calls[Grader].pc = "answered" /\ a = calls[Grader].answer
      /\ UNCHANGED <<directory, loaded>>
  BY DEF GotProblem, Answered, Answer
<1>2. ClientsStep /\ \A d \in Clients \ {Grader} : calls'[d] = calls[d]
  BY TakeAnswerDoes DEF GotProblem
<1>3. /\ AnswerRight(a, "problem", directory.stamp) /\ a \in AnswerRecords
      /\ Whole \/ AtLeast(Grader, directory.stamp + 1)
  <2>1. calls[Grader].what = "problem" /\ calls[Grader].stamp = directory.stamp
    BY <1>1 DEF LoaderInv, Asked
  <2>2. a \in AnswerRecords
    BY <1>1 DEF ContentTypes, CallRecords
  <2>. QED
    BY <1>1, <2>1, <2>2 DEF AnswersRight, LoaderInv, Promised
<1>. PICK pc : pc = CASE Answer(Grader).status = "data" -> "build"
                      [] Answer(Grader).status = "same" -> "loaded"
                      [] Answer(Grader).status = "error" -> "idle"
  OBVIOUS
<1>4. /\ a.status = "data" => pc = "build"
      /\ a.status = "same" => pc = "loaded"
      /\ a.status = "error" => pc = "idle"
      /\ a.status \in {"data", "same", "error"}
  BY <1>3 DEF AnswerRight
<1>5. loader' \in LoaderRecords /\ loader'.pc = pc /\ loader'.response = a
  <2>1. loader' = [loader EXCEPT !.response = a, !.pc = pc]
    BY Zenon DEF GotProblem
  <2>2. pc \in {"idle", "loaded"} \cup LoadPlaces
    BY <1>4 DEF LoadPlaces
  <2>. QED
    BY <1>3, <2>1, <2>2 DEF LoaderTypes, LoaderRecords
<1>6. Whole' = Whole /\ (Writes' <=> a.status = "data") /\ Data' = a.data
  BY <1>1, <1>4, <1>5 DEF Whole, HasProgram, HasArguments, Writes, Data
<1>7. a.status = "same" => Whole
  <2>1. SUFFICES ASSUME a.status = "same", ~Whole PROVE FALSE
    OBVIOUS
  <2>2. HasAnswer(Grader) /\ AtLeast(Grader, directory.stamp + 1)
    BY <1>1, <1>3, <2>1 DEF HasAnswer
  <2>3. directory.stamp + 1 <= a.modified
    BY <1>1, <2>2 DEF AtLeast
  <2>4. a.modified <= directory.stamp
    BY <1>3, <2>1 DEF AnswerRight
  <2>5. a.modified \in Int /\ directory.stamp \in Int
    BY <1>3, LoaderNumbers DEF AnswerRecords
  <2>. QED
    BY <2>3, <2>4, <2>5
<1>8. Asked' /\ Written'
  BY <1>4, <1>5 DEF Asked, Written
<1>9. a.status = "data" => /\ LowProblem(a.modified) /\ a.modified > directory.stamp
                           /\ Sees(ProblemParts, a.data, a.modified, a.doubtful)
                           /\ a.doubtful = "yes" \/ ProblemFor(a.modified)
  BY <1>3 DEF AnswerRight, Low
<1>10. Promised'
  BY <1>1, <1>4, <1>5, <1>6, <1>7, <1>9, SameBounds DEF LoaderInv, Promised
<1>11. LoadedKnown'
  <2>1. \A m : DataFor(Grader, m) /\ a.status = "data" => WillBeSeen(ProblemParts, a.data, m)
    BY <1>1 DEF DataFor
  <2>. QED
    BY <1>1, <1>4, <1>5, <1>6, <2>1, SameBounds DEF LoaderInv, LoadedKnown, InDirectory
<1>12. LoadingKnown'
  BY <1>5, <1>6, <1>9, SameBounds DEF LoadingKnown, Sees
<1>. QED
  BY <1>1, <1>2, <1>5, <1>8, <1>10, <1>11, <1>12 DEF LoaderInv, LoaderTypes

LEMMA NoCalls ==
  ASSUME ContentTypes, UNCHANGED calls
  PROVE  ClientsStep
BY DEF ContentTypes, ClientsStep

\* The load under way goes on to its next place, or ends in the middle.
LEMMA LoadGoesOn ==
  ASSUME ContentTypes, LoaderTypes, LoaderInv, Writes, UNCHANGED <<own, calls, loaded>>,
         loader' \in LoaderRecords, loader'.response = loader.response,
         loader'.pc \in {"idle", "programs", "options", "tests", "stamp"},
         directory' \in Directories, directory'.stamp = directory.stamp,
         directory'.private \in {directory.private, Data["options"]},
         directory'.plain \in {directory.plain, Data["options"]},
         directory'.tests \in {directory.tests, Data["tests"]},
         Written'
  PROVE  LoaderTypes' /\ LoaderInv' /\ ClientsStep
<1>1. LoaderTypes' /\ ClientsStep
  BY NoCalls DEF LoaderTypes
<1>2. Asked'
  BY DEF Asked
<1>. PICK m, s : m = loader.response.modified /\ s = directory.stamp
  OBVIOUS
<1>3. m \in Int /\ s \in Int /\ s + 1 \in Int /\ LowProblem(m) /\ m > s
  BY LoaderNumbers DEF LoaderInv, Promised
<1>4. Promised'
  <2>1. s + 1 <= m
    BY <1>3
  <2>2. LowProblem(s + 1)
    BY <1>3, <2>1, LowProblemBelow
  <2>. QED
    BY <1>3, <2>2, SameBounds DEF Promised
<1>5. Data' = Data
  BY DEF Data
<1>6. LoadedKnown'
  <2>. SUFFICES ASSUME loaded # NoLoader PROVE LoadedKnown'
    BY DEF LoadedKnown
  <2>. PICK l : l = loaded.response.modified
    OBVIOUS
  <2>1. ASSUME loaded.response.doubtful = "no" PROVE InDirectory(l)'
    <3>1. InDirectory(l) /\ WillBeSeen(ProblemParts, Data, l)
      BY <2>1 DEF LoaderInv, LoadedKnown
    <3>2. Finds(Data["options"], "problem", l) /\ Finds(Data["tests"], "tests", l)
      BY <3>1 DEF WillBeSeen, Finds, ProblemParts, FileOf
    <3>. QED
      BY <3>1, <3>2, SameBounds DEF InDirectory
  <2>2. InDirectory(l)' => InDirectory(loaded.response.modified)'
    BY DEF InDirectory, Finds
  <2>. QED
    BY <1>5, <2>1, <2>2, SameBounds DEF LoaderInv, LoadedKnown
<1>7. LoadingKnown'
  BY <1>5, SameBounds DEF LoaderInv, LoadingKnown
<1>. QED
  BY <1>1, <1>2, <1>4, <1>6, <1>7 DEF LoaderInv

LEMMA GoesToDoes ==
  ASSUME LoaderTypes, NEW pc \in {"idle", "loaded"} \cup LoadPlaces, GoesTo(pc)
  PROVE  /\ loader' \in LoaderRecords /\ loader'.pc = pc /\ loader'.response = loader.response
         /\ loader'.compiled = loader.compiled /\ Data' = Data
BY DEF LoaderTypes, LoaderRecords, GoesTo, Data

LEMMA SaveBuildFilesKeeps ==
  ASSUME ContentTypes, LoaderTypes, LoaderInv, SaveBuildFiles, UNCHANGED own
  PROVE  LoaderTypes' /\ LoaderInv' /\ ClientsStep /\ UNCHANGED calls
<1>. PICK pc : pc = IF HasProgram(Data) THEN "programs" ELSE "options"
  OBVIOUS
<1>. PICK source : source = IF HasProgram(Data) THEN Data["options"] ELSE directory.source
  OBVIOUS
<1>1. /\ loader.pc = "build" /\ GoesTo(pc) /\ UNCHANGED <<calls, loaded>>
      /\ directory' = [directory EXCEPT !.public = Data["template"], !.private = Data["options"],
                                        !.source = source]
  BY DEF SaveBuildFiles, WithBuildFiles
<1>2. /\ loader' \in LoaderRecords /\ loader'.pc = pc /\ loader'.response = loader.response
      /\ Data' = Data
  BY <1>1, GoesToDoes DEF LoadPlaces
<1>3. Data["options"] \in Nat /\ Data["template"] \in Nat
  BY LoaderNumbers DEF Times, Parts, Files
<1>4. /\ directory' \in Directories /\ directory'.stamp = directory.stamp
      /\ directory'.public = Data["template"] /\ directory'.private = Data["options"]
      /\ directory'.source = source
      /\ directory'.plain = directory.plain /\ directory'.tests = directory.tests
  BY <1>1, <1>3 DEF LoaderTypes, Directories
<1>5. Writes
  BY <1>1 DEF Writes
<1>6. Written'
  BY <1>2, <1>4 DEF Written, HasProgram
<1>. QED
  BY <1>1, <1>2, <1>4, <1>5, <1>6, LoadGoesOn

LEMMA BuildSupplementaryProgramKeeps ==
  ASSUME ContentTypes, LoaderTypes, LoaderInv, BuildSupplementaryProgram, UNCHANGED own
  PROVE  LoaderTypes' /\ LoaderInv' /\ ClientsStep /\ UNCHANGED calls
<1>1. loader.pc = "programs" /\ UNCHANGED <<calls, loaded>>
  BY DEF BuildSupplementaryProgram
<1>2. /\ Writes /\ directory.public = Data["template"] /\ directory.private = Data["options"]
      /\ HasProgram(Data) => directory.source = Data["options"]
  BY <1>1 DEF Writes, LoaderInv, Written
<1>3. CASE directory' = [directory EXCEPT !.binary = directory.source] /\ GoesTo("options")
  <2>1. /\ loader' \in LoaderRecords /\ loader'.pc = "options"
        /\ loader'.response = loader.response /\ Data' = Data
    BY <1>3, GoesToDoes DEF LoadPlaces
  <2>2. /\ directory' \in Directories /\ directory'.stamp = directory.stamp
        /\ directory'.public = directory.public /\ directory'.private = directory.private
        /\ directory'.source = directory.source /\ directory'.binary = directory.source
        /\ directory'.plain = directory.plain /\ directory'.tests = directory.tests
    BY <1>3 DEF LoaderTypes, Directories
  <2>3. Written'
    BY <1>2, <2>1, <2>2 DEF Written, HasProgram
  <2>. QED
    BY <1>1, <1>2, <2>1, <2>2, <2>3, LoadGoesOn
<1>4. CASE /\ UNCHANGED directory
           /\ loader' = [loader EXCEPT !.pc = IF directory.binary = 0 THEN "idle" ELSE "options",
                                       !.compiled = "no"]
  <2>1. /\ loader' \in LoaderRecords /\ loader'.pc \in {"idle", "options"}
        /\ loader'.response = loader.response /\ loader'.compiled = "no" /\ Data' = Data
    BY <1>4 DEF LoaderTypes, LoaderRecords, LoadPlaces, Data
  <2>2. Written'
    BY <1>2, <1>4, <2>1 DEF Written, HasProgram
  <2>. QED
    BY <1>1, <1>2, <1>4, <2>1, <2>2, LoadGoesOn DEF LoaderTypes
<1>. QED
  BY <1>3, <1>4 DEF BuildSupplementaryProgram

LEMMA SaveToPlainFilesKeeps ==
  ASSUME ContentTypes, LoaderTypes, LoaderInv, SaveToPlainFiles, UNCHANGED own
  PROVE  LoaderTypes' /\ LoaderInv' /\ ClientsStep /\ UNCHANGED calls
<1>. PICK named : named = IF HasProgram(Data) THEN Data["options"] ELSE directory.named
  OBVIOUS
<1>1. /\ loader.pc = "options" /\ GoesTo("tests") /\ UNCHANGED <<calls, loaded>>
      /\ directory' = [directory EXCEPT !.plain = Data["options"], !.named = named]
  BY DEF SaveToPlainFiles
<1>2. /\ loader' \in LoaderRecords /\ loader'.pc = "tests" /\ loader'.response = loader.response
      /\ loader'.compiled = loader.compiled /\ Data' = Data
  BY <1>1, GoesToDoes DEF LoadPlaces
<1>3. Data["options"] \in Nat
  BY LoaderNumbers DEF Times, Parts
<1>4. /\ directory' \in Directories /\ directory'.stamp = directory.stamp
      /\ directory'.public = directory.public /\ directory'.private = directory.private
      /\ directory'.source = directory.source /\ directory'.binary = directory.binary
      /\ directory'.plain = Data["options"] /\ directory'.named = named
      /\ directory'.tests = directory.tests
  BY <1>1, <1>3 DEF LoaderTypes, Directories
<1>5. Writes /\ Written
  BY <1>1 DEF Writes, LoaderInv
<1>6. Written'
  BY <1>1, <1>2, <1>4, <1>5 DEF Written, HasProgram
<1>. QED
  BY <1>1, <1>2, <1>4, <1>5, <1>6, LoadGoesOn

LEMMA SaveTestsKeeps ==
  ASSUME ContentTypes, LoaderTypes, LoaderInv, SaveTests, UNCHANGED own
  PROVE  LoaderTypes' /\ LoaderInv' /\ ClientsStep /\ UNCHANGED calls
<1>. PICK args : args = IF HasArguments(Data) THEN Data["tests"] ELSE directory.args
  OBVIOUS
<1>1. /\ loader.pc = "tests" /\ GoesTo("stamp") /\ UNCHANGED <<calls, loaded>>
      /\ directory' = [directory EXCEPT !.tests = Data["tests"], !.args = args]
  BY DEF SaveTests
<1>2. /\ loader' \in LoaderRecords /\ loader'.pc = "stamp" /\ loader'.response = loader.response
      /\ loader'.compiled = loader.compiled /\ Data' = Data
  BY <1>1, GoesToDoes DEF LoadPlaces
<1>3. Data["tests"] \in Nat
  BY LoaderNumbers DEF Times, Parts, Files
<1>4. /\ directory' \in Directories /\ directory'.stamp = directory.stamp
      /\ directory'.public = directory.public /\ directory'.private = directory.private
      /\ directory'.source = directory.source /\ directory'.binary = directory.binary
      /\ directory'.plain = directory.plain /\ directory'.named = directory.named
      /\ directory'.tests = Data["tests"] /\ directory'.args = args
  BY <1>1, <1>3 DEF LoaderTypes, Directories
<1>5. Writes /\ Written
  BY <1>1 DEF Writes, LoaderInv
<1>6. Written'
  BY <1>1, <1>2, <1>4, <1>5 DEF Written, HasProgram, HasArguments
<1>. QED
  BY <1>1, <1>2, <1>4, <1>5, <1>6, LoadGoesOn

LEMMA WriteTimeStampKeeps ==
  ASSUME ContentTypes, LoaderTypes, LoaderInv, WriteTimeStamp, UNCHANGED own
  PROVE  LoaderTypes' /\ LoaderInv' /\ ClientsStep /\ UNCHANGED calls
<1>. PICK m : m = loader.response.modified
  OBVIOUS
<1>1. /\ loader.pc = "stamp" /\ GoesTo("loaded") /\ UNCHANGED calls /\ loaded' = loader
      /\ directory' = [directory EXCEPT !.stamp = m]
  BY DEF WriteTimeStamp
<1>2. /\ loader' \in LoaderRecords /\ loader'.pc = "loaded" /\ loader'.response = loader.response
      /\ loader'.compiled = loader.compiled /\ Data' = Data
  BY <1>1, GoesToDoes
<1>3. m \in Int /\ m \in Nat \cup {Null}
  <2>1. m \in Int /\ directory.stamp \in Nat \cup {Null}
    BY LoaderNumbers DEF LoaderTypes, Directories
  <2>2. m > directory.stamp
    BY <1>1 DEF LoaderInv, Promised, Writes
  <2>. QED
    BY <2>1, <2>2 DEF Null
<1>4. /\ directory' \in Directories /\ directory'.stamp = m
      /\ directory'.public = directory.public /\ directory'.private = directory.private
      /\ directory'.source = directory.source /\ directory'.binary = directory.binary
      /\ directory'.plain = directory.plain /\ directory'.named = directory.named
      /\ directory'.tests = directory.tests /\ directory'.args = directory.args
  BY <1>1, <1>3 DEF LoaderTypes, Directories
<1>5. LoaderTypes' /\ ClientsStep
  BY <1>1, <1>2, <1>4, NoCalls DEF LoaderTypes
<1>6. /\ Writes /\ Written /\ LowProblem(m) /\ loader # NoLoader
      /\ loader.response.doubtful = "no" => ProblemFor(m) /\ WillBeSeen(ProblemParts, Data, m)
  <2>1. Writes
    BY <1>1 DEF Writes
  <2>2. loader # NoLoader
    BY <1>1 DEF NoLoader
  <2>. QED
    BY <2>1, <2>2 DEF LoaderInv, Promised, LoadingKnown
<1>7. m <= LastEdit
  BY <1>3, <1>6, LowIsPast DEF Low
<1>8. Whole'
  BY <1>1, <1>4, <1>6 DEF Whole, Written, HasProgram, HasArguments, Data
<1>9. Asked' /\ Written' /\ Promised' /\ LoadingKnown'
  BY <1>2, <1>8 DEF Asked, Written, Promised, LoadingKnown, Writes
<1>10. LoadedKnown'
  <2>1. ASSUME loader.response.doubtful = "no" PROVE InDirectory(m)'
    <3>1. Finds(Data["options"], "problem", m) /\ Finds(Data["tests"], "tests", m)
      BY <1>6, <2>1 DEF WillBeSeen, Finds, ProblemParts, FileOf
    <3>2. /\ directory'.private = Data["options"] /\ directory'.plain = Data["options"]
          /\ directory'.tests = Data["tests"]
      BY <1>1, <1>4, <1>6 DEF Written
    <3>. QED
      BY <3>1, <3>2, SameBounds DEF InDirectory
  <2>2. m = loaded'.response.modified /\ Data = loaded'.response.data
    BY <1>1 DEF Data
  <2>3. /\ ProblemFor(m)' => ProblemFor(loaded.response.modified)'
        /\ InDirectory(m)' => InDirectory(loaded.response.modified)'
        /\ WillBeSeen(ProblemParts, Data, m)' =>
             WillBeSeen(ProblemParts, loaded.response.data, loaded.response.modified)'
    BY <1>2, <2>2 DEF ProblemFor, InDirectory, Finds, WillBeSeen
  <2>4. loader.response.doubtful = "no" => ProblemFor(m)' /\ WillBeSeen(ProblemParts, Data, m)'
    BY <1>2, <1>6, SameBounds
  <2>5. ~Writes' /\ loader'.pc # "request"
    BY <1>2 DEF Writes
  <2>6. directory'.stamp = m /\ m <= LastEdit'
    BY <1>4, <1>7, SameBounds
  <2>. QED
    BY <1>1, <2>1, <2>2, <2>3, <2>4, <2>5, <2>6 DEF LoadedKnown
<1>. QED
  BY <1>1, <1>5, <1>9, <1>10 DEF LoaderInv

\* Nothing is loaded, and the directory is as it was but for an empty time.
LEMMA LoaderRests ==
  ASSUME ContentTypes, LoaderTypes, LoaderInv, LowProblem(1), UNCHANGED <<own, loaded>>,
         loader' = NoLoader,
         \/ UNCHANGED directory
         \/ directory' = [directory EXCEPT !.stamp = Null]
  PROVE  LoaderTypes' /\ LoaderInv'
<1>1. loader' \in LoaderRecords /\ loader'.pc = "idle"
  BY Records DEF NoLoader, LoaderRecords
<1>2. /\ directory' \in Directories /\ directory'.private = directory.private
      /\ directory'.plain = directory.plain /\ directory'.tests = directory.tests
      /\ directory'.stamp \in {directory.stamp, Null}
      /\ directory'.stamp # Null => directory' = directory
  <2>1. directory \in Directories
    BY DEF LoaderTypes
  <2>2. ASSUME directory' = [directory EXCEPT !.stamp = Null]
        PROVE  /\ directory' \in Directories /\ directory'.private = directory.private
               /\ directory'.plain = directory.plain /\ directory'.tests = directory.tests
               /\ directory'.stamp = Null
    BY <2>1, <2>2 DEF Directories, Null
  <2>. QED
    BY <2>1, <2>2
<1>3. Asked' /\ Written' /\ LoadingKnown' /\ ~Writes'
  BY <1>1 DEF Asked, Written, LoadingKnown, Writes
<1>4. Promised'
  <2>1. CASE directory' = directory
    BY <1>1, <1>3, <2>1, SameBounds DEF LoaderInv, Promised, Whole, HasProgram, HasArguments
  <2>2. CASE directory' # directory
    <3>1. directory'.stamp + 1 = 0
      BY <1>2, <2>2 DEF Null
    <3>2. LowProblem(0)
      BY LowProblemBelow
    <3>. QED
      BY <1>1, <1>3, <3>1, <3>2, SameBounds DEF Promised
  <2>. QED
    BY <2>1, <2>2
<1>5. LoadedKnown'
  BY <1>1, <1>2, <1>3, SameBounds DEF LoaderInv, LoadedKnown, InDirectory
<1>. QED
  BY <1>1, <1>2, <1>3, <1>4, <1>5 DEF LoaderInv, LoaderTypes

\* The loader, in one.
LEMMA LoaderKeeps ==
  ASSUME ContentTypes, Caches, AnswersRight, LoaderTypes, LoaderInv, Grader \in Clients,
         LoaderNext, UNCHANGED own
  PROVE  LoaderTypes' /\ LoaderInv' /\ ClientsStep
         /\ \A c \in Clients \ {Grader} : calls'[c] = calls[c]
<1>1. CASE LoadProblemData
  BY <1>1, LoadProblemDataKeeps
<1>2. CASE GotProblem
  BY <1>2, GotProblemKeeps
<1>3. CASE SaveBuildFiles
  BY <1>3, SaveBuildFilesKeeps
<1>4. CASE BuildSupplementaryProgram
  BY <1>4, BuildSupplementaryProgramKeeps
<1>5. CASE SaveToPlainFiles
  BY <1>5, SaveToPlainFilesKeeps
<1>6. CASE SaveTests
  BY <1>6, SaveTestsKeeps
<1>7. CASE WriteTimeStamp
  BY <1>7, WriteTimeStampKeeps
<1>8. CASE GradingEnds
  <2>1. loader' = NoLoader /\ UNCHANGED <<calls, directory, loaded>> /\ LowProblem(1)
    BY <1>8 DEF GradingEnds, Caches
  <2>. QED
    BY <2>1, LoaderRests, NoCalls
<1>9. CASE GraderDies
  <2>1. /\ loader' = NoLoader /\ UNCHANGED loaded /\ LowProblem(1)
        /\ calls' = [calls EXCEPT ![Grader] = NoCall]
        /\ directory' = directory \/ directory' = [directory EXCEPT !.stamp = Null]
    BY <1>9 DEF GraderDies, Caches
  <2>2. TakeAnswer(Grader)
    BY <2>1 DEF TakeAnswer
  <2>. QED
    BY <2>1, <2>2, LoaderRests, TakeAnswerDoes
<1>. QED
  BY <1>1, <1>2, <1>3, <1>4, <1>5, <1>6, <1>7, <1>8, <1>9 DEF LoaderNext

-----------------------------------------------------------------------------
(* The deadlines service: types *)

LEMMA ServicesApart ==
  /\ Handlers \subseteq Clients /\ Grader \in Clients /\ Grader \notin Handlers
  /\ \A k \in Checks : k \in Handlers /\ k \in Clients /\ k \notin Submissions
  /\ \A s \in Submissions : s \in Handlers /\ s \in Clients /\ s \notin Checks
BY CourseWorkAssumption DEF Handlers

Copies == [data : Times, stamp : Int, doubtful : {"no", "yes"}]
RowRecords == [data : Times, doubtful : {"no", "yes"}, schedule : Nat]
RowsOf == UNION {[T -> RowRecords] : T \in SUBSET Submissions}
HandlerPlaces == {"idle", "modified", "update", "data", "select", "schedules", "rows", "insert"}
HandlerRecords ==
  [pc : HandlerPlaces, need : {"no", "yes"}, cached : Copies, then : {"select", "schedules", "rows"},
   course : Copies, todo : SUBSET Submissions, rows : RowsOf, missed : SUBSET Submissions]

DeadlineTypes ==
  /\ dirty \in {"no", "yes"} /\ timer \in {"no", "yes"} /\ schedule \in Nat \ {0}
  /\ lastModified \in Int /\ copy \in Copies
  /\ submitted \subseteq Submissions /\ excused \subseteq Submissions
  /\ deadlines \in [Submissions -> RowRecords] /\ handlers \in [Handlers -> HandlerRecords]

LEMMA RowsAre ==
  ASSUME NEW rows \in RowsOf
  PROVE  DOMAIN rows \subseteq Submissions /\ \A s \in DOMAIN rows : rows[s] \in RowRecords
BY DEF RowsOf

LEMMA RowAdded ==
  ASSUME NEW rows \in RowsOf, NEW s \in Submissions, NEW row \in RowRecords, NEW new,
         new = [t \in DOMAIN rows \cup {s} |-> IF t = s THEN row ELSE rows[t]]
  PROVE  /\ new \in RowsOf /\ DOMAIN new = DOMAIN rows \cup {s} /\ new[s] = row
         /\ \A t \in DOMAIN rows \ {s} : new[t] = rows[t]
<1>1. PICK T : T = DOMAIN rows \cup {s}
  OBVIOUS
<1>2. T \in SUBSET Submissions
  BY <1>1, RowsAre
<1>3. new = [t \in T |-> IF t = s THEN row ELSE rows[t]]
  BY <1>1
<1>4. \A t \in T : (IF t = s THEN row ELSE rows[t]) \in RowRecords
  BY <1>1, RowsAre
<1>5. new \in [T -> RowRecords]
  BY <1>3, <1>4
<1>6. new \in RowsOf
  BY <1>2, <1>5 DEF RowsOf
<1>. QED
  BY <1>1, <1>3, <1>6

LEMMA Blanks ==
  /\ NoCopy \in Copies /\ NoCopy.stamp = 0 /\ NoCopy.data = Unread
  /\ NoRow \in RowRecords /\ NoRow.schedule = 0
  /\ NoHandler \in HandlerRecords /\ NoHandler.pc = "idle" /\ NoHandler.then = "select"
  /\ NoHandler.cached = NoCopy /\ NoHandler.course = NoCopy /\ NoHandler.todo = {}
  /\ DOMAIN NoHandler.rows = {} /\ NoHandler.missed = {}
<1>1. Unread \in Times
  BY Records
<1>2. NoCopy \in Copies /\ NoCopy.stamp = 0 /\ NoCopy.data = Unread
  BY <1>1 DEF NoCopy, Copies
<1>3. NoRow \in RowRecords /\ NoRow.schedule = 0
  BY <1>1 DEF NoRow, RowRecords
<1>4. PICK none : none = [s \in {} |-> NoRow]
  OBVIOUS
<1>5. none \in RowsOf /\ DOMAIN none = {}
  <2>1. none \in [{} -> RowRecords]
    BY <1>4
  <2>. QED
    BY <2>1 DEF RowsOf
<1>6. NoHandler = [pc |-> "idle", need |-> "no", cached |-> NoCopy, then |-> "select",
                   course |-> NoCopy, todo |-> {}, rows |-> none, missed |-> {}]
  BY <1>4 DEF NoHandler
<1>7. NoHandler \in HandlerRecords
  BY <1>2, <1>5, <1>6 DEF HandlerRecords, HandlerPlaces
<1>. QED
  BY <1>2, <1>3, <1>5, <1>6, <1>7

LEMMA HandlerTypes ==
  ASSUME DeadlineTypes, NEW h \in Handlers
  PROVE  /\ handlers[h] \in HandlerRecords
         /\ handlers[h].pc \in HandlerPlaces /\ handlers[h].then \in {"select", "schedules", "rows"}
         /\ handlers[h].cached \in Copies /\ handlers[h].course \in Copies
         /\ handlers[h].todo \subseteq Submissions /\ handlers[h].rows \in RowsOf
         /\ handlers[h].missed \subseteq Submissions
BY DEF DeadlineTypes, HandlerRecords

LEMMA HandlerBecomes ==
  ASSUME DeadlineTypes, NEW h \in Handlers, NEW rec \in HandlerRecords,
         handlers' = [handlers EXCEPT ![h] = rec]
  PROVE  /\ handlers' \in [Handlers -> HandlerRecords] /\ handlers'[h] = rec
         /\ \A g \in Handlers \ {h} : handlers'[g] = handlers[g]
BY DEF DeadlineTypes

\* A handler goes on as it was, but for what it is known to have missed.
SameHandler(old, new) ==
  /\ new.pc = old.pc /\ new.cached = old.cached /\ new.then = old.then /\ new.course = old.course
  /\ new.todo = old.todo /\ new.rows = old.rows /\ old.missed \subseteq new.missed

LEMMA Missing ==
  ASSUME NEW old \in HandlerRecords, NEW subs \in SUBSET Submissions,
         NEW new, new = [old EXCEPT !.missed = @ \cup subs]
  PROVE  new \in HandlerRecords /\ SameHandler(old, new) /\ new.missed = old.missed \cup subs
BY DEF HandlerRecords, SameHandler

-----------------------------------------------------------------------------
(* The deadlines service: what it knows *)

CopyRight(c) == c.stamp <= LastEdit /\ Sees(CourseParts, c.data, c.stamp, c.doubtful)

\* The times that the service remembers, or a check that waits for an answer
\* may find to be the last one.
Seen == {lastModified} \cup {calls[k].stamp : k \in {j \in Checks : handlers[j].pc = "modified"}}

\* A row computed from the schedule as it is, and of a course of which the
\* service will see any change.
Good(row) ==
  row.schedule = schedule /\ \A x \in Seen : Sees({"course"}, row.data, x, row.doubtful)

ServiceRight == CopyRight(copy) /\ \A x \in Seen : x \in Int /\ x >= 0 /\ LowCourse(x)

HandlerRight(h) ==
  /\ CopyRight(handlers[h].cached) /\ CopyRight(handlers[h].course)
  /\ handlers[h].pc = "modified" => calls[h].what = "course" /\ AtLeast(h, calls[h].stamp)
  /\ handlers[h].pc = "data" =>
       calls[h].what = "course" /\ calls[h].stamp = handlers[h].cached.stamp
  /\ \A s \in DOMAIN handlers[h].rows : handlers[h].rows[s].schedule <= schedule

\* Handler h has, or will get, a course not older than the times last seen.
UpToDate(h) == \A x \in Seen :
  /\ handlers[h].pc = "data" /\ handlers[h].then # "rows" => AtLeast(h, x)
  /\ \/ handlers[h].pc \in {"select", "schedules", "rows"}
     \/ handlers[h].pc = "data" /\ handlers[h].then = "rows"
     => x <= handlers[h].course.stamp

CheckPlaces(k) ==
  /\ handlers[k].pc \in {"idle", "modified", "update", "select"} => handlers[k].then = "select"
  /\ handlers[k].pc \in {"schedules", "rows"} => handlers[k].then = "rows"
  /\ handlers[k].then # "schedules" /\ handlers[k].pc # "insert"
  /\ handlers[k].todo \subseteq submitted /\ DOMAIN handlers[k].rows \subseteq submitted

\* The rows of a recomputation under way.
ComputedRight(k) == Computing(k) =>
  \A s \in submitted \ handlers[k].missed :
    s \in handlers[k].todo \/ (s \in DOMAIN handlers[k].rows /\ Good(handlers[k].rows[s]))

CheckRight(k) ==
  CheckPlaces(k) /\ (UpToDate(k) \/ handlers[k].missed = Submissions) /\ ComputedRight(k)

InsertPlaces(s) ==
  /\ handlers[s].pc \notin {"modified", "update", "select"}
  /\ handlers[s].then = "select" => Idle(s)
  /\ handlers[s].todo \subseteq {s} /\ (handlers[s].pc = "insert" => s \in DOMAIN handlers[s].rows)
  /\ deadlines[s].schedule <= schedule
  /\ s \notin submitted => deadlines[s] = NoRow /\ Idle(s)

\* If no check has more to do than to ask, each submission has a row, or will
\* get it.
RowRight(s) ==
  \/ Good(deadlines[s])
  \/ /\ deadlines[s] = NoRow /\ ~Idle(s) /\ UpToDate(s)
     /\ handlers[s].pc = "insert" => Good(handlers[s].rows[s]) \/ s \in handlers[s].missed
Resting == \A k \in Checks : handlers[k].pc \in {"idle", "modified"}
InsertRight ==
  Resting /\ dirty = "no" /\ (\E x \in Seen : x # 0) => \A s \in submitted \ excused : RowRight(s)

DeadlinesInv ==
  /\ ServiceRight /\ (\A h \in Handlers : HandlerRight(h))
  /\ (\A k \in Checks : CheckRight(k)) /\ (\A s \in Submissions : InsertPlaces(s))
  /\ InsertRight

LEMMA DeadlinesGive ==
  ASSUME DeadlineTypes, DeadlinesInv
  PROVE  DeadlinesAreCurrent
<1>1. SUFFICES ASSUME \A h \in Handlers : Idle(h), dirty = "no", lastModified # 0,
                      NEW s \in submitted \ excused
               PROVE  /\ deadlines[s].schedule = schedule
                      /\ \/ deadlines[s].doubtful = "yes"
                         \/ WillBeSeen({"course"}, deadlines[s].data, lastModified)
  BY DEF DeadlinesAreCurrent
<1>2. Resting /\ lastModified \in Seen
  BY <1>1, ServicesApart DEF Resting, Idle, Seen
<1>3. RowRight(s) /\ Idle(s)
  BY <1>1, <1>2, ServicesApart DEF DeadlinesInv, InsertRight, DeadlineTypes
<1>. QED
  BY <1>2, <1>3 DEF RowRight, Good, Sees

LEMMA CourseIsPart ==
  /\ {"course"} \in SUBSET Parts /\ CourseParts \in SUBSET Parts
  /\ {"course"} \subseteq CourseParts /\ FileOf("course") = "course"
BY PartsAreOfFiles DEF Parts, Files, CourseParts, FileOf

\* A copy stays right.
LEMMA CopyStays ==
  ASSUME ContentTypes, ContentTypes', FilesAge, NEW c \in Copies, CopyRight(c)
  PROVE  CopyRight(c)'
<1>1. c.stamp \in Int /\ c.data \in Times /\ c.stamp <= LastEdit
  BY DEF Copies, CopyRight
<1>2. LastEdit \in Nat /\ LastEdit' \in Nat /\ LastEdit <= LastEdit'
  <2>1. LastEdit \in Nat
    BY LastIs
  <2>2. \A f \in Files : disk'[f] \in Nat
    BY DEF ContentTypes
  <2>3. LastEdit' \in Nat
    BY <2>2, LatestOfAll DEF LastEdit, Files
  <2>. QED
    BY <2>1, <2>3 DEF FilesAge
<1>3. c.stamp <= LastEdit'
  BY <1>1, <1>2
<1>4. Sees(CourseParts, c.data, c.stamp, c.doubtful)'
  BY <1>1, CourseIsPart DEF CopyRight, Sees, FilesAge
<1>. QED
  BY <1>3, <1>4 DEF CopyRight

\* Others leave the requests of the handlers as they are.
CallsKept ==
  /\ \A h \in Handlers : calls'[h].what = calls[h].what /\ calls'[h].stamp = calls[h].stamp
  /\ \A h \in Handlers, x \in Int :
       calls[h].what = "course" /\ AtLeast(h, x) /\ LowCourse(x) => AtLeast(h, x)'

LEMMA OthersKeepDeadlines ==
  ASSUME ContentTypes, ContentTypes', DeadlineTypes, DeadlinesInv, UNCHANGED deadlineVars,
         FilesAge, LowKept, CallsKept
  PROVE  DeadlineTypes' /\ DeadlinesInv'
<1>0. UNCHANGED <<dirty, schedule, timer, submitted, deadlines, lastModified, copy, handlers, excused>>
  BY DEF deadlineVars, tables
<1>1. Seen' = Seen
  BY <1>0, ServicesApart DEF CallsKept, Seen
<1>2. \A x \in Seen : x \in Int /\ x >= 0 /\ LowCourse(x) /\ x <= LastEdit
  BY LowIsPast DEF DeadlinesInv, ServiceRight, Low
<1>3. ASSUME NEW x \in Seen PROVE LowCourse(x)'
  BY <1>2 DEF LowKept
<1>4. ASSUME NEW c \in Copies, CopyRight(c) PROVE CopyRight(c)'
  BY <1>4, CopyStays
<1>5. ServiceRight'
  <2>1. PICK c \in Copies : c = copy
    BY DEF DeadlineTypes
  <2>2. CopyRight(c)'
    BY <1>4, <2>1 DEF DeadlinesInv, ServiceRight
  <2>3. CopyRight(copy)'
    BY <1>0, <2>1, <2>2 DEF CopyRight, Sees, WillBeSeen
  <2>. QED
    BY <1>1, <1>2, <1>3, <2>3 DEF ServiceRight
<1>6. ASSUME NEW h \in Handlers PROVE HandlerRight(h)'
  <2>1. HandlerRight(h) /\ handlers[h].cached \in Copies /\ handlers[h].course \in Copies
    BY HandlerTypes DEF DeadlinesInv
  <2>2. PICK c \in Copies, d \in Copies : c = handlers[h].cached /\ d = handlers[h].course
    BY <2>1
  <2>3. CopyRight(c)' /\ CopyRight(d)'
    BY <1>4, <2>1, <2>2 DEF HandlerRight
  <2>4. CopyRight(handlers[h].cached)' /\ CopyRight(handlers[h].course)'
    BY <1>0, <2>2, <2>3 DEF CopyRight, Sees, WillBeSeen
  <2>5. handlers[h].pc = "modified" => calls'[h].what = "course" /\ AtLeast(h, calls[h].stamp)'
    <3>1. SUFFICES ASSUME handlers[h].pc = "modified"
                   PROVE  calls'[h].what = "course" /\ AtLeast(h, calls[h].stamp)'
      OBVIOUS
    <3>2. PICK x : x = calls[h].stamp
      OBVIOUS
    <3>3. h \in Checks
      BY <3>1, ServicesApart DEF DeadlinesInv, InsertPlaces, Handlers
    <3>4. x \in Int /\ LowCourse(x) /\ AtLeast(h, x) /\ calls[h].what = "course"
      BY <1>2, <2>1, <3>1, <3>2, <3>3 DEF Seen, HandlerRight
    <3>5. AtLeast(h, x)' /\ x = calls'[h].stamp /\ calls'[h].what = "course"
      BY <3>2, <3>4 DEF CallsKept
    <3>. QED
      BY <3>5 DEF AtLeast
  <2>. QED
    BY <1>0, <2>1, <2>4, <2>5 DEF HandlerRight, CallsKept
<1>7. \A s \in Submissions : InsertPlaces(s)'
  BY <1>0 DEF DeadlinesInv, InsertPlaces, Idle
<1>8. ASSUME NEW h \in Handlers, UpToDate(h) PROVE UpToDate(h)'
  <2>1. ASSUME NEW x \in Seen, handlers[h].pc = "data", handlers[h].then # "rows"
        PROVE  AtLeast(h, x)'
    BY <1>2, <1>8, <2>1 DEF DeadlinesInv, HandlerRight, UpToDate, CallsKept
  <2>. QED
    BY <1>0, <1>1, <1>8, <2>1 DEF UpToDate
<1>9. ASSUME NEW row \in RowRecords, Good(row) PROVE Good(row)'
  <2>1. row.data \in Times
    BY DEF RowRecords
  <2>2. ASSUME NEW x \in Seen PROVE Sees({"course"}, row.data, x, row.doubtful)'
    BY <1>2, <1>9, <2>1, CourseIsPart DEF Good, Sees, FilesAge
  <2>. QED
    BY <1>0, <1>1, <1>9, <2>2 DEF Good
<1>10. ASSUME NEW k \in Checks PROVE CheckRight(k)'
  <2>1. CheckRight(k) /\ k \in Handlers
    BY ServicesApart DEF DeadlinesInv
  <2>2. CheckPlaces(k)' /\ (UpToDate(k)' \/ handlers'[k].missed = Submissions)
    BY <1>0, <1>8, <2>1 DEF CheckRight, CheckPlaces
  <2>3. ComputedRight(k)'
    <3>1. SUFFICES ASSUME Computing(k), NEW s \in submitted \ handlers[k].missed,
                          s \notin handlers[k].todo
                   PROVE  s \in DOMAIN handlers[k].rows /\ Good(handlers[k].rows[s])'
      BY <1>0 DEF ComputedRight, Computing, Idle
    <3>2. s \in DOMAIN handlers[k].rows /\ Good(handlers[k].rows[s])
      BY <2>1, <3>1 DEF CheckRight, ComputedRight
    <3>3. PICK row \in RowRecords : row = handlers[k].rows[s]
      BY <2>1, <3>2, HandlerTypes, RowsAre
    <3>4. Good(row)'
      BY <1>9, <3>2, <3>3
    <3>. QED
      BY <1>0, <3>2, <3>3, <3>4 DEF Good, Sees, WillBeSeen
  <2>. QED
    BY <2>2, <2>3 DEF CheckRight
<1>11. ASSUME NEW s \in Submissions, RowRight(s) PROVE RowRight(s)'
  <2>0. s \in Handlers
    BY ServicesApart
  <2>1. Good(deadlines[s]) => Good(deadlines[s])'
    <3>1. PICK row \in RowRecords : row = deadlines[s]
      BY DEF DeadlineTypes
    <3>2. Good(deadlines[s]) => Good(row)'
      BY <1>9, <3>1
    <3>. QED
      BY <1>0, <3>1, <3>2 DEF Good, Sees, WillBeSeen
  <2>2. handlers[s].pc = "insert" /\ Good(handlers[s].rows[s]) => Good(handlers[s].rows[s])'
    <3>1. SUFFICES ASSUME handlers[s].pc = "insert", Good(handlers[s].rows[s])
                   PROVE  Good(handlers[s].rows[s])'
      OBVIOUS
    <3>2. s \in DOMAIN handlers[s].rows
      BY <3>1 DEF DeadlinesInv, InsertPlaces
    <3>3. PICK row \in RowRecords : row = handlers[s].rows[s]
      BY <2>0, <3>2, HandlerTypes, RowsAre
    <3>4. Good(row)'
      BY <1>9, <3>1, <3>3
    <3>. QED
      BY <1>0, <3>3, <3>4 DEF Good, Sees, WillBeSeen
  <2>3. UpToDate(s) => UpToDate(s)'
    BY <1>8, <2>0
  <2>. QED
    BY <1>0, <1>11, <2>1, <2>2, <2>3 DEF RowRight, Idle
<1>12. InsertRight'
  BY <1>0, <1>1, <1>11 DEF DeadlinesInv, InsertRight, Resting, DeadlineTypes
<1>13. DeadlineTypes'
  BY <1>0 DEF DeadlineTypes
<1>. QED
  BY <1>5, <1>6, <1>7, <1>10, <1>12, <1>13 DEF DeadlinesInv

\* The content service answers, files are edited.
LEMMA ContentKeepsDeadlines ==
  ASSUME ContentTypes, ContentTypes', DeadlineTypes, DeadlinesInv, UNCHANGED deadlineVars, Guarantee
  PROVE  DeadlineTypes' /\ DeadlinesInv'
<1>1. CallsKept
  <2>1. ASSUME NEW h \in Handlers
        PROVE  calls'[h].what = calls[h].what /\ calls'[h].stamp = calls[h].stamp
    BY ServicesApart DEF Guarantee, OnlyAnswers
  <2>2. ASSUME NEW h \in Handlers, NEW x \in Int, calls[h].what = "course", AtLeast(h, x), LowCourse(x)
        PROVE  AtLeast(h, x)'
    BY <2>2, ServicesApart DEF Guarantee, BoundsKept, Low
  <2>. QED
    BY <2>1, <2>2 DEF CallsKept
<1>. QED
  BY <1>1, OthersKeepDeadlines DEF Guarantee

\* A grader loads problems, or dies.
LEMMA LoaderKeepsDeadlines ==
  ASSUME ContentTypes, ContentTypes', DeadlineTypes, DeadlinesInv, UNCHANGED deadlineVars,
         UNCHANGED own, \A h \in Handlers : calls'[h] = calls[h]
  PROVE  DeadlineTypes' /\ DeadlinesInv'
<1>1. UNCHANGED disk /\ UNCHANGED serving
  BY DEF own, contentFiles
<1>2. FilesAge /\ LowKept
  BY <1>1, SameFilesAge, SameBounds DEF LowKept
<1>3. CallsKept
  BY <1>1 DEF CallsKept, AtLeast, HasAnswer, Serves
<1>. QED
  BY <1>2, <1>3, OthersKeepDeadlines

-----------------------------------------------------------------------------
(* The deadlines service: its steps *)

\* What a step of the deadlines service gives.
StepRight ==
  /\ DeadlineTypes' /\ DeadlinesInv' /\ ClientsStep
  /\ \A c \in Clients \ Handlers : calls'[c] = calls[c]

LEMMA SeenShrinks ==
  ASSUME UNCHANGED lastModified,
         \A k \in Checks : handlers'[k].pc = "modified" =>
           \/ calls'[k].stamp = lastModified
           \/ handlers[k].pc = "modified" /\ calls'[k].stamp = calls[k].stamp
  PROVE  Seen' \subseteq Seen
BY DEF Seen

LEMMA SameKnown ==
  ASSUME UNCHANGED own
  PROVE  /\ \A c : CopyRight(c)' <=> CopyRight(c)
         /\ \A h, x : calls'[h] = calls[h] => (AtLeast(h, x)' <=> AtLeast(h, x))
         /\ UNCHANGED schedule /\ Seen' \subseteq Seen => \A row : Good(row) => Good(row)'
<1>1. \A parts, data, m, d : Sees(parts, data, m, d)' <=> Sees(parts, data, m, d)
  BY SameBounds DEF Sees
<1>2. \A c : CopyRight(c)' <=> CopyRight(c)
  BY <1>1, SameBounds DEF CopyRight
<1>3. UNCHANGED schedule /\ Seen' \subseteq Seen => \A row : Good(row) => Good(row)'
  BY <1>1 DEF Good
<1>4. \A h, x : calls'[h] = calls[h] => (AtLeast(h, x)' <=> AtLeast(h, x))
  BY DEF own, AtLeast, HasAnswer, Serves
<1>. QED
  BY <1>2, <1>3, <1>4

LEMMA ServiceStays ==
  ASSUME DeadlinesInv, UNCHANGED own, Seen' \subseteq Seen, CopyRight(copy)'
  PROVE  ServiceRight'
BY SameBounds DEF DeadlinesInv, ServiceRight

\* A handler that goes on as it was.
LEMMA OtherHandlers ==
  ASSUME DeadlinesInv, UNCHANGED own, UNCHANGED schedule, NEW g \in Handlers,
         SameHandler(handlers[g], handlers'[g]), calls'[g] = calls[g]
  PROVE  HandlerRight(g)' /\ (Seen' \subseteq Seen /\ UpToDate(g) => UpToDate(g)')
<1>1. HandlerRight(g)
  BY DEF DeadlinesInv
<1>2. HandlerRight(g)'
  BY <1>1, SameKnown DEF HandlerRight, SameHandler
<1>3. Seen' \subseteq Seen /\ UpToDate(g) => UpToDate(g)'
  BY SameKnown DEF UpToDate, SameHandler
<1>. QED
  BY <1>2, <1>3

LEMMA OtherChecks ==
  ASSUME DeadlinesInv, UNCHANGED own, UNCHANGED schedule, Seen' \subseteq Seen, NEW k \in Checks,
         SameHandler(handlers[k], handlers'[k]), calls'[k] = calls[k],
         handlers'[k].missed \subseteq Submissions, submitted \subseteq submitted',
         Computing(k) => submitted' \subseteq submitted \cup handlers'[k].missed
  PROVE  CheckRight(k)'
<1>1. CheckRight(k) /\ k \in Handlers
  BY ServicesApart DEF DeadlinesInv
<1>2. CheckPlaces(k)' /\ (UpToDate(k)' \/ handlers'[k].missed = Submissions)
  BY <1>1, OtherHandlers DEF CheckRight, CheckPlaces, SameHandler
<1>3. \A row : Good(row) => Good(row)'
  BY SameKnown
<1>4. ComputedRight(k)'
  BY <1>1, <1>3 DEF CheckRight, ComputedRight, Computing, Idle, SameHandler
<1>. QED
  BY <1>2, <1>4 DEF CheckRight

LEMMA OtherSubmissions ==
  ASSUME DeadlinesInv, UNCHANGED own, UNCHANGED schedule, NEW s \in Submissions,
         SameHandler(handlers[s], handlers'[s]), calls'[s] = calls[s], deadlines'[s] = deadlines[s],
         s \in submitted <=> s \in submitted'
  PROVE  InsertPlaces(s)' /\ (Seen' \subseteq Seen /\ RowRight(s) => RowRight(s)')
<1>1. InsertPlaces(s) /\ s \in Handlers
  BY ServicesApart DEF DeadlinesInv
<1>2. InsertPlaces(s)'
  BY <1>1 DEF InsertPlaces, SameHandler, Idle
<1>3. /\ Seen' \subseteq Seen => \A row : Good(row) => Good(row)'
      /\ Seen' \subseteq Seen /\ UpToDate(s) => UpToDate(s)'
  BY <1>1, SameKnown, OtherHandlers
<1>4. Seen' \subseteq Seen /\ RowRight(s) => RowRight(s)'
  BY <1>3 DEF RowRight, SameHandler, Idle
<1>. QED
  BY <1>2, <1>4

LEMMA SameIsSame ==
  ASSUME NEW old, NEW new, old = new
  PROVE  SameHandler(old, new)
BY DEF SameHandler

\* Handler h steps, and leaves the tables alone.
LEMMA HandlerSteps ==
  ASSUME DeadlineTypes, DeadlinesInv, UNCHANGED own, NEW h \in Handlers,
         UNCHANGED <<tables, lastModified>>, timer' \in {"no", "yes"}, Seen' \subseteq Seen,
         handlers' \in [Handlers -> HandlerRecords], copy' \in Copies, CopyRight(copy)',
         \A g \in Handlers \ {h} : handlers'[g] = handlers[g] /\ calls'[g] = calls[g],
         excused \subseteq excused', excused' \subseteq Submissions, HandlerRight(h)',
         h \in Submissions =>
           InsertPlaces(h)' /\ (h \in submitted \ excused' /\ RowRight(h) => RowRight(h)'),
         h \in Checks =>
           /\ CheckRight(h)'
           /\ handlers'[h].pc \in {"idle", "modified"} => handlers[h].pc \in {"idle", "modified"}
  PROVE  DeadlineTypes' /\ DeadlinesInv'
<1>0. UNCHANGED <<dirty, schedule, submitted, deadlines, lastModified>>
  BY DEF tables
<1>1. DeadlineTypes'
  BY <1>0 DEF DeadlineTypes
<1>2. ServiceRight'
  BY ServiceStays
<1>3. \A g \in Handlers \ {h} : SameHandler(handlers[g], handlers'[g])
  BY SameIsSame
<1>4. \A g \in Handlers : HandlerRight(g)'
  BY <1>0, <1>3, OtherHandlers
<1>5. ASSUME NEW k \in Checks PROVE CheckRight(k)'
  <2>1. k \in Handlers /\ handlers'[k].missed \subseteq Submissions
    BY ServicesApart DEF HandlerRecords
  <2>. QED
    BY <1>0, <1>3, <2>1, OtherChecks
<1>6. ASSUME NEW s \in Submissions
      PROVE  InsertPlaces(s)' /\ (s \in submitted \ excused' /\ RowRight(s) => RowRight(s)')
  <2>1. s \in Handlers
    BY ServicesApart
  <2>. QED
    BY <1>0, <1>3, <2>1, OtherSubmissions
<1>7. InsertRight'
  <2>1. SUFFICES ASSUME Resting', dirty = "no", NEW x \in Seen, x # 0, NEW s \in submitted \ excused'
                 PROVE  RowRight(s)'
    BY <1>0 DEF InsertRight
  <2>2. Resting
    BY <2>1, ServicesApart DEF Resting
  <2>3. RowRight(s) /\ s \in Submissions
    BY <2>1, <2>2 DEF DeadlinesInv, InsertRight, DeadlineTypes
  <2>. QED
    BY <1>6, <2>1, <2>3
<1>. QED
  BY <1>1, <1>2, <1>4, <1>5, <1>6, <1>7 DEF DeadlinesInv

LEMMA GetCourseDataDoes ==
  ASSUME ContentTypes, DeadlineTypes, NEW h \in Handlers,
         NEW then \in {"select", "rows"}, GetCourseData(h, then)
  PROVE  /\ handlers' \in [Handlers -> HandlerRecords]
         /\ handlers'[h].pc = "data" /\ handlers'[h].then = then /\ handlers'[h].cached = copy
         /\ handlers'[h].course = handlers[h].course /\ handlers'[h].todo = handlers[h].todo
         /\ handlers'[h].rows = handlers[h].rows /\ handlers'[h].missed = handlers[h].missed
         /\ ClientsStep /\ calls'[h].pc = "sent" /\ calls'[h].what = "course"
         /\ calls'[h].stamp = copy.stamp /\ serving.client # h
         /\ \A c \in Clients \ {h} : calls'[c] = calls[c]
         /\ \A g \in Handlers \ {h} : handlers'[g] = handlers[g]
<1>1. PICK rec : rec = [handlers[h] EXCEPT !.pc = "data", !.then = then, !.cached = copy]
  OBVIOUS
<1>2. handlers[h] \in HandlerRecords /\ copy \in Copies /\ h \in Clients
  BY HandlerTypes, ServicesApart DEF DeadlineTypes
<1>3. /\ rec \in HandlerRecords /\ rec.pc = "data" /\ rec.then = then /\ rec.cached = copy
      /\ rec.course = handlers[h].course /\ rec.todo = handlers[h].todo /\ rec.rows = handlers[h].rows
      /\ rec.missed = handlers[h].missed
  BY <1>1, <1>2 DEF HandlerRecords, HandlerPlaces
<1>4. handlers' = [handlers EXCEPT ![h] = rec]
  BY <1>1 DEF GetCourseData, DeadlineTypes
<1>5. Request(h, "course", copy.stamp) /\ copy.stamp \in Int /\ "course" \in YamlFiles
  BY <1>2 DEF GetCourseData, Copies, YamlFiles
<1>6. /\ handlers' \in [Handlers -> HandlerRecords] /\ handlers'[h] = rec
      /\ \A g \in Handlers \ {h} : handlers'[g] = handlers[g]
  BY <1>3, <1>4, HandlerBecomes
<1>7. /\ ClientsStep /\ calls'[h].pc = "sent" /\ calls'[h].what = "course"
      /\ calls'[h].stamp = copy.stamp /\ serving.client # h
      /\ \A c \in Clients \ {h} : calls'[c] = calls[c]
  BY <1>2, <1>5, RequestDoes
<1>. QED
  BY <1>3, <1>6, <1>7

\* What was just sent has no answer yet.
LEMMA JustSent ==
  ASSUME NEW h, calls'[h].pc = "sent", serving.client # h, UNCHANGED own
  PROVE  \A x : AtLeast(h, x)'
BY DEF own, AtLeast, HasAnswer, Serves

LEMMA NoCopyIsRight ==
  ASSUME ContentTypes
  PROVE  CopyRight(NoCopy)
<1>1. 0 <= LastEdit
  BY LastIs
<1>2. WillBeSeen(CourseParts, Unread, 0)
  <2>1. \A p \in CourseParts : disk[FileOf(p)] > 0
    BY CourseIsPart, PartsAreOfFiles, Numbers
  <2>. QED
    BY <2>1 DEF WillBeSeen
<1>. QED
  BY <1>1, <1>2, Blanks DEF CopyRight, Sees

\* A check asks for the course, or for its time.
LEMMA CheckForDirtyCoursesKeeps ==
  ASSUME ContentTypes, DeadlineTypes, DeadlinesInv, UNCHANGED own,
         NEW k \in Checks, CheckForDirtyCourses(k)
  PROVE  StepRight
<1>0. k \in Handlers /\ k \in Clients /\ k \notin Submissions
  BY ServicesApart
<1>1. PICK rec : rec = [NoHandler EXCEPT !.pc = "modified", !.need = dirty]
  OBVIOUS
<1>2. /\ handlers[k].pc = "idle" /\ handlers' = [handlers EXCEPT ![k] = rec]
      /\ Request(k, "course", lastModified)
      /\ UNCHANGED <<tables, timer, lastModified, copy, excused>>
  BY <1>1 DEF CheckForDirtyCourses, Idle
<1>3. /\ rec \in HandlerRecords /\ rec.pc = "modified" /\ rec.then = "select" /\ rec.cached = NoCopy
      /\ rec.course = NoCopy /\ rec.todo = {} /\ DOMAIN rec.rows = {}
  <2>1. dirty \in {"no", "yes"}
    BY DEF DeadlineTypes
  <2>2. rec.rows = NoHandler.rows
    BY <1>1, Blanks DEF HandlerRecords
  <2>. QED
    BY <1>1, <2>1, <2>2, Blanks DEF HandlerRecords, HandlerPlaces
<1>4. /\ handlers' \in [Handlers -> HandlerRecords] /\ handlers'[k] = rec
      /\ \A g \in Handlers \ {k} : handlers'[g] = handlers[g]
  BY <1>0, <1>2, <1>3, HandlerBecomes
<1>5. /\ ClientsStep /\ calls'[k].pc = "sent" /\ calls'[k].what = "course"
      /\ calls'[k].stamp = lastModified /\ serving.client # k
      /\ \A c \in Clients \ {k} : calls'[c] = calls[c]
  <2>1. lastModified \in Int /\ "course" \in YamlFiles
    BY DEF DeadlineTypes, YamlFiles
  <2>. QED
    BY <1>0, <1>2, <2>1, RequestDoes
<1>6. Seen' \subseteq Seen
  BY <1>2, <1>4, <1>5, ServicesApart, SeenShrinks
<1>7. CopyRight(NoCopy)' /\ \A x : AtLeast(k, x)'
  BY <1>5, NoCopyIsRight, SameKnown, JustSent
<1>8. HandlerRight(k)'
  BY <1>3, <1>4, <1>5, <1>7 DEF HandlerRight
<1>9. CheckRight(k)'
  BY <1>3, <1>4 DEF CheckRight, CheckPlaces, UpToDate, ComputedRight, Computing
<1>10. /\ copy' \in Copies /\ CopyRight(copy)' /\ timer' \in {"no", "yes"}
       /\ excused' = excused /\ excused' \subseteq Submissions
  BY <1>2, SameKnown DEF DeadlineTypes, DeadlinesInv, ServiceRight
<1>11. \A g \in Handlers \ {k} : handlers'[g] = handlers[g] /\ calls'[g] = calls[g]
  BY <1>4, <1>5, ServicesApart
<1>12. DeadlineTypes' /\ DeadlinesInv'
  BY <1>0, <1>2, <1>4, <1>6, <1>8, <1>9, <1>10, <1>11, HandlerSteps
<1>. QED
  BY <1>0, <1>5, <1>12 DEF StepRight

LEMMA UpdateCourseSubmissionsKeeps ==
  ASSUME ContentTypes, DeadlineTypes, DeadlinesInv, UNCHANGED own,
         NEW k \in Checks, UpdateCourseSubmissions(k)
  PROVE  StepRight
<1>0. k \in Handlers /\ k \in Clients /\ k \notin Submissions
  BY ServicesApart
<1>1. /\ handlers[k].pc = "update" /\ GetCourseData(k, "select")
      /\ UNCHANGED <<tables, timer, lastModified, copy, excused>>
  BY DEF UpdateCourseSubmissions
<1>2. /\ handlers' \in [Handlers -> HandlerRecords]
      /\ handlers'[k].pc = "data" /\ handlers'[k].then = "select" /\ handlers'[k].cached = copy
      /\ handlers'[k].course = handlers[k].course /\ handlers'[k].todo = handlers[k].todo
      /\ handlers'[k].rows = handlers[k].rows
      /\ ClientsStep /\ calls'[k].pc = "sent" /\ calls'[k].what = "course"
      /\ calls'[k].stamp = copy.stamp /\ serving.client # k
      /\ \A c \in Clients \ {k} : calls'[c] = calls[c]
      /\ \A g \in Handlers \ {k} : handlers'[g] = handlers[g]
  BY <1>0, <1>1, GetCourseDataDoes
<1>3. UNCHANGED schedule /\ UNCHANGED submitted
  BY <1>1 DEF tables
<1>4. Seen' \subseteq Seen
  <2>1. \A j \in Checks : handlers'[j].pc = "modified" =>
          handlers[j].pc = "modified" /\ calls'[j].stamp = calls[j].stamp
    BY <1>2, ServicesApart
  <2>. QED
    BY <1>1, <2>1, SeenShrinks
<1>5. HandlerRight(k)'
  BY <1>0, <1>1, <1>2, <1>3, SameKnown DEF HandlerRight, DeadlinesInv, ServiceRight
<1>6. CheckRight(k)'
  <2>1. CheckPlaces(k)
    BY DEF DeadlinesInv, CheckRight
  <2>2. CheckPlaces(k)' /\ UpToDate(k)' /\ ComputedRight(k)'
    BY <1>2, <1>3, <2>1, JustSent DEF CheckPlaces, UpToDate, ComputedRight, Computing
  <2>. QED
    BY <2>2 DEF CheckRight
<1>7. /\ copy' \in Copies /\ CopyRight(copy)' /\ timer' \in {"no", "yes"}
      /\ excused' = excused /\ excused' \subseteq Submissions
  BY <1>1, SameKnown DEF DeadlineTypes, DeadlinesInv, ServiceRight
<1>8. \A g \in Handlers \ {k} : handlers'[g] = handlers[g] /\ calls'[g] = calls[g]
  BY <1>2, ServicesApart
<1>9. DeadlineTypes' /\ DeadlinesInv'
  BY <1>0, <1>1, <1>2, <1>4, <1>5, <1>6, <1>7, <1>8, HandlerSteps
<1>. QED
  BY <1>0, <1>2, <1>9 DEF StepRight

LEMMA GotCourseDataKeeps ==
  ASSUME ContentTypes, AnswersRight, DeadlineTypes, DeadlinesInv, UNCHANGED own,
         NEW h \in Handlers, GotCourseData(h)
  PROVE  StepRight
<1>0. h \in Clients
  BY ServicesApart
<1>1. PICK a : a = Answer(h)
  OBVIOUS
<1>2. PICK item : item = IF a.status = "same" THEN handlers[h].cached
                         ELSE [data |-> a.data, stamp |-> a.modified, doubtful |-> a.doubtful]
  OBVIOUS
<1>3. /\ handlers[h].pc = "data" /\ calls[h].pc = "answered" /\ a = calls[h].answer
      /\ a.status \in {"same", "data"} /\ TakeAnswer(h)
      /\ UNCHANGED <<tables, timer, lastModified, excused>>
      /\ copy' = IF a.status = "data" THEN item ELSE copy
  BY <1>1, <1>2 DEF GotCourseData, Answered, Answer
<1>4. PICK rec : rec = [handlers[h] EXCEPT !.pc = handlers[h].then,
                          !.course = IF handlers[h].then = "rows" THEN handlers[h].course ELSE item]
  OBVIOUS
<1>5. handlers' = [handlers EXCEPT ![h] = rec]
  <2>1. handlers' = [handlers EXCEPT ![h].pc = handlers[h].then,
                       ![h].course = IF handlers[h].then = "rows" THEN handlers[h].course ELSE item]
    BY <1>1, <1>2 DEF GotCourseData, DeadlineTypes
  <2>. QED
    BY <1>4, <2>1 DEF DeadlineTypes
<1>6. /\ calls[h].what = "course" /\ calls[h].stamp = handlers[h].cached.stamp
      /\ CopyRight(handlers[h].cached) /\ CopyRight(handlers[h].course)
      /\ \A s \in DOMAIN handlers[h].rows : handlers[h].rows[s].schedule <= schedule
  BY <1>3 DEF DeadlinesInv, HandlerRight
<1>7. AnswerRight(a, "course", calls[h].stamp)
  BY <1>0, <1>3, <1>6 DEF AnswersRight
<1>8. a \in AnswerRecords
  <2>1. calls[h] \in CallRecords
    BY <1>0 DEF ContentTypes
  <2>. QED
    BY <1>3, <2>1 DEF CallRecords
<1>9. item \in Copies /\ CopyRight(item) /\ a.modified <= item.stamp
  <2>1. CASE a.status = "same"
    <3>1. item = handlers[h].cached /\ a.modified <= item.stamp
      BY <1>2, <1>6, <1>7, <2>1 DEF AnswerRight
    <3>. QED
      BY <1>6, <3>1, HandlerTypes
  <2>2. CASE a.status = "data"
    <3>1. /\ item.data = a.data /\ item.stamp = a.modified /\ item.doubtful = a.doubtful
          /\ item = [data |-> a.data, stamp |-> a.modified, doubtful |-> a.doubtful]
      BY <1>2, <2>2
    <3>2. item \in Copies /\ a.modified \in Int
      BY <1>8, <3>1 DEF Copies, AnswerRecords
    <3>3. Low("course", a.modified) /\ Sees(CourseParts, a.data, a.modified, a.doubtful)
      BY <1>7, <2>2 DEF AnswerRight
    <3>4. a.modified <= LastEdit
      BY <3>2, <3>3, LowIsPast
    <3>. QED
      BY <3>1, <3>2, <3>3, <3>4 DEF CopyRight
  <2>. QED
    BY <1>3, <2>1, <2>2
<1>10. /\ rec \in HandlerRecords /\ rec.pc = handlers[h].then /\ rec.then = handlers[h].then
       /\ rec.cached = handlers[h].cached /\ rec.todo = handlers[h].todo /\ rec.rows = handlers[h].rows
       /\ rec.missed = handlers[h].missed
       /\ rec.course = IF handlers[h].then = "rows" THEN handlers[h].course ELSE item
  <2>1. /\ handlers[h] \in HandlerRecords /\ handlers[h].then \in HandlerPlaces
        /\ handlers[h].course \in Copies
    BY HandlerTypes DEF HandlerPlaces
  <2>. QED
    BY <1>4, <1>9, <2>1 DEF HandlerRecords
<1>11. /\ handlers' \in [Handlers -> HandlerRecords] /\ handlers'[h] = rec
       /\ \A g \in Handlers \ {h} : handlers'[g] = handlers[g]
  BY <1>5, <1>10, HandlerBecomes
<1>12. ClientsStep /\ calls'[h] = NoCall /\ \A c \in Clients \ {h} : calls'[c] = calls[c]
  BY <1>0, <1>3, TakeAnswerDoes
<1>13. /\ handlers[h].then \in {"select", "schedules", "rows"}
       /\ UNCHANGED <<schedule, submitted, deadlines, lastModified>>
  BY <1>3, HandlerTypes DEF tables
<1>14. \A g \in Handlers \ {h} : handlers'[g] = handlers[g] /\ calls'[g] = calls[g]
  BY <1>11, <1>12, ServicesApart
<1>15. Seen' \subseteq Seen
  <2>1. \A j \in Checks : handlers'[j].pc = "modified" =>
          handlers[j].pc = "modified" /\ calls'[j].stamp = calls[j].stamp
    BY <1>10, <1>11, <1>13, <1>14, ServicesApart
  <2>. QED
    BY <1>13, <2>1, SeenShrinks
<1>16. /\ copy' \in Copies /\ CopyRight(copy)' /\ timer' \in {"no", "yes"}
       /\ excused' = excused /\ excused' \subseteq Submissions
  BY <1>3, <1>9, SameKnown DEF DeadlineTypes, DeadlinesInv, ServiceRight
<1>17. HandlerRight(h)'
  <2>1. CopyRight(rec.cached) /\ CopyRight(rec.course)
    BY <1>6, <1>9, <1>10
  <2>. QED
    BY <1>6, <1>10, <1>11, <1>13, <2>1, SameKnown DEF HandlerRight
<1>18. ASSUME UpToDate(h) PROVE UpToDate(h)'
  <2>1. SUFFICES ASSUME NEW x \in Seen PROVE x <= rec.course.stamp
    BY <1>10, <1>11, <1>13, <1>15 DEF UpToDate
  <2>2. x \in Int /\ item.stamp \in Int /\ a.modified \in Int
    BY <1>8, <1>9 DEF DeadlinesInv, ServiceRight, Copies, AnswerRecords
  <2>3. handlers[h].then # "rows" => x <= item.stamp
    <3>1. HasAnswer(h)
      BY <1>3 DEF HasAnswer
    <3>2. handlers[h].then # "rows" => x <= a.modified
      BY <1>3, <1>18, <2>1, <3>1 DEF UpToDate, AtLeast
    <3>. QED
      BY <1>9, <2>2, <3>2
  <2>. QED
    BY <1>3, <1>10, <1>18, <2>1, <2>3 DEF UpToDate
<1>19. ASSUME h \in Submissions
       PROVE  InsertPlaces(h)' /\ (h \in submitted \ excused' /\ RowRight(h) => RowRight(h)')
  <2>1. InsertPlaces(h)
    BY <1>19 DEF DeadlinesInv
  <2>2. rec.pc \in {"schedules", "rows"} /\ h \in submitted
    BY <1>3, <1>10, <1>13, <2>1 DEF InsertPlaces, Idle
  <2>3. InsertPlaces(h)'
    BY <1>10, <1>11, <1>13, <2>1, <2>2 DEF InsertPlaces, Idle
  <2>4. RowRight(h) => RowRight(h)'
    <3>1. \A row : Good(row) => Good(row)'
      BY <1>13, <1>15, SameKnown
    <3>2. handlers'[h].pc \notin {"idle", "insert"}
      BY <1>11, <2>2
    <3>. QED
      BY <1>13, <1>18, <3>1, <3>2 DEF RowRight, Idle
  <2>. QED
    BY <2>3, <2>4
<1>20. ASSUME h \in Checks
       PROVE  CheckRight(h)' /\ handlers'[h].pc \notin {"idle", "modified"}
  <2>1. CheckRight(h)
    BY <1>20 DEF DeadlinesInv
  <2>2. rec.pc \in {"select", "rows"}
    BY <1>10, <1>13, <2>1 DEF CheckRight, CheckPlaces
  <2>3. CheckPlaces(h)'
    BY <1>10, <1>11, <1>13, <2>1, <2>2 DEF CheckRight, CheckPlaces
  <2>4. UpToDate(h)' \/ handlers'[h].missed = Submissions
    BY <1>10, <1>11, <1>18, <2>1 DEF CheckRight
  <2>5. ComputedRight(h)'
    <3>1. Computing(h)' => Computing(h)
      BY <1>3, <1>10, <1>11 DEF Computing, Idle
    <3>2. \A row : Good(row) => Good(row)'
      BY <1>13, <1>15, SameKnown
    <3>. QED
      BY <1>10, <1>11, <1>13, <2>1, <3>1, <3>2 DEF CheckRight, ComputedRight
  <2>. QED
    BY <1>11, <2>2, <2>3, <2>4, <2>5 DEF CheckRight
<1>21. DeadlineTypes' /\ DeadlinesInv'
  BY <1>3, <1>11, <1>14, <1>15, <1>16, <1>17, <1>19, <1>20, HandlerSteps
<1>. QED
  BY <1>0, <1>12, <1>21 DEF StepRight

LEMMA SelectSubmissionsKeeps ==
  ASSUME ContentTypes, DeadlineTypes, DeadlinesInv, UNCHANGED own,
         NEW k \in Checks, SelectSubmissions(k)
  PROVE  StepRight
<1>0. k \in Handlers /\ k \notin Submissions
  BY ServicesApart
<1>1. PICK rec : rec = [handlers[k] EXCEPT !.pc = "schedules", !.then = "rows", !.todo = submitted]
  OBVIOUS
<1>2. /\ handlers[k].pc = "select"
      /\ UNCHANGED <<calls, tables, timer, lastModified, copy, excused>>
      /\ handlers' = [handlers EXCEPT ![k] = rec]
  BY <1>0, <1>1 DEF SelectSubmissions, DeadlineTypes
<1>3. /\ rec \in HandlerRecords /\ rec.pc = "schedules" /\ rec.then = "rows" /\ rec.todo = submitted
      /\ rec.cached = handlers[k].cached /\ rec.course = handlers[k].course
      /\ rec.rows = handlers[k].rows /\ rec.missed = handlers[k].missed
  <2>1. handlers[k] \in HandlerRecords /\ submitted \subseteq Submissions
    BY <1>0, HandlerTypes DEF DeadlineTypes
  <2>. QED
    BY <1>1, <2>1 DEF HandlerRecords, HandlerPlaces
<1>4. /\ handlers' \in [Handlers -> HandlerRecords] /\ handlers'[k] = rec
      /\ \A g \in Handlers \ {k} : handlers'[g] = handlers[g]
  BY <1>0, <1>2, <1>3, HandlerBecomes
<1>5. UNCHANGED <<schedule, submitted, lastModified>>
  BY <1>2 DEF tables
<1>6. Seen' \subseteq Seen
  <2>1. \A j \in Checks : handlers'[j].pc = "modified" =>
          handlers[j].pc = "modified" /\ calls'[j].stamp = calls[j].stamp
    BY <1>2, <1>3, <1>4, ServicesApart
  <2>. QED
    BY <1>5, <2>1, SeenShrinks
<1>7. HandlerRight(k)'
  <2>1. HandlerRight(k)
    BY <1>0 DEF DeadlinesInv
  <2>. QED
    BY <1>3, <1>4, <1>5, <2>1, SameKnown DEF HandlerRight
<1>8. CheckRight(k)'
  <2>1. CheckRight(k)
    BY DEF DeadlinesInv
  <2>2. CheckPlaces(k)' /\ ComputedRight(k)'
    BY <1>3, <1>4, <1>5, <2>1 DEF CheckRight, CheckPlaces, ComputedRight
  <2>3. UpToDate(k) => UpToDate(k)'
    BY <1>2, <1>3, <1>4, <1>6 DEF UpToDate
  <2>. QED
    BY <1>3, <1>4, <2>1, <2>2, <2>3 DEF CheckRight
<1>9. /\ copy' \in Copies /\ CopyRight(copy)' /\ timer' \in {"no", "yes"}
      /\ excused' = excused /\ excused' \subseteq Submissions
  BY <1>2, SameKnown DEF DeadlineTypes, DeadlinesInv, ServiceRight
<1>10. \A g \in Handlers \ {k} : handlers'[g] = handlers[g] /\ calls'[g] = calls[g]
  BY <1>2, <1>4
<1>11. handlers'[k].pc \notin {"idle", "modified"}
  BY <1>3, <1>4
<1>12. DeadlineTypes' /\ DeadlinesInv'
  BY <1>0, <1>2, <1>4, <1>6, <1>7, <1>8, <1>9, <1>10, <1>11, HandlerSteps
<1>. QED
  BY <1>2, <1>12, NoCalls DEF StepRight

LEMMA GetLessonSchedulesKeeps ==
  ASSUME ContentTypes, DeadlineTypes, DeadlinesInv, UNCHANGED own,
         NEW h \in Handlers, GetLessonSchedules(h)
  PROVE  StepRight
<1>1. /\ handlers[h].pc = "schedules" /\ GetCourseData(h, "rows")
      /\ UNCHANGED <<tables, timer, lastModified, copy, excused>>
  BY DEF GetLessonSchedules
<1>2. /\ handlers' \in [Handlers -> HandlerRecords]
      /\ handlers'[h].pc = "data" /\ handlers'[h].then = "rows" /\ handlers'[h].cached = copy
      /\ handlers'[h].course = handlers[h].course /\ handlers'[h].todo = handlers[h].todo
      /\ handlers'[h].rows = handlers[h].rows /\ handlers'[h].missed = handlers[h].missed
      /\ ClientsStep /\ calls'[h].pc = "sent" /\ calls'[h].what = "course"
      /\ calls'[h].stamp = copy.stamp /\ serving.client # h
      /\ \A c \in Clients \ {h} : calls'[c] = calls[c]
      /\ \A g \in Handlers \ {h} : handlers'[g] = handlers[g]
  BY <1>1, GetCourseDataDoes
<1>3. UNCHANGED <<schedule, submitted, deadlines, lastModified>>
  BY <1>1 DEF tables
<1>4. \A g \in Handlers \ {h} : handlers'[g] = handlers[g] /\ calls'[g] = calls[g]
  BY <1>2, ServicesApart
<1>5. Seen' \subseteq Seen
  <2>1. \A j \in Checks : handlers'[j].pc = "modified" =>
          handlers[j].pc = "modified" /\ calls'[j].stamp = calls[j].stamp
    BY <1>2, <1>4, ServicesApart
  <2>. QED
    BY <1>3, <2>1, SeenShrinks
<1>6. HandlerRight(h)'
  BY <1>1, <1>2, <1>3, SameKnown DEF HandlerRight, DeadlinesInv, ServiceRight
<1>7. UpToDate(h) => UpToDate(h)'
  BY <1>1, <1>2, <1>5 DEF UpToDate
<1>8. /\ copy' \in Copies /\ CopyRight(copy)' /\ timer' \in {"no", "yes"}
      /\ excused' = excused /\ excused' \subseteq Submissions
  BY <1>1, SameKnown DEF DeadlineTypes, DeadlinesInv, ServiceRight
<1>9. \A row : Good(row) => Good(row)'
  BY <1>3, <1>5, SameKnown
<1>10. ASSUME h \in Submissions
       PROVE  InsertPlaces(h)' /\ (h \in submitted \ excused' /\ RowRight(h) => RowRight(h)')
  <2>1. InsertPlaces(h)
    BY <1>10 DEF DeadlinesInv
  <2>2. InsertPlaces(h)'
    BY <1>1, <1>2, <1>3, <2>1 DEF InsertPlaces, Idle
  <2>3. RowRight(h) => RowRight(h)'
    BY <1>2, <1>3, <1>7, <1>9 DEF RowRight, Idle
  <2>. QED
    BY <2>2, <2>3
<1>11. ASSUME h \in Checks
       PROVE  CheckRight(h)' /\ handlers'[h].pc \notin {"idle", "modified"}
  <2>1. CheckRight(h)
    BY <1>11 DEF DeadlinesInv
  <2>2. CheckPlaces(h)'
    BY <1>2, <1>3, <2>1 DEF CheckRight, CheckPlaces
  <2>3. Computing(h)
    BY <1>1, <2>1 DEF CheckRight, CheckPlaces, Computing, Idle
  <2>4. ComputedRight(h)'
    BY <1>2, <1>3, <1>9, <2>1, <2>3 DEF CheckRight, ComputedRight
  <2>. QED
    BY <1>2, <1>7, <2>1, <2>2, <2>4 DEF CheckRight
<1>12. DeadlineTypes' /\ DeadlinesInv'
  BY <1>1, <1>2, <1>4, <1>5, <1>6, <1>8, <1>10, <1>11, HandlerSteps
<1>. QED
  BY <1>2, <1>12 DEF StepRight

LEMMA ReadLessonSchedulesKeeps ==
  ASSUME ContentTypes, DeadlineTypes, DeadlinesInv, UNCHANGED own,
         NEW h \in Handlers, ReadLessonSchedules(h)
  PROVE  StepRight
<1>0. /\ handlers[h].pc = "rows" /\ UNCHANGED <<calls, tables, timer, lastModified, copy, excused>>
      /\ handlers[h] \in HandlerRecords /\ handlers[h].course \in Copies /\ handlers[h].rows \in RowsOf
      /\ handlers[h].todo \subseteq Submissions /\ handlers[h].missed \subseteq Submissions
      /\ schedule \in Nat
  BY HandlerTypes DEF ReadLessonSchedules, DeadlineTypes
<1>1. PICK s \in handlers[h].todo, version \in {0, schedule} :
        handlers' = [handlers EXCEPT
          ![h].pc = IF h \in Checks THEN "schedules" ELSE "insert",
          ![h].todo = @ \ {s},
          ![h].rows = [t \in DOMAIN @ \cup {s} |-> IF t = s
             THEN [data |-> handlers[h].course.data, doubtful |-> handlers[h].course.doubtful,
                   schedule |-> version] ELSE @[t]],
          ![h].missed = IF version = 0 THEN @ \cup {s} ELSE @]
  BY DEF ReadLessonSchedules
<1>2. PICK row : row = [data |-> handlers[h].course.data, doubtful |-> handlers[h].course.doubtful,
                        schedule |-> version]
  OBVIOUS
<1>3. PICK rows : rows = [t \in DOMAIN handlers[h].rows \cup {s} |->
                            IF t = s THEN row ELSE handlers[h].rows[t]]
  OBVIOUS
<1>4. PICK missed : missed = IF version = 0 THEN handlers[h].missed \cup {s} ELSE handlers[h].missed
  OBVIOUS
<1>5. PICK rec : rec = [handlers[h] EXCEPT !.pc = IF h \in Checks THEN "schedules" ELSE "insert",
                          !.todo = handlers[h].todo \ {s}, !.rows = rows, !.missed = missed]
  OBVIOUS
<1>6. handlers' = [handlers EXCEPT ![h] = rec]
  <2>1. handlers' = [handlers EXCEPT ![h].pc = IF h \in Checks THEN "schedules" ELSE "insert",
                       ![h].todo = handlers[h].todo \ {s}, ![h].rows = rows, ![h].missed = missed]
    BY <1>1, <1>2, <1>3, <1>4 DEF DeadlineTypes
  <2>. QED
    BY <1>5, <2>1 DEF DeadlineTypes
<1>7. /\ row \in RowRecords /\ row.data = handlers[h].course.data
      /\ row.doubtful = handlers[h].course.doubtful /\ row.schedule = version
      /\ row.schedule <= schedule
  BY <1>0, <1>2 DEF RowRecords, Copies
<1>8. /\ s \in Submissions
      /\ rows \in RowsOf /\ DOMAIN rows = DOMAIN handlers[h].rows \cup {s} /\ rows[s] = row
      /\ \A t \in DOMAIN handlers[h].rows \ {s} : rows[t] = handlers[h].rows[t]
  <2>1. PICK old \in RowsOf : old = handlers[h].rows
    BY <1>0
  <2>2. rows = [t \in DOMAIN old \cup {s} |-> IF t = s THEN row ELSE old[t]]
    BY <1>3, <2>1
  <2>3. s \in Submissions /\ row \in RowRecords
    BY <1>0, <1>7
  <2>4. /\ rows \in RowsOf /\ DOMAIN rows = DOMAIN old \cup {s} /\ rows[s] = row
        /\ \A t \in DOMAIN old \ {s} : rows[t] = old[t]
    BY <2>2, <2>3, RowAdded
  <2>. QED
    BY <2>1, <2>3, <2>4
<1>9. /\ handlers[h].missed \subseteq missed /\ missed \subseteq Submissions
      /\ missed \subseteq handlers[h].missed \cup {s} /\ (s \in missed \/ version = schedule)
  BY <1>0, <1>1, <1>4, <1>8
<1>10. /\ rec \in HandlerRecords /\ rec.pc = IF h \in Checks THEN "schedules" ELSE "insert"
       /\ rec.todo = handlers[h].todo \ {s} /\ rec.rows = rows /\ rec.then = handlers[h].then
       /\ rec.cached = handlers[h].cached /\ rec.course = handlers[h].course /\ rec.missed = missed
  BY <1>0, <1>5, <1>8, <1>9 DEF HandlerRecords, HandlerPlaces
<1>11. /\ handlers' \in [Handlers -> HandlerRecords] /\ handlers'[h] = rec
       /\ \A g \in Handlers \ {h} : handlers'[g] = handlers[g]
  BY <1>6, <1>10, HandlerBecomes
<1>12. UNCHANGED <<schedule, submitted, deadlines, lastModified>>
  BY <1>0 DEF tables
<1>13. \A g \in Handlers \ {h} : handlers'[g] = handlers[g] /\ calls'[g] = calls[g]
  BY <1>0, <1>11
<1>14. Seen' \subseteq Seen
  <2>1. \A j \in Checks : handlers'[j].pc = "modified" =>
          handlers[j].pc = "modified" /\ calls'[j].stamp = calls[j].stamp
    BY <1>0, <1>10, <1>11, <1>13, ServicesApart
  <2>. QED
    BY <1>12, <2>1, SeenShrinks
<1>15. HandlerRight(h)'
  <2>1. HandlerRight(h)
    BY DEF DeadlinesInv
  <2>2. \A t \in DOMAIN rows : rows[t].schedule <= schedule
    BY <1>7, <1>8, <2>1 DEF HandlerRight
  <2>. QED
    BY <1>10, <1>11, <1>12, <2>1, <2>2, SameKnown DEF HandlerRight
<1>16. \A r : Good(r) => Good(r)'
  BY <1>12, <1>14, SameKnown
<1>17. UpToDate(h) /\ version = schedule => Good(row)
  <2>1. SUFFICES ASSUME UpToDate(h), version = schedule, NEW x \in Seen
                 PROVE  Sees({"course"}, row.data, x, row.doubtful)
    BY <1>7 DEF Good
  <2>2. PICK c \in Copies : c = handlers[h].course
    BY <1>0
  <2>3. x <= c.stamp /\ CopyRight(c) /\ x \in Int
    BY <1>0, <2>1, <2>2 DEF UpToDate, DeadlinesInv, HandlerRight, ServiceRight
  <2>4. c.stamp \in Int /\ \A f \in Files : disk[f] \in Nat
    BY Numbers DEF Copies
  <2>5. c.doubtful = "yes" \/ (c.data["course"] < disk["course"] => disk["course"] > c.stamp)
    BY <2>3, CourseIsPart DEF CopyRight, Sees, WillBeSeen
  <2>6. Sees({"course"}, c.data, x, c.doubtful)
    BY <2>3, <2>4, <2>5, CourseIsPart DEF Sees, WillBeSeen, Files
  <2>. QED
    BY <1>7, <2>2, <2>6
<1>18. ASSUME h \in Submissions
       PROVE  InsertPlaces(h)' /\ (h \in submitted \ excused' /\ RowRight(h) => RowRight(h)')
  <2>1. InsertPlaces(h) /\ h \notin Checks
    BY <1>18, ServicesApart DEF DeadlinesInv
  <2>2. s = h
    BY <2>1 DEF InsertPlaces
  <2>3. InsertPlaces(h)'
    BY <1>0, <1>8, <1>10, <1>11, <1>12, <2>1, <2>2 DEF InsertPlaces, Idle
  <2>4. ASSUME RowRight(h) PROVE RowRight(h)'
    <3>1. CASE Good(deadlines[h])
      BY <1>12, <1>16, <3>1 DEF RowRight
    <3>2. CASE deadlines[h] = NoRow /\ UpToDate(h)
      <4>1. version = schedule => Good(row)'
        BY <1>16, <1>17, <3>2
      <4>2. handlers'[h].rows[h] = row /\ handlers'[h].pc = "insert" /\ handlers'[h].missed = missed
        BY <1>8, <1>10, <1>11, <2>1, <2>2
      <4>3. UpToDate(h)'
        BY <4>2 DEF UpToDate
      <4>4. Good(handlers[h].rows[h])' \/ h \in handlers'[h].missed
        BY <1>9, <2>2, <4>1, <4>2 DEF Good
      <4>. QED
        BY <1>12, <3>2, <4>2, <4>3, <4>4 DEF RowRight, Idle
    <3>. QED
      BY <2>4, <3>1, <3>2 DEF RowRight
  <2>. QED
    BY <2>3, <2>4
<1>19. ASSUME h \in Checks
       PROVE  CheckRight(h)' /\ handlers'[h].pc \notin {"idle", "modified"}
  <2>1. CheckRight(h)
    BY <1>19 DEF DeadlinesInv
  <2>2. Computing(h)
    BY <1>0, <2>1 DEF CheckRight, CheckPlaces, Computing, Idle
  <2>3. CheckPlaces(h)'
    BY <1>0, <1>8, <1>10, <1>11, <1>12, <1>19, <2>1 DEF CheckRight, CheckPlaces
  <2>4. UpToDate(h) => UpToDate(h)'
    BY <1>0, <1>10, <1>11, <1>14, <1>19 DEF UpToDate
  <2>5. handlers[h].missed = Submissions => missed = Submissions
    BY <1>9
  <2>6. ComputedRight(h)'
    <3>1. SUFFICES ASSUME NEW t \in submitted \ missed, t \notin rec.todo
                   PROVE  t \in DOMAIN rec.rows /\ Good(rec.rows[t])
      BY <1>10, <1>11, <1>12, <1>16 DEF ComputedRight
    <3>2. CASE t = s
      <4>1. handlers[h].missed # Submissions
        BY <1>8, <1>9, <3>1, <3>2
      <4>2. UpToDate(h) /\ version = schedule
        BY <1>9, <2>1, <3>1, <3>2, <4>1 DEF CheckRight
      <4>. QED
        BY <1>8, <1>10, <1>17, <3>2, <4>2
    <3>3. CASE t # s
      <4>1. t \notin handlers[h].todo /\ t \notin handlers[h].missed
        BY <1>9, <1>10, <3>1, <3>3
      <4>2. t \in DOMAIN handlers[h].rows /\ Good(handlers[h].rows[t])
        BY <2>1, <2>2, <3>1, <4>1 DEF CheckRight, ComputedRight
      <4>. QED
        BY <1>8, <1>10, <3>3, <4>2
    <3>. QED
      BY <3>2, <3>3
  <2>. QED
    BY <1>10, <1>11, <1>19, <2>1, <2>3, <2>4, <2>5, <2>6 DEF CheckRight
<1>20. /\ copy' \in Copies /\ CopyRight(copy)' /\ timer' \in {"no", "yes"}
       /\ excused' = excused /\ excused' \subseteq Submissions
  BY <1>0, SameKnown DEF DeadlineTypes, DeadlinesInv, ServiceRight
<1>21. DeadlineTypes' /\ DeadlinesInv'
  BY <1>0, <1>11, <1>13, <1>14, <1>15, <1>18, <1>19, <1>20, HandlerSteps
<1>. QED
  BY <1>0, <1>21, NoCalls DEF StepRight

LEMMA InsertFailsKeeps ==
  ASSUME ContentTypes, DeadlineTypes, DeadlinesInv, UNCHANGED own,
         NEW s \in Submissions, InsertFails(s)
  PROVE  StepRight
<1>0. s \in Handlers /\ s \in Clients /\ s \notin Checks
  BY ServicesApart
<1>1. /\ handlers' = [handlers EXCEPT ![s] = NoHandler] /\ (TakeAnswer(s) \/ UNCHANGED calls)
      /\ handlers[s].pc \in {"data", "insert"}
      /\ excused' = excused \cup {s} /\ UNCHANGED <<tables, timer, lastModified, copy>>
  BY DEF InsertFails
<1>2. /\ handlers' \in [Handlers -> HandlerRecords] /\ handlers'[s] = NoHandler
      /\ \A g \in Handlers \ {s} : handlers'[g] = handlers[g]
  BY <1>0, <1>1, Blanks, HandlerBecomes
<1>3. ClientsStep /\ \A c \in Clients \ {s} : calls'[c] = calls[c]
  BY <1>0, <1>1, TakeAnswerDoes, NoCalls
<1>4. UNCHANGED <<schedule, submitted, deadlines, lastModified>>
  BY <1>1 DEF tables
<1>5. \A g \in Handlers \ {s} : handlers'[g] = handlers[g] /\ calls'[g] = calls[g]
  BY <1>2, <1>3, ServicesApart
<1>6. Seen' \subseteq Seen
  <2>1. \A j \in Checks : handlers'[j].pc = "modified" =>
          handlers[j].pc = "modified" /\ calls'[j].stamp = calls[j].stamp
    BY <1>5, ServicesApart
  <2>. QED
    BY <1>4, <2>1, SeenShrinks
<1>7. HandlerRight(s)'
  BY <1>2, <1>4, Blanks, NoCopyIsRight, SameKnown DEF HandlerRight
<1>8. InsertPlaces(s)'
  <2>1. InsertPlaces(s)
    BY DEF DeadlinesInv
  <2>. QED
    BY <1>2, <1>4, <2>1, Blanks DEF InsertPlaces, Idle
<1>9. /\ copy' \in Copies /\ CopyRight(copy)' /\ timer' \in {"no", "yes"}
      /\ excused \subseteq excused' /\ excused' \subseteq Submissions /\ s \in excused'
  BY <1>1, SameKnown DEF DeadlineTypes, DeadlinesInv, ServiceRight
<1>10. DeadlineTypes' /\ DeadlinesInv'
  BY <1>0, <1>1, <1>2, <1>5, <1>6, <1>7, <1>8, <1>9, HandlerSteps
<1>. QED
  BY <1>0, <1>3, <1>10 DEF StepRight

LEMMA CommitDeadlinesKeeps ==
  ASSUME ContentTypes, DeadlineTypes, DeadlinesInv, UNCHANGED own,
         NEW k \in Checks, CommitDeadlines(k)
  PROVE  StepRight
<1>0. k \in Handlers /\ \A s \in Submissions : s \in Handlers /\ s # k
  BY ServicesApart
<1>1. PICK rows \in RowsOf : rows = handlers[k].rows
  BY <1>0, HandlerTypes
<1>2. /\ handlers[k].pc = "schedules" /\ handlers[k].todo = {}
      /\ deadlines' = [s \in Submissions |-> IF s \in DOMAIN rows THEN rows[s] ELSE NoRow]
      /\ handlers' = [handlers EXCEPT ![k] = NoHandler] /\ dirty' = "no" /\ timer' = "yes"
      /\ excused' = handlers[k].missed
      /\ UNCHANGED <<calls, schedule, submitted, lastModified, copy>>
  BY <1>1 DEF CommitDeadlines, Committing
<1>3. /\ handlers' \in [Handlers -> HandlerRecords] /\ handlers'[k] = NoHandler
      /\ \A g \in Handlers \ {k} : handlers'[g] = handlers[g]
  BY <1>0, <1>2, Blanks, HandlerBecomes
<1>4. DeadlineTypes'
  <2>1. deadlines' \in [Submissions -> RowRecords]
    BY <1>2, RowsAre, Blanks
  <2>2. excused' \subseteq Submissions
    BY <1>0, <1>2, HandlerTypes
  <2>. QED
    BY <1>2, <1>3, <2>1, <2>2 DEF DeadlineTypes
<1>5. Seen' \subseteq Seen
  <2>1. \A j \in Checks : handlers'[j].pc = "modified" =>
          handlers[j].pc = "modified" /\ calls'[j].stamp = calls[j].stamp
    BY <1>2, <1>3, Blanks, ServicesApart
  <2>. QED
    BY <1>2, <2>1, SeenShrinks
<1>6. \A g \in Handlers \ {k} : SameHandler(handlers[g], handlers'[g])
  BY <1>3, SameIsSame
<1>7. ServiceRight'
  BY <1>2, <1>5, ServiceStays, SameKnown DEF DeadlinesInv, ServiceRight
<1>8. ASSUME NEW g \in Handlers PROVE HandlerRight(g)'
  <2>1. CASE g = k
    BY <1>3, <2>1, Blanks, NoCopyIsRight, SameKnown DEF HandlerRight
  <2>2. CASE g # k
    BY <1>2, <1>5, <1>6, <2>2, OtherHandlers
  <2>. QED
    BY <2>1, <2>2
<1>9. ASSUME NEW j \in Checks PROVE CheckRight(j)'
  <2>1. CASE j = k
    BY <1>3, <2>1, Blanks DEF CheckRight, CheckPlaces, UpToDate, ComputedRight, Computing, Idle
  <2>2. CASE j # k
    <3>1. j \in Handlers /\ handlers'[j].missed \subseteq Submissions
      BY <1>3, ServicesApart DEF HandlerRecords
    <3>. QED
      BY <1>2, <1>5, <1>6, <2>2, <3>1, OtherChecks
  <2>. QED
    BY <2>1, <2>2
<1>10. ASSUME NEW s \in Submissions PROVE InsertPlaces(s)'
  <2>1. InsertPlaces(s) /\ handlers'[s] = handlers[s] /\ HandlerRight(k) /\ CheckPlaces(k)
    BY <1>0, <1>3 DEF DeadlinesInv, CheckRight
  <2>2. deadlines'[s].schedule <= schedule
    <3>1. schedule \in Nat
      BY DEF DeadlineTypes
    <3>2. s \in DOMAIN rows => rows[s].schedule <= schedule
      BY <1>1, <2>1 DEF HandlerRight
    <3>. QED
      BY <1>2, <3>1, <3>2, Blanks
  <2>3. s \notin submitted => deadlines'[s] = NoRow
    BY <1>1, <1>2, <2>1 DEF CheckPlaces
  <2>. QED
    BY <1>2, <2>1, <2>2, <2>3 DEF InsertPlaces, Idle
<1>11. InsertRight'
  <2>1. SUFFICES ASSUME NEW s \in submitted \ handlers[k].missed PROVE RowRight(s)'
    BY <1>2 DEF InsertRight
  <2>2. CheckRight(k) /\ Computing(k) /\ s \in Submissions
    BY <1>2 DEF DeadlinesInv, CheckRight, CheckPlaces, Computing, Idle, DeadlineTypes
  <2>3. s \in DOMAIN rows /\ Good(rows[s])
    BY <1>1, <1>2, <2>1, <2>2 DEF CheckRight, ComputedRight
  <2>4. deadlines'[s] = rows[s]
    BY <1>2, <2>2, <2>3
  <2>5. Good(rows[s])'
    BY <1>2, <1>5, <2>3, SameKnown
  <2>6. Good(deadlines[s])'
    BY <2>4, <2>5 DEF Good
  <2>. QED
    BY <2>6 DEF RowRight
<1>. QED
  BY <1>2, <1>4, <1>7, <1>8, <1>9, <1>10, <1>11, NoCalls DEF StepRight, DeadlinesInv

LEMMA InsertDeadlinesKeeps ==
  ASSUME ContentTypes, DeadlineTypes, DeadlinesInv, UNCHANGED own,
         NEW s \in Submissions, InsertDeadlines(s)
  PROVE  StepRight
<1>0. s \in Handlers /\ s \notin Checks
  BY ServicesApart
<1>1. /\ handlers[s].pc = "insert"
      /\ deadlines' = [deadlines EXCEPT ![s] = IF deadlines[s] = NoRow THEN handlers[s].rows[s]
                                               ELSE deadlines[s]]
      /\ handlers' = [handlers EXCEPT ![s] = NoHandler]
      /\ excused' = excused \cup handlers[s].missed
      /\ UNCHANGED <<calls, dirty, timer, schedule, submitted, lastModified, copy>>
  BY DEF InsertDeadlines, DeadlineTypes
<1>2. /\ handlers' \in [Handlers -> HandlerRecords] /\ handlers'[s] = NoHandler
      /\ \A g \in Handlers \ {s} : handlers'[g] = handlers[g]
  BY <1>0, <1>1, Blanks, HandlerBecomes
<1>3. PICK row \in RowRecords : row = handlers[s].rows[s] /\ row.schedule <= schedule
  <2>1. s \in DOMAIN handlers[s].rows /\ HandlerRight(s)
    BY <1>0, <1>1 DEF DeadlinesInv, InsertPlaces
  <2>2. handlers[s].rows \in RowsOf
    BY <1>0, HandlerTypes
  <2>3. handlers[s].rows[s] \in RowRecords
    BY <2>1, <2>2, RowsAre
  <2>. QED
    BY <2>1, <2>3 DEF HandlerRight
<1>4. /\ deadlines' \in [Submissions -> RowRecords]
      /\ deadlines'[s] = IF deadlines[s] = NoRow THEN row ELSE deadlines[s]
      /\ \A r \in Submissions \ {s} : deadlines'[r] = deadlines[r]
  <2>1. deadlines \in [Submissions -> RowRecords]
    BY DEF DeadlineTypes
  <2>. QED
    BY <1>1, <1>3, <2>1
<1>5. DeadlineTypes'
  <2>1. excused' \subseteq Submissions
    BY <1>0, <1>1, HandlerTypes DEF DeadlineTypes
  <2>. QED
    BY <1>1, <1>2, <1>4, <2>1 DEF DeadlineTypes
<1>6. Seen' \subseteq Seen
  <2>1. \A j \in Checks : handlers'[j].pc = "modified" =>
          handlers[j].pc = "modified" /\ calls'[j].stamp = calls[j].stamp
    BY <1>1, <1>2, Blanks, ServicesApart
  <2>. QED
    BY <1>1, <2>1, SeenShrinks
<1>7. \A g \in Handlers \ {s} : SameHandler(handlers[g], handlers'[g])
  BY <1>2, SameIsSame
<1>8. ServiceRight'
  BY <1>1, <1>6, ServiceStays, SameKnown DEF DeadlinesInv, ServiceRight
<1>9. ASSUME NEW g \in Handlers PROVE HandlerRight(g)'
  <2>1. CASE g = s
    BY <1>2, <2>1, Blanks, NoCopyIsRight, SameKnown DEF HandlerRight
  <2>2. CASE g # s
    BY <1>1, <1>6, <1>7, <2>2, OtherHandlers
  <2>. QED
    BY <2>1, <2>2
<1>10. ASSUME NEW k \in Checks PROVE CheckRight(k)'
  <2>1. k \in Handlers /\ k # s /\ handlers'[k].missed \subseteq Submissions
    BY <1>0, <1>2, ServicesApart DEF HandlerRecords
  <2>. QED
    BY <1>1, <1>6, <1>7, <2>1, OtherChecks
<1>11. ASSUME NEW r \in Submissions \ {s}
       PROVE  InsertPlaces(r)' /\ (RowRight(r) => RowRight(r)')
  <2>1. r \in Handlers
    BY ServicesApart
  <2>. QED
    BY <1>1, <1>4, <1>6, <1>7, <2>1, OtherSubmissions
<1>12. InsertPlaces(s)'
  <2>1. InsertPlaces(s)
    BY DEF DeadlinesInv
  <2>2. s \in submitted /\ deadlines'[s].schedule <= schedule
    BY <1>1, <1>3, <1>4, <2>1 DEF InsertPlaces, Idle
  <2>. QED
    BY <1>1, <1>2, <2>2, Blanks DEF InsertPlaces, Idle
<1>13. ASSUME RowRight(s), s \notin excused' PROVE RowRight(s)'
  <2>1. \A x : Good(x) => Good(x)'
    BY <1>1, <1>6, SameKnown
  <2>2. Good(NoRow) => FALSE
    BY Blanks DEF Good, DeadlineTypes
  <2>3. Good(deadlines'[s])
    BY <1>1, <1>3, <1>4, <1>13, <2>2 DEF RowRight
  <2>4. Good(deadlines[s])'
    BY <2>1, <2>3
  <2>. QED
    BY <2>4 DEF RowRight
<1>14. InsertRight'
  <2>1. SUFFICES ASSUME Resting', dirty = "no", NEW x \in Seen, x # 0, NEW r \in submitted \ excused'
                 PROVE  RowRight(r)'
    BY <1>1, <1>6 DEF InsertRight
  <2>2. Resting
    BY <1>0, <1>2, <2>1, ServicesApart DEF Resting
  <2>3. RowRight(r) /\ r \in Submissions
    BY <1>1, <2>1, <2>2 DEF DeadlinesInv, InsertRight, DeadlineTypes
  <2>. QED
    BY <1>11, <1>13, <2>1, <2>3
<1>. QED
  BY <1>1, <1>5, <1>8, <1>9, <1>10, <1>11, <1>12, <1>14, NoCalls DEF StepRight, DeadlinesInv

LEMMA SubmitProblemSolutionKeeps ==
  ASSUME ContentTypes, DeadlineTypes, DeadlinesInv, UNCHANGED own,
         NEW s \in Submissions, SubmitProblemSolution(s)
  PROVE  StepRight
<1>0. s \in Handlers /\ s \in Clients /\ s \notin Checks
  BY ServicesApart
<1>1. s \notin submitted
  BY DEF SubmitProblemSolution, DeadlineTypes
<1>2. PICK rec : rec = [NoHandler EXCEPT !.pc = "data", !.then = "schedules", !.cached = copy, !.todo = {s}]
  OBVIOUS
<1>3. /\ submitted' = submitted \cup {s}
      /\ handlers' = [Misses(Computing, {s}) EXCEPT ![s] = rec] /\ Request(s, "course", copy.stamp)
      /\ UNCHANGED <<dirty, schedule, deadlines, timer, lastModified, copy, excused>>
  BY <1>2 DEF SubmitProblemSolution
<1>4. /\ rec \in HandlerRecords /\ rec.pc = "data" /\ rec.then = "schedules" /\ rec.cached = copy
      /\ rec.course = NoCopy /\ rec.todo = {s} /\ DOMAIN rec.rows = {}
  <2>1. copy \in Copies
    BY DEF DeadlineTypes
  <2>2. rec.rows = NoHandler.rows
    BY <1>2, Blanks DEF HandlerRecords
  <2>. QED
    BY <1>2, <2>1, <2>2, Blanks DEF HandlerRecords, HandlerPlaces
<1>5. /\ handlers'[s] = rec /\ DOMAIN handlers' = Handlers
      /\ handlers' = [h \in Handlers |-> IF h = s THEN rec ELSE handlers'[h]]
      /\ \A h \in Handlers \ {s} : handlers'[h] =
           IF h \in Checks /\ Computing(h) THEN [handlers[h] EXCEPT !.missed = @ \cup {s}]
           ELSE handlers[h]
  BY <1>0, <1>3 DEF Misses
<1>6. ASSUME NEW h \in Handlers \ {s}
      PROVE  /\ handlers'[h] \in HandlerRecords /\ SameHandler(handlers[h], handlers'[h])
             /\ h \in Checks /\ Computing(h) => s \in handlers'[h].missed
  <2>1. handlers[h] \in HandlerRecords
    BY HandlerTypes
  <2>2. PICK new : new = [handlers[h] EXCEPT !.missed = @ \cup {s}]
    OBVIOUS
  <2>3. /\ new \in HandlerRecords /\ SameHandler(handlers[h], new)
        /\ new.missed = handlers[h].missed \cup {s}
    BY <2>1, <2>2, Missing
  <2>. QED
    BY <1>5, <2>1, <2>2, <2>3, SameIsSame
<1>7. handlers' \in [Handlers -> HandlerRecords]
  BY <1>4, <1>5, <1>6
<1>8. /\ ClientsStep /\ calls'[s].pc = "sent" /\ calls'[s].what = "course"
      /\ calls'[s].stamp = copy.stamp /\ serving.client # s
      /\ \A c \in Clients \ {s} : calls'[c] = calls[c]
  <2>1. copy.stamp \in Int /\ "course" \in YamlFiles
    BY DEF DeadlineTypes, Copies, YamlFiles
  <2>. QED
    BY <1>0, <1>3, <2>1, RequestDoes
<1>9. DeadlineTypes'
  BY <1>3, <1>7 DEF DeadlineTypes
<1>10. Seen' \subseteq Seen
  <2>1. \A j \in Checks : handlers'[j].pc = "modified" =>
          handlers[j].pc = "modified" /\ calls'[j].stamp = calls[j].stamp
    BY <1>0, <1>6, <1>8, ServicesApart DEF SameHandler
  <2>. QED
    BY <1>3, <2>1, SeenShrinks
<1>11. ServiceRight'
  BY <1>3, <1>10, ServiceStays, SameKnown DEF DeadlinesInv, ServiceRight
<1>12. ASSUME NEW g \in Handlers PROVE HandlerRight(g)'
  <2>1. CASE g = s
    BY <1>3, <1>4, <1>5, <1>8, <2>1, NoCopyIsRight, SameKnown DEF HandlerRight, DeadlinesInv, ServiceRight
  <2>2. CASE g # s
    BY <1>3, <1>6, <1>8, <1>10, <2>2, ServicesApart, OtherHandlers
  <2>. QED
    BY <2>1, <2>2
<1>13. ASSUME NEW k \in Checks PROVE CheckRight(k)'
  <2>1. k \in Handlers \ {s} /\ k \in Clients
    BY <1>0, ServicesApart
  <2>2. handlers'[k].missed \subseteq Submissions
    BY <1>7, <2>1 DEF HandlerRecords
  <2>. QED
    BY <1>3, <1>6, <1>8, <1>10, <2>1, <2>2, OtherChecks
<1>14. ASSUME NEW r \in Submissions \ {s}
       PROVE  InsertPlaces(r)' /\ (RowRight(r) => RowRight(r)')
  <2>1. r \in Handlers \ {s} /\ r \in Clients
    BY ServicesApart
  <2>. QED
    BY <1>3, <1>6, <1>8, <1>10, <2>1, OtherSubmissions
<1>15. InsertPlaces(s)'
  <2>1. InsertPlaces(s)
    BY DEF DeadlinesInv
  <2>. QED
    BY <1>3, <1>4, <1>5, <2>1 DEF InsertPlaces, Idle
<1>16. RowRight(s)'
  <2>1. deadlines[s] = NoRow
    BY <1>1 DEF DeadlinesInv, InsertPlaces
  <2>2. UpToDate(s)'
    BY <1>4, <1>5, <1>8, JustSent DEF UpToDate
  <2>. QED
    BY <1>3, <1>4, <1>5, <2>1, <2>2 DEF RowRight, Idle
<1>17. InsertRight'
  <2>1. SUFFICES ASSUME Resting', dirty = "no", NEW x \in Seen, x # 0, NEW r \in submitted' \ excused
                 PROVE  RowRight(r)'
    BY <1>3, <1>10 DEF InsertRight
  <2>2. Resting
    BY <1>0, <1>6, <2>1, ServicesApart DEF Resting, SameHandler
  <2>3. r \in Submissions
    BY <1>3 DEF DeadlineTypes
  <2>4. CASE r # s
    BY <1>3, <1>14, <2>1, <2>2, <2>3, <2>4 DEF DeadlinesInv, InsertRight
  <2>. QED
    BY <1>16, <2>4
<1>. QED
  BY <1>0, <1>8, <1>9, <1>11, <1>12, <1>13, <1>14, <1>15, <1>17 DEF StepRight, DeadlinesInv

LEMMA LowCourseBelow ==
  ASSUME ContentTypes, NEW x \in Int, NEW y \in Int, LowCourse(x), y <= x
  PROVE  LowCourse(y)
<1>1. CourseFiles \subseteq Files
  BY DEF CourseFiles, Files
<1>. QED
  BY <1>1, Numbers DEF LowCourse, IsPast, IsAwaited

LEMMA RestartKeeps ==
  ASSUME ContentTypes, Caches, DeadlineTypes, DeadlinesInv, UNCHANGED own, Restart
  PROVE  StepRight
<1>1. /\ calls' = [c \in Clients |-> IF c \in Handlers THEN NoCall ELSE calls[c]]
      /\ handlers' = [h \in Handlers |-> NoHandler] /\ timer' = "no" /\ lastModified' = 0
      /\ copy' = NoCopy /\ excused' = excused \cup {s \in Submissions : ~Idle(s)}
      /\ UNCHANGED <<dirty, schedule, submitted, deadlines>>
  BY DEF Restart, tables
<1>2. handlers' \in [Handlers -> HandlerRecords] /\ \A h \in Handlers : handlers'[h] = NoHandler
  BY <1>1, Blanks
<1>3. DeadlineTypes'
  BY <1>1, <1>2, Blanks DEF DeadlineTypes
<1>4. Seen' = {0}
  BY <1>1, <1>2, Blanks, ServicesApart DEF Seen
<1>5. ServiceRight'
  <2>1. LowCourse(0)
    BY LowCourseBelow DEF Caches
  <2>. QED
    BY <1>1, <1>4, <2>1, NoCopyIsRight, SameKnown, SameBounds DEF ServiceRight
<1>6. \A h \in Handlers : HandlerRight(h)'
  BY <1>2, Blanks, NoCopyIsRight, SameKnown DEF HandlerRight
<1>7. \A k \in Checks : CheckRight(k)'
  BY <1>2, Blanks, ServicesApart
     DEF CheckRight, CheckPlaces, UpToDate, ComputedRight, Computing, Idle
<1>8. \A s \in Submissions : InsertPlaces(s)'
  BY <1>1, <1>2, Blanks, ServicesApart DEF DeadlinesInv, InsertPlaces, Idle
<1>9. InsertRight'
  BY <1>4 DEF InsertRight
<1>10. ClientsStep /\ \A c \in Clients \ Handlers : calls'[c] = calls[c]
  <2>1. calls \in [Clients -> CallRecords] /\ NoCall \in CallRecords
    BY Records DEF ContentTypes
  <2>. QED
    BY <1>1, <2>1 DEF ClientsStep
<1>. QED
  BY <1>3, <1>5, <1>6, <1>7, <1>8, <1>9, <1>10 DEF StepRight, DeadlinesInv

LEMMA ChangeScheduleKeeps ==
  ASSUME ContentTypes, DeadlineTypes, DeadlinesInv, UNCHANGED own, ChangeSchedule
  PROVE  StepRight
<1>1. /\ schedule' = schedule + 1 /\ dirty' = "yes" /\ schedule \in Nat \ {0}
      /\ handlers' = Misses(Computing, Submissions)
      /\ UNCHANGED <<calls, submitted, deadlines, timer, lastModified, copy, excused>>
  BY DEF ChangeSchedule, DeadlineTypes
<1>2. /\ DOMAIN handlers' = Handlers /\ handlers' = [h \in Handlers |-> handlers'[h]]
      /\ \A h \in Handlers : handlers'[h] =
           IF h \in Checks /\ Computing(h) THEN [handlers[h] EXCEPT !.missed = @ \cup Submissions]
           ELSE handlers[h]
  BY <1>1 DEF Misses
<1>3. ASSUME NEW h \in Handlers
      PROVE  /\ handlers'[h] \in HandlerRecords /\ SameHandler(handlers[h], handlers'[h])
             /\ h \in Checks /\ Computing(h) => handlers'[h].missed = Submissions
  <2>1. handlers[h] \in HandlerRecords /\ handlers[h].missed \subseteq Submissions
    BY HandlerTypes
  <2>2. PICK new : new = [handlers[h] EXCEPT !.missed = @ \cup Submissions]
    OBVIOUS
  <2>3. /\ new \in HandlerRecords /\ SameHandler(handlers[h], new)
        /\ new.missed = handlers[h].missed \cup Submissions
    BY <2>1, <2>2, Missing
  <2>. QED
    BY <1>2, <2>1, <2>2, <2>3, SameIsSame
<1>4. DeadlineTypes'
  <2>1. \A h \in Handlers : handlers'[h] \in HandlerRecords
    BY <1>3
  <2>2. handlers' \in [Handlers -> HandlerRecords]
    BY <1>2, <2>1
  <2>3. schedule' \in Nat \ {0}
    BY <1>1
  <2>. QED
    BY <1>1, <2>2, <2>3 DEF DeadlineTypes
<1>5. Seen' = Seen
  <2>1. \A k \in Checks : handlers'[k].pc = handlers[k].pc
    BY <1>3, ServicesApart DEF SameHandler
  <2>. QED
    BY <1>1, <2>1 DEF Seen
<1>6. ServiceRight'
  BY <1>1, <1>5, ServiceStays, SameKnown DEF DeadlinesInv, ServiceRight
<1>7. ASSUME NEW h \in Handlers PROVE HandlerRight(h)'
  <2>1. HandlerRight(h) /\ handlers[h].rows \in RowsOf
    BY HandlerTypes DEF DeadlinesInv
  <2>2. \A s \in DOMAIN handlers[h].rows : handlers[h].rows[s].schedule \in Nat
    BY <2>1, RowsAre DEF RowRecords
  <2>3. SameHandler(handlers[h], handlers'[h])
    BY <1>3
  <2>4. CopyRight(handlers[h].cached)' /\ CopyRight(handlers[h].course)'
    BY <2>1, <2>3, SameKnown DEF HandlerRight, SameHandler
  <2>5. \A s \in DOMAIN handlers'[h].rows : handlers'[h].rows[s].schedule <= schedule'
    BY <1>1, <2>1, <2>2, <2>3 DEF HandlerRight, SameHandler
  <2>6. AtLeast(h, calls[h].stamp) => AtLeast(h, calls[h].stamp)'
    BY <1>1, SameKnown
  <2>. QED
    BY <1>1, <2>1, <2>3, <2>4, <2>5, <2>6 DEF HandlerRight, SameHandler
<1>8. ASSUME NEW k \in Checks PROVE CheckRight(k)'
  <2>1. CheckRight(k) /\ k \in Handlers /\ handlers'[k].missed \subseteq Submissions
    BY <1>3, ServicesApart DEF DeadlinesInv, HandlerRecords
  <2>2. SameHandler(handlers[k], handlers'[k])
    BY <1>3, <2>1
  <2>3. CheckPlaces(k)'
    BY <1>1, <2>1, <2>2 DEF CheckRight, CheckPlaces, SameHandler
  <2>4. UpToDate(k)' \/ handlers'[k].missed = Submissions
    BY <1>1, <1>5, <2>1, <2>2, SameKnown DEF CheckRight, UpToDate, SameHandler
  <2>5. ComputedRight(k)'
    <3>1. Computing(k)' => Computing(k)
      BY <2>2 DEF Computing, Idle, SameHandler
    <3>2. submitted' \subseteq Submissions
      BY <1>1 DEF DeadlineTypes
    <3>. QED
      BY <1>3, <2>1, <3>1, <3>2 DEF ComputedRight
  <2>. QED
    BY <2>3, <2>4, <2>5 DEF CheckRight
<1>9. ASSUME NEW s \in Submissions PROVE InsertPlaces(s)'
  <2>1. InsertPlaces(s) /\ deadlines[s].schedule \in Nat /\ s \in Handlers
    BY ServicesApart DEF DeadlinesInv, DeadlineTypes, RowRecords
  <2>2. SameHandler(handlers[s], handlers'[s])
    BY <1>3, <2>1
  <2>3. deadlines'[s].schedule <= schedule'
    BY <1>1, <2>1 DEF InsertPlaces
  <2>. QED
    BY <1>1, <2>1, <2>2, <2>3 DEF InsertPlaces, SameHandler, Idle
<1>10. InsertRight'
  BY <1>1 DEF InsertRight
<1>. QED
  BY <1>1, <1>4, <1>6, <1>7, <1>8, <1>9, <1>10, NoCalls DEF StepRight, DeadlinesInv

LEMMA CourseIsModifiedKeeps ==
  ASSUME ContentTypes, AnswersRight, DeadlineTypes, DeadlinesInv, UNCHANGED own,
         NEW k \in Checks, CourseIsModified(k)
  PROVE  StepRight
<1>0. k \in Handlers /\ k \in Clients /\ k \notin Submissions
  BY ServicesApart
<1>1. PICK a : a = calls[k].answer
  OBVIOUS
<1>2. PICK pc : pc = IF a.status = "data" \/ handlers[k].need = "yes" THEN "update" ELSE "idle"
  OBVIOUS
<1>3. /\ handlers[k].pc = "modified" /\ calls[k].pc = "answered"
      /\ lastModified' = IF a.status = "error" THEN lastModified ELSE a.modified
      /\ timer' \in {timer, "yes"} /\ TakeAnswer(k) /\ UNCHANGED <<tables, copy, excused>>
  BY <1>1, <1>2 DEF CourseIsModified, Answered, Answer
<1>4. /\ DOMAIN handlers' = Handlers /\ handlers' = [h \in Handlers |-> handlers'[h]]
      /\ handlers'[k] = [handlers[k] EXCEPT !.pc = pc]
      /\ \A h \in Handlers \ {k} : handlers'[h] =
           IF h \in Checks /\ Fetching(h) /\ a.status = "data"
           THEN [handlers[h] EXCEPT !.missed = @ \cup Submissions] ELSE handlers[h]
  <2>0. handlers \in [Handlers -> HandlerRecords]
    BY DEF DeadlineTypes
  <2>1. CASE pc = "update"
    BY <1>0, <1>1, <1>2, <2>0, <2>1 DEF CourseIsModified, Misses, Answer
  <2>2. CASE pc = "idle"
    BY <1>0, <1>1, <1>2, <2>0, <2>2 DEF CourseIsModified, Goes, Answer
  <2>. QED
    BY <1>2, <2>1, <2>2
<1>5. UNCHANGED <<dirty, schedule, submitted, deadlines>>
  BY <1>3 DEF tables
<1>6. /\ handlers'[k] \in HandlerRecords /\ handlers'[k].pc = pc
      /\ handlers'[k].then = handlers[k].then /\ handlers'[k].cached = handlers[k].cached
      /\ handlers'[k].course = handlers[k].course /\ handlers'[k].todo = handlers[k].todo
      /\ handlers'[k].rows = handlers[k].rows /\ pc \in {"update", "idle"}
  <2>1. handlers[k] \in HandlerRecords /\ pc \in HandlerPlaces
    BY <1>0, <1>2, HandlerTypes DEF HandlerPlaces
  <2>. QED
    BY <1>2, <1>4, <2>1 DEF HandlerRecords
<1>7. ASSUME NEW h \in Handlers \ {k}
      PROVE  /\ handlers'[h] \in HandlerRecords /\ SameHandler(handlers[h], handlers'[h])
             /\ h \in Checks /\ Fetching(h) /\ a.status = "data" => handlers'[h].missed = Submissions
  <2>1. handlers[h] \in HandlerRecords /\ handlers[h].missed \subseteq Submissions
    BY HandlerTypes
  <2>2. PICK new : new = [handlers[h] EXCEPT !.missed = @ \cup Submissions]
    OBVIOUS
  <2>3. /\ new \in HandlerRecords /\ SameHandler(handlers[h], new)
        /\ new.missed = handlers[h].missed \cup Submissions
    BY <2>1, <2>2, Missing
  <2>. QED
    BY <1>4, <2>1, <2>2, <2>3, SameIsSame
<1>8. ClientsStep /\ \A c \in Clients \ {k} : calls'[c] = calls[c]
  BY <1>0, <1>3, TakeAnswerDoes
<1>9. AnswerRight(a, "course", calls[k].stamp) /\ a.modified \in Int
  <2>1. calls[k] \in CallRecords
    BY <1>0 DEF ContentTypes
  <2>2. a \in AnswerRecords
    BY <1>1, <2>1 DEF CallRecords
  <2>3. a.modified \in Int
    BY <2>2 DEF AnswerRecords
  <2>. QED
    BY <1>0, <1>1, <1>3, <2>3 DEF AnswersRight, DeadlinesInv, HandlerRight
<1>10. /\ lastModified \in Seen /\ calls[k].stamp \in Seen
       /\ \A x \in Seen : x \in Int /\ x >= 0 /\ LowCourse(x)
  BY <1>3 DEF Seen, DeadlinesInv, ServiceRight
<1>11. a.status # "error" => a.modified >= 1 /\ LowCourse(a.modified)
  BY <1>9 DEF AnswerRight, Low
<1>12. lastModified' \in Int /\ lastModified' >= 0 /\ LowCourse(lastModified')
  BY <1>3, <1>9, <1>10, <1>11
<1>13. Seen' \subseteq Seen \cup {lastModified'}
  BY <1>6, <1>7, <1>8, ServicesApart DEF Seen, SameHandler
<1>14. a.status # "data" => Seen' \subseteq Seen
  <2>1. CASE a.status = "error"
    BY <1>3, <1>10, <1>13, <2>1
  <2>2. CASE a.status = "same"
    <3>1. a.modified <= calls[k].stamp
      BY <1>9, <2>2 DEF AnswerRight
    <3>2. calls[k].stamp <= a.modified
      BY <1>0, <1>1, <1>3, <2>2 DEF DeadlinesInv, HandlerRight, AtLeast, HasAnswer
    <3>3. a.modified = calls[k].stamp
      BY <1>9, <1>10, <3>1, <3>2
    <3>. QED
      BY <1>3, <1>10, <1>13, <2>2, <3>3
  <2>. QED
    BY <1>9, <2>1, <2>2 DEF AnswerRight
<1>15. DeadlineTypes'
  <2>1. \A h \in Handlers : handlers'[h] \in HandlerRecords
    BY <1>6, <1>7
  <2>2. handlers' \in [Handlers -> HandlerRecords]
    BY <1>4, <2>1
  <2>. QED
    BY <1>3, <1>5, <1>12, <2>2 DEF DeadlineTypes
<1>16. ServiceRight'
  <2>1. CopyRight(copy)'
    BY <1>3, SameKnown DEF DeadlinesInv, ServiceRight
  <2>2. ASSUME NEW x \in Seen' PROVE x \in Int /\ x >= 0 /\ LowCourse(x)'
    BY <1>10, <1>12, <1>13, SameBounds
  <2>. QED
    BY <2>1, <2>2 DEF ServiceRight
<1>17. ASSUME NEW h \in Handlers PROVE HandlerRight(h)'
  <2>1. HandlerRight(h)
    BY DEF DeadlinesInv
  <2>2. CASE h = k
    BY <1>5, <1>6, <2>1, <2>2, SameKnown DEF HandlerRight
  <2>3. CASE h # k
    BY <1>5, <1>7, <1>8, <2>3, ServicesApart, OtherHandlers
  <2>. QED
    BY <2>2, <2>3
<1>18. CheckRight(k)'
  <2>1. CheckPlaces(k)
    BY DEF DeadlinesInv, CheckRight
  <2>2. CheckPlaces(k)' /\ handlers'[k].then = "select"
    BY <1>3, <1>5, <1>6, <2>1 DEF CheckPlaces
  <2>3. UpToDate(k)' /\ ComputedRight(k)'
    BY <1>6, <2>2 DEF UpToDate, ComputedRight, Computing
  <2>. QED
    BY <2>2, <2>3 DEF CheckRight
<1>19. ASSUME NEW j \in Checks \ {k} PROVE CheckRight(j)'
  <2>0. j \in Handlers \ {k} /\ j \in Clients /\ handlers'[j].missed \subseteq Submissions
    BY <1>7, ServicesApart DEF HandlerRecords
  <2>1. CASE a.status # "data"
    BY <1>5, <1>7, <1>8, <1>14, <2>0, <2>1, OtherChecks
  <2>2. CASE a.status = "data"
    <3>1. CheckRight(j) /\ SameHandler(handlers[j], handlers'[j])
      BY <1>7, <2>0 DEF DeadlinesInv
    <3>2. CheckPlaces(j)'
      BY <1>5, <3>1 DEF CheckRight, CheckPlaces, SameHandler
    <3>3. CASE Fetching(j)
      <4>1. handlers'[j].missed = Submissions /\ submitted' \subseteq Submissions
        BY <1>5, <1>7, <2>0, <2>2, <3>3 DEF DeadlineTypes
      <4>2. ComputedRight(j)'
        BY <4>1 DEF ComputedRight
      <4>. QED
        BY <3>2, <4>1, <4>2 DEF CheckRight
    <3>4. CASE ~Fetching(j)
      <4>1. handlers'[j].pc \in {"idle", "modified", "update"} /\ handlers'[j].then = "select"
        BY <2>0, <3>1, <3>4, HandlerTypes
           DEF CheckRight, CheckPlaces, SameHandler, Fetching, HandlerPlaces
      <4>2. UpToDate(j)' /\ ComputedRight(j)'
        BY <4>1 DEF UpToDate, ComputedRight, Computing
      <4>. QED
        BY <3>2, <4>2 DEF CheckRight
    <3>. QED
      BY <3>3, <3>4
  <2>. QED
    BY <2>1, <2>2
<1>20. ASSUME NEW s \in Submissions
       PROVE  InsertPlaces(s)' /\ (Seen' \subseteq Seen /\ RowRight(s) => RowRight(s)')
  <2>1. s \in Handlers \ {k} /\ s \in Clients
    BY <1>0, ServicesApart
  <2>. QED
    BY <1>5, <1>7, <1>8, <2>1, OtherSubmissions
<1>21. InsertRight'
  <2>1. SUFFICES ASSUME Resting', dirty = "no", NEW x \in Seen', x # 0, NEW s \in submitted \ excused
                 PROVE  RowRight(s)'
    BY <1>3, <1>5 DEF InsertRight
  <2>2. a.status # "data"
    BY <1>2, <1>6, <2>1 DEF Resting
  <2>3. Resting
    BY <1>3, <1>7, <2>1, ServicesApart DEF Resting, SameHandler
  <2>4. RowRight(s) /\ s \in Submissions
    BY <1>14, <2>1, <2>2, <2>3 DEF DeadlinesInv, InsertRight, DeadlineTypes
  <2>. QED
    BY <1>14, <1>20, <2>2, <2>4
<1>22. DeadlinesInv'
  BY <1>16, <1>17, <1>18, <1>19, <1>20, <1>21 DEF DeadlinesInv
<1>. QED
  BY <1>0, <1>8, <1>15, <1>22 DEF StepRight

\* The deadlines service, in one.
LEMMA DeadlinesKeep ==
  ASSUME ContentTypes, Caches, AnswersRight, DeadlineTypes, DeadlinesInv, UNCHANGED own, DeadlinesNext
  PROVE  StepRight
<1>1. ASSUME NEW k \in Checks, CheckNext(k) PROVE StepRight
  <2>0. k \in Handlers
    BY ServicesApart
  <2>1. CASE CheckForDirtyCourses(k) \/ CourseIsModified(k) \/ UpdateCourseSubmissions(k)
    BY <2>1, CheckForDirtyCoursesKeeps, CourseIsModifiedKeeps, UpdateCourseSubmissionsKeeps
  <2>2. CASE SelectSubmissions(k) \/ CommitDeadlines(k)
    BY <2>2, SelectSubmissionsKeeps, CommitDeadlinesKeeps
  <2>3. CASE CheckThrows(k)
    BY <2>3, RestartKeeps DEF CheckThrows
  <2>4. CASE GotCourseData(k) \/ GetLessonSchedules(k) \/ ReadLessonSchedules(k)
    BY <2>0, <2>4, GotCourseDataKeeps, GetLessonSchedulesKeeps, ReadLessonSchedulesKeeps
  <2>. QED
    BY <1>1, <2>1, <2>2, <2>3, <2>4 DEF CheckNext
<1>2. CASE ServiceDies
  BY <1>2, RestartKeeps DEF ServiceDies
<1>3. CASE ChangeSchedule
  BY <1>3, ChangeScheduleKeeps
<1>4. ASSUME NEW s \in Submissions, InsertNext(s) PROVE StepRight
  <2>0. s \in Handlers
    BY ServicesApart
  <2>1. CASE SubmitProblemSolution(s) \/ InsertDeadlines(s) \/ InsertFails(s)
    BY <2>1, SubmitProblemSolutionKeeps, InsertDeadlinesKeeps, InsertFailsKeeps
  <2>2. CASE GotCourseData(s) \/ GetLessonSchedules(s) \/ ReadLessonSchedules(s)
    BY <2>0, <2>2, GotCourseDataKeeps, GetLessonSchedulesKeeps, ReadLessonSchedulesKeeps
  <2>. QED
    BY <1>4, <2>1, <2>2 DEF InsertNext
<1>. QED
  BY <1>1, <1>2, <1>3, <1>4 DEF DeadlinesNext

-----------------------------------------------------------------------------
(* The content service: no part is read that never was *)

NotNewer(data) == \A p \in Parts : data[p] <= disk[FileOf(p)]
NoneNewer == NotNewer(course.data) /\ NotNewer(problem.data) /\ NotNewer(serving.part)

LEMMA UnreadIsOld ==
  ASSUME ContentTypes, \A f \in Files : disk[f] <= disk'[f], \A f \in Files : disk'[f] \in Nat
  PROVE  /\ NotNewer(Unread)' /\ \A data \in Times : NotNewer(data) => NotNewer(data)'
         /\ NoItem.data = Unread /\ NotServing.part = Unread
<1>1. \A p \in Parts : disk[FileOf(p)] \in Nat /\ disk'[FileOf(p)] \in Nat
                       /\ disk[FileOf(p)] <= disk'[FileOf(p)]
  BY PartsAreOfFiles, Numbers
<1>2. \A p \in Parts : Unread[p] = 0
  BY DEF Unread
<1>3. NotNewer(Unread)'
  BY <1>1, <1>2 DEF NotNewer, Unread
<1>4. \A data \in Times : NotNewer(data) => NotNewer(data)'
  BY <1>1 DEF NotNewer, Times
<1>. QED
  BY <1>3, <1>4 DEF NoItem, NotServing

LEMMA ContentKeepsOld ==
  ASSUME ContentTypes, ContentTypes', Shape, NoneNewer, Serve \/ Expire \/ \E f \in Files : Edit(f)
  PROVE  NoneNewer'
<1>0. \A f \in Files : disk[f] \in Nat /\ disk'[f] \in Nat
  BY DEF ContentTypes
<1>1. course.data \in Times /\ problem.data \in Times /\ serving.part \in Times
  BY DEF ContentTypes, Items, Servings
<1>2. CASE \E f \in Files : Edit(f)
  <2>1. PICK f \in Files : Edit(f)
    BY <1>2
  <2>2. UNCHANGED caches /\ serving'.part = serving.part
    BY <2>1, EditDoes
  <2>3. \A g \in Files : disk[g] <= disk'[g]
    BY <2>1, EditedFiles
  <2>4. \A data \in Times : NotNewer(data) => NotNewer(data)'
    BY <1>0, <2>3, UnreadIsOld
  <2>. QED
    BY <1>1, <2>2, <2>4 DEF NoneNewer, NotNewer, caches
<1>3. CASE ~\E f \in Files : Edit(f)
  <2>1. UNCHANGED disk
    BY <1>3 DEF Serve, Expire, Take, CompareModified, UseCourseData, UseProblemData, LoadCourse,
                LoadProblem, ReadTime, RaiseTimes, ReadContent, LoadEnds, LoadThrows, contentFiles
  <2>2. /\ NotNewer(Unread) /\ NoItem.data = Unread /\ NotServing.part = Unread
        /\ NotNewer(Unread)'
    <3>1. \A f \in Files : disk[f] <= disk'[f]
      BY <1>0, <2>1
    <3>. QED
      BY <1>0, <2>1, <3>1, UnreadIsOld DEF NotNewer, Unread
  <2>3. SUFFICES /\ course'.data \in {course.data, serving.part, serving'.part}
                 /\ problem'.data \in {problem.data, Unread, serving.part}
                 /\ serving'.part \in {serving.part, Unread} \/ NotNewer(serving.part)'
    BY <2>1, <2>2 DEF NoneNewer, NotNewer
  <2>4. CASE \E c \in Clients : Take(c)
    <3>1. PICK c \in Clients : Take(c)
      BY <2>4
    <3>2. serving'.part = NotServing.part
      BY <3>1, Records DEF Take, Servings
    <3>. QED
      BY <2>2, <3>1, <3>2 DEF Take, caches
  <2>5. CASE CompareModified \/ UseCourseData \/ UseProblemData
    <3>1. UNCHANGED caches
      BY <2>5 DEF CompareModified, UseCourseData, UseProblemData
    <3>2. \A a : AnswerWith(a) => serving'.part = Unread
      BY <2>2 DEF AnswerWith
    <3>3. \A place, a : GoOn(place, a) => serving'.part = serving.part
      <4>1. serving \in Servings
        BY DEF ContentTypes
      <4>. QED
        BY <4>1 DEF GoOn, Servings
    <3>4. serving'.part \in {serving.part, Unread}
      BY <2>5, <3>2, <3>3 DEF CompareModified, UseCourseData, UseProblemData
    <3>. QED
      BY <3>1, <3>4 DEF caches
  <2>6. CASE LoadCourse
    <3>1. serving'.part = Unread
      <4>1. serving \in Servings
        BY DEF ContentTypes
      <4>. QED
        BY <2>6, <4>1 DEF LoadCourse, Servings
    <3>. QED
      BY <2>6, <3>1, LoadCourseDoes
  <2>7. CASE LoadProblem
    <3>1. serving'.part = Unread
      <4>1. serving \in Servings
        BY DEF ContentTypes
      <4>. QED
        BY <2>7, <4>1 DEF LoadProblem, Servings
    <3>. QED
      BY <2>7, <3>1, LoadProblemDoes
  <2>8. CASE ReadTime
    BY <2>2, <2>8, ReadTimeDoes
  <2>9. CASE ReadContent
    <3>1. /\ UNCHANGED problem
          /\ \E p \in Parts :
               /\ serving'.part[p] = disk[FileOf(p)]
               /\ \A q \in Parts \ {p} : serving'.part[q] = serving.part[q]
               /\ IF p = "course" THEN course'.data = serving'.part ELSE course'.data = course.data
      BY <2>9, ReadContentDoes
    <3>2. \A p \in Parts : serving'.part[p] <= disk[FileOf(p)]
      BY <1>0, <3>1, PartsAreOfFiles DEF NoneNewer, NotNewer
    <3>. QED
      BY <2>1, <3>1, <3>2 DEF NotNewer
  <2>10. CASE LoadEnds
    <3>1. serving'.part = serving.part
      <4>1. serving \in Servings
        BY DEF ContentTypes
      <4>. QED
        BY <2>10, <4>1 DEF LoadEnds, Servings
    <3>2. LoadsCourse \/ LoadsProblem
      BY <2>10, LoadEndsDoes DEF LoadsCourse, LoadsProblem
    <3>. QED
      BY <2>10, <3>1, <3>2, LoadEndsDoes
  <2>11. CASE LoadThrows
    <3>1. serving' = NotServing
      BY <2>11, LoadThrowsDoes DEF AnswerWith
    <3>. QED
      BY <2>2, <2>11, <3>1, LoadThrowsDoes
  <2>12. CASE Expire
    BY <2>12, ExpireDoes
  <2>. QED
    BY <1>3, <2>4, <2>5, <2>6, <2>7, <2>8, <2>9, <2>10, <2>11, <2>12 DEF Serve
<1>. QED
  BY <1>2, <1>3

-----------------------------------------------------------------------------
(* The services together *)

WorkIInv ==
  /\ ContentTypes /\ ContentInv /\ NoneNewer /\ LoaderTypes /\ LoaderInv
  /\ DeadlineTypes /\ DeadlinesInv

LEMMA ContentInvInit ==
  ASSUME ContentInit
  PROVE  ContentTypes /\ ContentInv /\ NoneNewer
<1>1. /\ disk = [f \in Files |-> 1] /\ broken = {} /\ course = NoItem /\ problem = NoItem
      /\ serving = NotServing /\ calls = [c \in Clients |-> NoCall]
  BY DEF ContentInit
<1>2. ContentTypes
  <2>1. NoItem \in Items /\ NoCall \in CallRecords /\ NotServing \in Servings
    BY Records
  <2>2. disk \in [Files -> Nat \ {0}] /\ calls \in [Clients -> CallRecords]
    BY <1>1, <2>1
  <2>. QED
    BY <1>1, <2>1, <2>2 DEF ContentTypes
<1>3. /\ serving.pc = "none" /\ serving.client = "" /\ serving.todo = <<>>
      /\ serving.loaded = "no" /\ serving.edits = 0 /\ serving.part = Unread
  BY <1>1, Records DEF NotServing
<1>4. /\ NoItem.data = Unread /\ NoItem.modified = -1 /\ NoItem.checked = "never"
      /\ \A p \in Parts : Unread[p] = 0
  BY DEF NoItem, Null, Unread
<1>5. ~LoadsCourse /\ ~LoadsProblem /\ ~CourseUsable /\ ~ProblemUsable
  BY <1>1, <1>3, <1>4 DEF LoadsCourse, LoadsProblem, CourseUsable, ProblemUsable, RequiresToReload
<1>6. /\ \A f \in Files : disk[f] = 1
      /\ "course" \in CourseFiles /\ "problem" \in ProblemFiles
      /\ CourseFiles \subseteq Files /\ ProblemFiles \subseteq Files
  BY <1>1, PartsAreOfFiles DEF CourseFiles, ProblemFiles
<1>7. \A x \in Int : x <= 1 => IsPast(CourseFiles, x) /\ IsPast(ProblemFiles, x)
  BY <1>6 DEF IsPast
<1>8. Shape
  BY <1>3, <1>5 DEF Shape, EndsOnce
<1>9. CourseKept /\ ProblemKept
  <2>1. /\ course.checked = "never" /\ course.modified = -1 /\ problem.modified = -1
        /\ IsPast(CourseFiles, course.modified) /\ IsPast(ProblemFiles, problem.modified)
    BY <1>1, <1>4, <1>7
  <2>. QED
    BY <1>3, <1>5, <2>1 DEF CourseKept, ProblemKept
<1>10. CourseLoad /\ ProblemLoad /\ LowCourse(1) /\ LowProblem(1)
  BY <1>5, <1>7 DEF CourseLoad, ProblemLoad, LowCourse, LowProblem
<1>11. AnswersRight /\ ServesRight
  BY <1>1, <1>3 DEF AnswersRight, ServesRight, NoCall
<1>12. NoneNewer
  <2>1. \A p \in Parts : Unread[p] <= disk[FileOf(p)]
    BY <1>4, <1>6, PartsAreOfFiles
  <2>. QED
    BY <1>1, <1>3, <1>4, <2>1 DEF NoneNewer, NotNewer
<1>. QED
  BY <1>2, <1>8, <1>9, <1>10, <1>11, <1>12 DEF ContentInv, Caches

LEMMA LoaderInvInit ==
  ASSUME LoaderInit, LowProblem(1)
  PROVE  LoaderTypes /\ LoaderInv
<1>1. directory = NoDirectory /\ loader = NoLoader /\ loaded = NoLoader
  BY DEF LoaderInit
<1>2. NoLoader \in LoaderRecords /\ NoLoader.pc = "idle"
  BY Records DEF NoLoader, LoaderRecords
<1>3. NoDirectory \in Directories /\ NoDirectory.stamp = 0
  BY DEF NoDirectory, Directories
<1>4. LoaderTypes
  BY <1>1, <1>2, <1>3 DEF LoaderTypes
<1>5. ~Writes /\ Asked /\ Written
  BY <1>1, <1>2 DEF Writes, Asked, Written
<1>6. Promised
  <2>1. directory.stamp + 1 = 1
    BY <1>1, <1>3
  <2>. QED
    BY <1>1, <1>2, <1>5, <2>1 DEF Promised
<1>7. LoadedKnown /\ LoadingKnown
  BY <1>1, <1>5 DEF LoadedKnown, LoadingKnown
<1>. QED
  BY <1>4, <1>5, <1>6, <1>7 DEF LoaderInv

LEMMA DeadlinesInvInit ==
  ASSUME ContentTypes, Caches, DeadlinesInit
  PROVE  DeadlineTypes /\ DeadlinesInv
<1>1. /\ dirty = "no" /\ schedule = 1 /\ timer = "no" /\ lastModified = 0 /\ copy = NoCopy
      /\ submitted \subseteq Submissions /\ deadlines = [s \in Submissions |-> NoRow]
      /\ handlers = [h \in Handlers |-> NoHandler] /\ excused = {}
  BY DEF DeadlinesInit
<1>2. handlers \in [Handlers -> HandlerRecords] /\ \A h \in Handlers : handlers[h] = NoHandler
  BY <1>1, Blanks
<1>3. DeadlineTypes
  <2>1. deadlines \in [Submissions -> RowRecords]
    BY <1>1, Blanks
  <2>. QED
    BY <1>1, <1>2, <2>1, Blanks DEF DeadlineTypes
<1>4. Seen = {0}
  BY <1>1, <1>2, Blanks, ServicesApart DEF Seen
<1>5. ServiceRight
  <2>1. LowCourse(0)
    BY LowCourseBelow DEF Caches
  <2>. QED
    BY <1>1, <1>4, <2>1, NoCopyIsRight DEF ServiceRight
<1>6. \A h \in Handlers : HandlerRight(h)
  BY <1>2, Blanks, NoCopyIsRight DEF HandlerRight
<1>7. \A k \in Checks : CheckRight(k)
  BY <1>2, Blanks, ServicesApart DEF CheckRight, CheckPlaces, UpToDate, ComputedRight, Computing
<1>8. \A s \in Submissions : InsertPlaces(s)
  BY <1>1, <1>2, Blanks, ServicesApart DEF InsertPlaces, Idle
<1>9. InsertRight
  BY <1>4 DEF InsertRight
<1>. QED
  BY <1>3, <1>5, <1>6, <1>7, <1>8, <1>9 DEF DeadlinesInv

LEMMA WorkInvInit == WorkInit => WorkIInv
<1>. SUFFICES ASSUME WorkInit PROVE WorkIInv
  OBVIOUS
<1>1. ContentInit /\ LoaderInit /\ DeadlinesInit
  BY DEF WorkInit
<1>2. ContentTypes /\ ContentInv /\ NoneNewer
  BY <1>1, ContentInvInit
<1>3. LoaderTypes /\ LoaderInv
  BY <1>1, <1>2, LoaderInvInit DEF ContentInv, Caches
<1>4. DeadlineTypes /\ DeadlinesInv
  BY <1>1, <1>2, DeadlinesInvInit DEF ContentInv
<1>. QED
  BY <1>2, <1>3, <1>4 DEF WorkIInv

\* A step of one of the clients of the content service.
LEMMA ClientsKeep ==
  ASSUME ContentTypes, ContentInv, NoneNewer, UNCHANGED own, ClientsStep
  PROVE  ContentTypes' /\ ContentInv' /\ NoneNewer'
<1>1. UNCHANGED <<contentFiles, caches, serving>>
  BY DEF own
<1>2. NoneNewer'
  BY <1>1 DEF NoneNewer, NotNewer, contentFiles, caches
<1>. QED
  BY <1>1, <1>2, ClientsKeepContent

LEMMA WorkInvStep == WorkIInv /\ [WorkNext]_workVars => WorkIInv'
<1>. SUFFICES ASSUME WorkIInv, [WorkNext]_workVars PROVE WorkIInv'
  OBVIOUS
<1>0. /\ ContentTypes /\ ContentInv /\ NoneNewer /\ LoaderTypes /\ LoaderInv
      /\ DeadlineTypes /\ DeadlinesInv /\ AnswersRight /\ Caches /\ Shape
  BY DEF WorkIInv, ContentInv
<1>1. ASSUME UNCHANGED <<directory, loader, loaded>> PROVE LoaderTypes'
  BY <1>0, <1>1 DEF LoaderTypes
<1>2. CASE FilesChange \/ ContentStep
  <2>1. /\ Serve \/ Expire \/ \E f \in Files : Edit(f)
        /\ UNCHANGED deadlineVars /\ UNCHANGED <<directory, loader, loaded>>
    BY <1>2 DEF FilesChange, ContentStep, loaderVars
  <2>2. ContentTypes' /\ ContentInv' /\ Guarantee
    BY <1>0, <2>1, ContentKeeps
  <2>3. NoneNewer'
    BY <1>0, <2>1, <2>2, ContentKeepsOld
  <2>4. LoaderInv'
    BY <1>0, <2>1, <2>2, ServicesApart, ContentKeepsLoader
  <2>5. DeadlineTypes' /\ DeadlinesInv'
    BY <1>0, <2>1, <2>2, ContentKeepsDeadlines
  <2>. QED
    BY <1>1, <2>1, <2>2, <2>3, <2>4, <2>5 DEF WorkIInv
<1>3. CASE DeadlinesStep
  <2>1. DeadlinesNext /\ UNCHANGED own /\ UNCHANGED <<directory, loader, loaded>>
    BY <1>3 DEF DeadlinesStep, loaderVars
  <2>2. StepRight
    BY <1>0, <2>1, DeadlinesKeep
  <2>3. ContentTypes' /\ ContentInv' /\ NoneNewer'
    BY <1>0, <2>1, <2>2, ClientsKeep DEF StepRight
  <2>4. LoaderInv'
    BY <1>0, <2>1, <2>2, ServicesApart, OthersKeepLoader DEF StepRight
  <2>. QED
    BY <1>1, <2>1, <2>2, <2>3, <2>4 DEF WorkIInv, StepRight
<1>4. CASE LoaderStep
  <2>1. LoaderNext /\ UNCHANGED own /\ UNCHANGED deadlineVars
    BY <1>4 DEF LoaderStep
  <2>2. LoaderTypes' /\ LoaderInv' /\ ClientsStep /\ \A c \in Clients \ {Grader} : calls'[c] = calls[c]
    BY <1>0, <2>1, ServicesApart, LoaderKeeps
  <2>3. ContentTypes' /\ ContentInv' /\ NoneNewer'
    BY <1>0, <2>1, <2>2, ClientsKeep
  <2>4. DeadlineTypes' /\ DeadlinesInv'
    BY <1>0, <2>1, <2>2, <2>3, ServicesApart, LoaderKeepsDeadlines
  <2>. QED
    BY <2>2, <2>3, <2>4 DEF WorkIInv
<1>5. CASE ReviewStep \/ UNCHANGED workVars
  <2>1. /\ UNCHANGED own /\ UNCHANGED calls /\ UNCHANGED deadlineVars
        /\ UNCHANGED <<directory, loader, loaded>>
    BY <1>5 DEF ReviewStep, workVars, contentVars, loaderVars, own
  <2>2. ContentTypes' /\ ContentInv' /\ NoneNewer'
    BY <1>0, <2>1, NoCalls, ClientsKeep
  <2>3. LoaderInv'
    BY <1>0, <2>1, OthersKeepLoader
  <2>4. DeadlineTypes' /\ DeadlinesInv'
    BY <1>0, <2>1, <2>2, LoaderKeepsDeadlines
  <2>. QED
    BY <1>1, <2>1, <2>2, <2>3, <2>4 DEF WorkIInv
<1>. QED
  BY <1>2, <1>3, <1>4, <1>5 DEF WorkNext

LEMMA WorkInvAlways == FairWork => []WorkIInv
<1>1. WorkInit => WorkIInv
  BY WorkInvInit
<1>2. WorkIInv /\ [WorkNext]_workVars => WorkIInv'
  BY WorkInvStep
<1>. QED
  BY <1>1, <1>2, PTL DEF FairWork

LEMMA WorkTypes == WorkIInv => ContentTypeOK /\ DeadlinesTypeOK /\ LoaderTypeOK
<1>. SUFFICES ASSUME WorkIInv PROVE ContentTypeOK /\ DeadlinesTypeOK /\ LoaderTypeOK
  OBVIOUS
<1>0. /\ ContentTypes /\ NoneNewer /\ LoaderTypes /\ DeadlineTypes /\ DeadlinesInv
  BY DEF WorkIInv
<1>1. ContentTypeOK
  <2>1. disk \in [Files -> Nat] /\ broken \subseteq YamlFiles /\ course \in Items /\ problem \in Items
    BY <1>0 DEF ContentTypes
  <2>2. ASSUME NEW c \in Clients
        PROVE  calls[c].answer.status \in {"none", "same", "data", "error"}
    <3>1. calls[c] \in CallRecords
      BY <1>0 DEF ContentTypes
    <3>2. calls[c].answer \in AnswerRecords
      BY <3>1 DEF CallRecords
    <3>. QED
      BY <3>2 DEF AnswerRecords
  <2>3. ASSUME NEW item \in {course, problem}
        PROVE  /\ item.modified \in Nat \cup {Null}
               /\ item.checked \in {"never", "fresh", "expired"}
               /\ \A p \in Parts : item.data[p] \in 0..disk[FileOf(p)]
    <3>1. item \in Items /\ NotNewer(item.data)
      BY <1>0, <2>1 DEF NoneNewer
    <3>2. \A p \in Parts : item.data[p] \in Nat /\ disk[FileOf(p)] \in Nat
      BY <2>1, <3>1, PartsAreOfFiles DEF Items, Times
    <3>. QED
      BY <3>1, <3>2 DEF Items, NotNewer
  <2>. QED
    BY <2>1, <2>2, <2>3 DEF ContentTypeOK
<1>2. DeadlinesTypeOK
  <2>1. ASSUME NEW s \in Submissions PROVE deadlines[s].schedule \in 0..schedule
    <3>1. deadlines[s].schedule \in Nat /\ schedule \in Nat
      BY <1>0 DEF DeadlineTypes, RowRecords
    <3>2. deadlines[s].schedule <= schedule
      BY <1>0 DEF DeadlinesInv, InsertPlaces
    <3>. QED
      BY <3>1, <3>2
  <2>. QED
    BY <1>0, <2>1 DEF DeadlinesTypeOK, DeadlineTypes
<1>3. LoaderTypeOK
  <2>1. loader.pc \in {"idle", "loaded"} \cup LoadPlaces /\ loader.compiled \in {"no", "yes"}
    BY <1>0 DEF LoaderTypes, LoaderRecords
  <2>2. directory.stamp \in Nat \cup {Null}
    BY <1>0 DEF LoaderTypes, Directories
  <2>3. \A part \in DOMAIN NoDirectory \ {"stamp"} : directory[part] \in Nat
    BY <1>0 DEF LoaderTypes, Directories, NoDirectory
  <2>. QED
    BY <2>1, <2>2, <2>3 DEF LoaderTypeOK
<1>. QED
  BY <1>1, <1>2, <1>3

-----------------------------------------------------------------------------
(* Theorems *)

\* Caches, requests, copies, rows, directories and reviews keep their types:
\* no cache has a version of a file that never was, and no row is of a
\* schedule to come.
THEOREM WorkTypesCorrect == FairWork => []WorkTypeOK
<1>1. WorkIInv => ContentTypeOK /\ DeadlinesTypeOK /\ LoaderTypeOK
  BY WorkTypes
<1>2. FairWork => [](ContentTypeOK /\ DeadlinesTypeOK /\ LoaderTypeOK)
  BY <1>1, WorkInvAlways, PTL
<1>3. ContentTypeOK /\ DeadlinesTypeOK /\ LoaderTypeOK /\ ReviewTypeOK => WorkTypeOK
  BY DEF WorkTypeOK
<1>. QED
  BY <1>2, <1>3, ReviewTypeCorrect, PTL

\* A change that a copy of the course, or the problem in the directory of a
\* grader, lacks is found by the next look at the time of modification, however
\* loads, edits and answers met and whatever died; but for copies that came
\* with a doubtful time (most of all after an edit of a file whose content was
\* read before its time, as that of tests and templates is) and for public
\* files, whose times do not count for a grader.
THEOREM MissedChangesAreNewer == FairWork => []MissedIsNewer
<1>1. ASSUME WorkIInv PROVE MissedIsNewer
  <2>1. copy.doubtful = "no" => WillBeSeen(CourseParts, copy.data, copy.stamp)
    BY <1>1 DEF WorkIInv, DeadlinesInv, ServiceRight, CopyRight, Sees
  <2>2. ASSUME loaded # NoLoader, loaded.response.doubtful = "no"
        PROVE  /\ WillBeSeen(ProblemParts, loaded.response.data, loaded.response.modified)
               /\ directory.stamp \in {loaded.response.modified, Null}
               /\ InDirectory(loaded.response.modified)
               /\ loaded.response.modified \in Int
    BY <1>1, <2>2, LoaderNumbers DEF WorkIInv, LoaderInv, LoadedKnown
  <2>3. ASSUME loaded # NoLoader, loaded.response.doubtful = "no"
        PROVE  /\ \A part \in {"private", "plain"} :
                    directory[part] < disk["problem"] => disk["problem"] > directory.stamp
               /\ directory.tests < disk["tests"] => disk["tests"] > directory.stamp
    <3>1. disk["problem"] \in Nat /\ disk["tests"] \in Nat
      BY <1>1 DEF WorkIInv, ContentTypes, Files
    <3>. QED
      BY <2>2, <2>3, <3>1 DEF InDirectory, Finds, Null
  <2>. QED
    BY <2>1, <2>2, <2>3 DEF MissedIsNewer
<1>. QED
  BY <1>1, WorkInvAlways, PTL

\* What a solution is graded with has every part of the one version its time
\* stamp stands for, whatever loads were left half way before; the binary may
\* be older if the compiler failed, and parts that the version does not have
\* may be left of older ones.
THEOREM LoadedProblemsAreWhole == FairWork => []LoadedIsWhole
<1>1. WorkIInv => LoadedIsWhole
  BY DEF WorkIInv, LoaderInv, Promised, Whole, LoadedIsWhole
<1>. QED
  BY <1>1, WorkInvAlways, PTL

\* If the table has the column that the statements name: when the deadlines
\* service rests and the course is not marked, each submission has deadlines
\* from the schedule as it is and from a course whose changes it will see, but
\* for what it is excused for, however its checks overlapped.
THEOREM DeadlinesStayCurrent == FairWork => []DeadlinesAreCurrent
<1>1. WorkIInv => DeadlinesAreCurrent
  BY DeadlinesGive DEF WorkIInv
<1>. QED
  BY <1>1, WorkInvAlways, PTL
=============================================================================
