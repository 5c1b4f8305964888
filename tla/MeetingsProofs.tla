--------------------------- MODULE MeetingsProofs ---------------------------
(***************************************************************************)
(* Proofs that every part of Meetings keeps its promise, for any number of *)
(* questions, reschedules, reassignments, answers, recordings and requests *)
(* and whatever may fail.  The parts share no state: each has an inductive *)
(* invariant of its own, which the steps of the others leave alone.        *)
(***************************************************************************)
EXTENDS Meetings, Sequences, TLAPS

-----------------------------------------------------------------------------
(* Questions.                                                              *)

QuestionRow == [kind: Q!Kind \cup {"none", "deleted"}, options: SUBSET (Option \cup {Q!Blank}),
                required: BOOLEAN]

UpdateRow == [id: Question \cup {"none"}, row: QuestionRow, relisted: BOOLEAN]

\* The answers hold what was demanded.
Consented(f) ==
    \A q \in DOMAIN f.demanded :
        /\ q \in DOMAIN f.answers
        /\ f.demanded[q] = "checkbox" => f.answers[q] = "yes"
        /\ f.demanded[q] # "checkbox" => f.answers[q] # ""

\* A row that waits to be written is as well formed as one that was.
Asking ==
    /\ question \in [Question -> QuestionRow]
    /\ update \in [Update -> UpdateRow]
    /\ \A u \in Update : update[u] # Q!NoUpdate => update[u].id \in Question
    /\ \A q \in Question : Q!WellFormed(question[q])
    /\ \A u \in Update : Q!WellFormed(update[u].row)

\* A form that waits to be stored is as sound as one that is.
Answering ==
    /\ \E a, d : form = [answers |-> a, demanded |-> d]
    /\ \E a, d : stored = [answers |-> a, demanded |-> d]
    /\ Consented(form) /\ Consented(stored)

QuestionsInv == Asking /\ Answering

\* What is saved can be filled in.
LEMMA SavedRow ==
    ASSUME NEW r \in QuestionRow, Q!WellFormed(r)
    PROVE  Q!Saved(r) \in QuestionRow /\ Q!WellFormed(Q!Saved(r))
  <1>1. CASE r.kind = "select"
    BY <1>1 DEF Q!Saved, Q!WellFormed
  <1>2. CASE r.kind # "select"
    <2>1. Q!Saved(r) = [kind |-> r.kind, options |-> {}, required |-> r.required]
      BY <1>2 DEF Q!Saved, QuestionRow
    <2>2. QED
      BY <1>2, <2>1 DEF QuestionRow, Q!WellFormed
  <1>3. QED
    BY <1>1, <1>2

\* A question is created (CreateQuestion).
LEMMA CreateQuestionStep ==
    ASSUME Asking, NEW q \in Question, NEW r \in Q!Row, Q!CreateQuestion(q, r)
    PROVE  Asking'
  <1>1. r \in QuestionRow
    BY DEF Q!Row, QuestionRow
  <1>2. PICK s \in QuestionRow : s = Q!Saved(r) /\ Q!WellFormed(s)
    BY <1>1, SavedRow DEF Q!CreateQuestion
  <1>3. question' = [question EXCEPT ![q] = s] /\ update' = update
    BY <1>2 DEF Q!CreateQuestion
  <1>4. QED
    BY <1>2, <1>3 DEF Asking

\* A PATCH that was read and checked waits well formed (ReadQuestion).
LEMMA ReadQuestionStep ==
    ASSUME Asking, NEW u \in Update, NEW q \in Question, NEW r \in Q!Row,
           Q!ReadQuestion(u, q, r)
    PROVE  Asking'
  <1>1. r \in QuestionRow
    BY DEF Q!Row, QuestionRow
  <1>2. PICK b \in BOOLEAN :
           update' = [update EXCEPT ![u] = [id |-> q, row |-> r, relisted |-> b]]
    BY DEF Q!ReadQuestion
  <1>3. PICK t \in UpdateRow : t = [id |-> q, row |-> r, relisted |-> b]
    BY <1>1 DEF UpdateRow
  <1>4. /\ t.id = q /\ t.row = r /\ update' = [update EXCEPT ![u] = t]
        /\ Q!WellFormed(r) /\ question' = question
    BY <1>2, <1>3 DEF Q!ReadQuestion
  <1>5. QED
    BY <1>4 DEF Asking

\* No request at all is a well-formed one.
LEMMA NoUpdateRow == Q!NoUpdate \in UpdateRow /\ Q!WellFormed(Q!NoUpdate.row)
  BY DEF Q!NoUpdate, Q!Unasked, UpdateRow, QuestionRow, Q!WellFormed

\* A PATCH is written, whatever was written since it was read (UpdateQuestion).
LEMMA UpdateQuestionStep ==
    ASSUME Asking, NEW u \in Update, Q!UpdateQuestion(u)
    PROVE  Asking'
  <1>1. PICK q \in Question : q = update[u].id
    BY DEF Q!UpdateQuestion, Asking
  <1>2. PICK r \in QuestionRow : r = update[u].row /\ Q!WellFormed(r)
    BY DEF Asking, UpdateRow
  <1>3. PICK s \in QuestionRow : s = Q!Saved(r) /\ Q!WellFormed(s)
    BY <1>2, SavedRow
  <1>4. PICK t \in QuestionRow :
           t = (IF q \in Q!Asked THEN s ELSE question[q]) /\ Q!WellFormed(t)
    BY <1>3 DEF Asking
  <1>5. question' = [question EXCEPT ![q] = t] /\ update' = [update EXCEPT ![u] = Q!NoUpdate]
    BY <1>1, <1>2, <1>3, <1>4 DEF Q!UpdateQuestion
  <1>6. QED
    BY <1>4, <1>5, NoUpdateRow DEF Asking

\* What is deleted is no longer demanded of a booking (DeleteQuestion).
LEMMA DeleteQuestionStep ==
    ASSUME QuestionsInv, NEW q \in Question, Q!DeleteQuestion(q)
    PROVE  QuestionsInv'
  <1>1. PICK a, d : stored = [answers |-> a, demanded |-> d]
    BY DEF QuestionsInv, Answering
  <1>2. /\ question' = [question EXCEPT ![q] = Q!Deleted] /\ UNCHANGED <<update, form>>
        /\ stored' = [answers |-> Q!Restrict(a, DOMAIN a \ {q}),
                      demanded |-> Q!Restrict(d, DOMAIN d \ {q})]
    BY <1>1 DEF Q!DeleteQuestion
  <1>3. Q!Deleted \in QuestionRow /\ Q!WellFormed(Q!Deleted)
    BY DEF Q!Deleted, Q!Unasked, QuestionRow, Q!WellFormed
  <1>4. Asking'
    BY <1>2, <1>3 DEF QuestionsInv, Asking
  <1>5. Consented(stored')
    BY <1>1, <1>2 DEF QuestionsInv, Answering, Consented, Q!Restrict
  <1>6. Answering'
    BY <1>2, <1>5 DEF QuestionsInv, Answering, Consented
  <1>7. QED
    BY <1>4, <1>6 DEF QuestionsInv

\* The steps of a visitor: what the form demanded when it was checked is what is stored.
LEMMA ValidateStep ==
    ASSUME Answering, NEW given \in Q!Given, Q!ValidateAnswers(given)
    PROVE  Answering'
  <1>1. PICK a, d : a = [q \in DOMAIN given |-> Q!Canonical(q, given[q])] /\ d = Q!Demanded
    OBVIOUS
  <1>2. form' = [answers |-> a, demanded |-> d] /\ stored' = stored
    BY <1>1 DEF Q!ValidateAnswers
  <1>3. ASSUME NEW q \in DOMAIN d
        PROVE  /\ q \in DOMAIN a
               /\ d[q] = "checkbox" => a[q] = "yes"
               /\ d[q] # "checkbox" => a[q] # ""
    <2>1. q \in Q!Asked /\ question[q].required /\ d[q] = question[q].kind
      BY <1>1 DEF Q!Demanded
    <2>2. Q!Accepts(q, given)
      BY <2>1 DEF Q!ValidateAnswers
    <2>3. CASE question[q].kind = "checkbox"
      BY <1>1, <2>1, <2>2, <2>3 DEF Q!Accepts, Q!Canonical
    <2>4. CASE question[q].kind # "checkbox"
      BY <1>1, <2>1, <2>2, <2>4 DEF Q!Accepts, Q!Canonical
    <2>5. QED
      BY <2>3, <2>4
  <1>4. Consented(form')
    BY <1>2, <1>3 DEF Consented
  <1>5. QED
    BY <1>2, <1>4 DEF Answering, Consented

\* No form at all holds what was demanded.
LEMMA NothingDemanded == Consented(Q!NoForm)
  <1>1. DOMAIN << >> = {}
    <2>1. << >> \in Seq({}) /\ Len(<< >>) = 0
      OBVIOUS
    <2>2. QED
      BY <2>1
  <1>2. Q!NoForm.demanded = << >>
    BY DEF Q!NoForm
  <1>3. QED
    BY <1>1, <1>2 DEF Consented

\* What was checked is stored, or nothing is (InsertAnswers).
LEMMA InsertAnswersStep ==
    ASSUME Answering, Q!InsertAnswers
    PROVE  Answering'
  <1>1. form' = Q!NoForm /\ \E a, d : form' = [answers |-> a, demanded |-> d]
    BY DEF Q!InsertAnswers, Q!NoForm
  <1>2. PICK a, d : form = [answers |-> a, demanded |-> d]
    BY DEF Answering
  <1>3. \/ stored' = [answers |-> a, demanded |-> Q!Restrict(d, DOMAIN d \cap Q!Asked)]
        \/ stored' = Q!NoForm
    BY <1>2 DEF Q!InsertAnswers
  <1>4. Consented(stored') /\ \E b, e : stored' = [answers |-> b, demanded |-> e]
    <2>1. CASE stored' = [answers |-> a, demanded |-> Q!Restrict(d, DOMAIN d \cap Q!Asked)]
      BY <1>2, <2>1 DEF Answering, Consented, Q!Restrict
    <2>2. CASE stored' = Q!NoForm
      BY <2>2, NothingDemanded DEF Q!NoForm
    <2>3. QED
      BY <1>3, <2>1, <2>2
  <1>5. QED
    BY <1>1, <1>4, NothingDemanded DEF Answering

\* Every step of Questions keeps its invariant.
LEMMA QuestionsStep == QuestionsInv /\ [Q!QuestionsNext]_qVars => QuestionsInv'
  <1> SUFFICES ASSUME QuestionsInv, [Q!QuestionsNext]_qVars
               PROVE  QuestionsInv'
    OBVIOUS
  <1>1. ASSUME Asking', UNCHANGED <<form, stored>>
        PROVE  QuestionsInv'
    BY <1>1 DEF QuestionsInv, Answering, Consented
  <1>2. ASSUME Answering', UNCHANGED <<question, update>>
        PROVE  QuestionsInv'
    BY <1>2 DEF QuestionsInv, Asking
  <1>3. ASSUME \/ \E q \in Question, r \in Q!Row :
                     \/ Q!CreateQuestion(q, r)
                     \/ \E u \in Update : Q!ReadQuestion(u, q, r)
               \/ \E u \in Update : Q!UpdateQuestion(u)
        PROVE  QuestionsInv'
    <2>1. Asking'
      BY <1>3, CreateQuestionStep, ReadQuestionStep, UpdateQuestionStep DEF QuestionsInv
    <2>2. UNCHANGED <<form, stored>>
      BY <1>3 DEF Q!CreateQuestion, Q!ReadQuestion, Q!UpdateQuestion
    <2>3. QED
      BY <1>1, <2>1, <2>2
  <1>4. ASSUME Q!InsertAnswers \/ \E given \in Q!Given : Q!ValidateAnswers(given)
        PROVE  QuestionsInv'
    <2>1. Answering'
      BY <1>4, InsertAnswersStep, ValidateStep DEF QuestionsInv
    <2>2. UNCHANGED <<question, update>>
      BY <1>4 DEF Q!InsertAnswers, Q!ValidateAnswers
    <2>3. QED
      BY <1>2, <2>1, <2>2
  <1>5. CASE UNCHANGED qVars
    BY <1>5 DEF QuestionsInv, qVars, Asking, Answering, Consented
  <1>6. QED
    BY <1>3, <1>4, <1>5, DeleteQuestionStep DEF Q!QuestionsNext

\* For any form and any edits of it that overlap with its use: what was demanded when the
\* answers were checked (validateAnswersCore) is on record with the booking, and a select
\* question never ends with an empty list (CreateQuestion, UpdateQuestion).
THEOREM FormsSound == MeetingsSpec => []FormIsSound
  <1>1. MeetingsInit => QuestionsInv
    <2> SUFFICES ASSUME Q!QuestionsInit
                 PROVE  QuestionsInv
      BY DEF MeetingsInit
    <2>1. Q!Unasked \in QuestionRow /\ Q!WellFormed(Q!Unasked)
      BY DEF Q!Unasked, QuestionRow, Q!WellFormed
    <2>2. Asking
      BY <2>1, NoUpdateRow DEF Q!QuestionsInit, Asking
    <2>3. Answering
      BY NothingDemanded DEF Q!QuestionsInit, Answering, Q!NoForm
    <2>4. QED
      BY <2>2, <2>3 DEF QuestionsInv
  <1>2. QuestionsInv /\ [MeetingsNext]_meetingsVars => QuestionsInv'
    <2>1. [MeetingsNext]_meetingsVars => [Q!QuestionsNext]_qVars
      BY DEF MeetingsNext, meetingsVars, QuestionsMove, FollowupsMove, InvitesMove, RoomsMove,
             NotesMove
    <2>2. QED
      BY <2>1, QuestionsStep
  <1>3. QuestionsInv => FormIsSound
    BY DEF QuestionsInv, Asking, Answering, Consented, FormIsSound, Q!ConsentOnRecord,
           Q!FormCanBeFilled
  <1>4. QED
    BY <1>1, <1>2, <1>3, PTL DEF MeetingsSpec

-----------------------------------------------------------------------------
(* Recording.                                                              *)

RoomPlace == {"idle", "start", "save", "show", "hide", "stop", "finalize", "close", "file", "rows",
              "keepOn", "keepOff"}

CallerRow == [op: {"none", "start", "stop", "end", "delete", "share"}, pc: RoomPlace,
              egress: Egress \cup {R!NoEgress}]

RoomsType ==
    /\ egress \in [Egress -> {"none", "running", "uploading", "over"}]
    /\ news \in [Egress -> {"none", "egress_ended", "egress_failed"}]
    /\ row \in [Egress -> {"none", "active", "complete", "failed", "deleted"}]
    /\ file \subseteq Egress /\ strayed \subseteq Egress /\ hasty \subseteq Egress
    /\ banner \in BOOLEAN /\ crossed \in BOOLEAN /\ dimmed \in BOOLEAN
    /\ caller \in [Caller -> CallerRow]

\* What a request is doing at each of its places, and to which recording.
Busied ==
    /\ \A c \in Caller :
          /\ caller[c].pc \in {"start", "save", "show"} => caller[c].op = "start"
          /\ caller[c].pc \in {"stop", "finalize"} => caller[c].op \in {"stop", "end"}
          /\ caller[c].pc = "hide" => caller[c].op = "stop"
          /\ caller[c].pc = "close" => caller[c].op = "end"
          /\ caller[c].pc \in {"save", "stop", "finalize", "file", "rows"} =>
                caller[c].egress \in Egress
          /\ caller[c].pc = "save" =>
                row[caller[c].egress] = "none" /\ egress[caller[c].egress] # "none"
          /\ caller[c].pc \in {"file", "rows"} =>
                row[caller[c].egress] \in {"complete", "failed", "deleted"}
          /\ caller[c].pc = "rows" =>
                \/ egress[caller[c].egress] = "over" /\ caller[c].egress \notin file
                \/ caller[c].egress \in hasty
    /\ \A c, d \in Caller : caller[c].pc = "save" /\ caller[d].pc = "save"
          /\ caller[c].egress = caller[d].egress => c = d

Saving(e) == \E c \in Caller : caller[c].pc = "save" /\ caller[c].egress = e

\* A file comes from an egress that is over, an egress has its row, and a row goes after the
\* file.
Filed ==
    /\ \A e \in file : egress[e] = "over"
    /\ \A e \in Egress : egress[e] = "none" => row[e] = "none"
    /\ \A e \in Egress \ strayed : egress[e] # "none" => row[e] # "none" \/ Saving(e)
    /\ \A e \in Egress : row[e] = "deleted" =>
          (egress[e] = "over" /\ e \notin file) \/ e \in hasty
    /\ \A e \in Egress : news[e] # "none" => egress[e] = "over"

Loose == R!Running \ strayed

\* As long as no start crosses another start or a stop: one recording is active at a time,
\* what runs is active or about to be, a start finds nothing that runs, a stop has the one
\* that is active, and after it nothing runs.
Apart ==
    /\ \A d, e \in R!Active : d = e
    /\ \A e \in Loose : row[e] = "active" \/ Saving(e)
    /\ \A c \in Caller : caller[c].pc \in {"start", "save"} =>
          R!Active = {} /\ ~R!Others(c, {"start", "stop", "end"})
    /\ \A c \in Caller : caller[c].pc = "start" => Loose = {}
    /\ \A c \in Caller : caller[c].pc \in {"stop", "finalize"} =>
          R!Active \subseteq {caller[c].egress}
    /\ \A c \in Caller : caller[c].pc \in {"finalize", "hide", "close"} => Loose = {}

Alone == ~crossed => Apart

\* What runs is shown, or about to be.
Shown ==
    ~crossed /\ ~dimmed /\ Loose # {} =>
        banner \/ \E c \in Caller : caller[c].pc \in {"save", "show"}

RoomsInv == RoomsType /\ Busied /\ Filed /\ Alone /\ Shown

\* What a step does to the request that takes it: it goes on...
LEMMA CallerGoes ==
    ASSUME caller \in [Caller -> CallerRow], NEW c \in Caller, NEW x \in RoomPlace,
           NEW e \in Egress \cup {R!NoEgress}, R!Go(c, x, e)
    PROVE  /\ caller' \in [Caller -> CallerRow]
           /\ caller'[c].op = caller[c].op /\ caller'[c].pc = x /\ caller'[c].egress = e
           /\ \A d \in Caller \ {c} : caller'[d] = caller[d]
  <1>1. ASSUME NEW r \in CallerRow
        PROVE  LET s == [[r EXCEPT !.pc = x] EXCEPT !.egress = e]
               IN  s \in CallerRow /\ s.op = r.op /\ s.pc = x /\ s.egress = e
    BY DEF CallerRow, RoomPlace
  <1>2. caller' = [caller EXCEPT ![c] = [[caller[c] EXCEPT !.pc = x] EXCEPT !.egress = e]]
    BY DEF R!Go
  <1>3. PICK r \in CallerRow : r = [[caller[c] EXCEPT !.pc = x] EXCEPT !.egress = e]
                               /\ r.op = caller[c].op /\ r.pc = x /\ r.egress = e
    BY <1>1
  <1>4. QED
    BY <1>2, <1>3

\* ... it is answered...
LEMMA CallerAnswered ==
    ASSUME caller \in [Caller -> CallerRow], NEW c \in Caller, R!Answer(c)
    PROVE  /\ caller' \in [Caller -> CallerRow]
           /\ caller'[c].op = "none" /\ caller'[c].pc = "idle"
           /\ caller'[c].egress = R!NoEgress
           /\ \A d \in Caller \ {c} : caller'[d] = caller[d]
  BY DEF R!Answer, R!Off, CallerRow, RoomPlace

\* ... or it begins.
LEMMA CallerBegins ==
    ASSUME caller \in [Caller -> CallerRow], NEW c \in Caller,
           NEW op \in {"start", "stop", "end", "delete", "share"}, NEW x \in RoomPlace,
           NEW e \in Egress \cup {R!NoEgress}, R!Request(c, op, x, e)
    PROVE  /\ caller' \in [Caller -> CallerRow]
           /\ caller[c].pc = "idle"
           /\ caller'[c].op = op /\ caller'[c].pc = x /\ caller'[c].egress = e
           /\ \A d \in Caller \ {c} : caller'[d] = caller[d]
  BY DEF R!Request, R!At, CallerRow, RoomPlace

\* The banner is lit, or put out, which may leave a room that records dark.
LEMMA Lit == R!Show(TRUE) => banner' = TRUE /\ dimmed' = FALSE
  BY DEF R!Show

LEMMA PutOut ==
    ASSUME banner \in BOOLEAN, dimmed \in BOOLEAN, R!Show(FALSE)
    PROVE  banner' = FALSE /\ dimmed' \in BOOLEAN
           /\ (Loose # {} /\ ~dimmed' => ~dimmed /\ ~banner)
  <1>1. banner' = FALSE /\ dimmed' = (dimmed \/ (banner /\ R!Running # {}))
    BY DEF R!Show
  <1>2. Loose # {} => R!Running # {}
    BY DEF Loose
  <1>3. QED
    BY <1>1, <1>2

\* A request ends, and nothing else changes: not when it was about to save the row, and not
\* when it was about to show what runs.  A banner may be lit on the way.
LEMMA IdleStep ==
    ASSUME RoomsInv, NEW c \in Caller,
           caller' \in [Caller -> CallerRow],
           caller'[c].op = "none" /\ caller'[c].pc = "idle",
           \A d \in Caller \ {c} : caller'[d] = caller[d],
           caller[c].pc \in {"start", "file", "rows", "keepOn", "keepOff"},
           banner' \in BOOLEAN, dimmed' \in BOOLEAN,
           Loose # {} /\ ~dimmed' => banner' \/ (~dimmed /\ (banner => banner')),
           UNCHANGED <<egress, news, row, file, crossed, strayed, hasty>>
    PROVE  RoomsInv'
  <1>1. RoomsType'
    BY DEF RoomsInv, RoomsType
  <1>2. Busied'
    BY DEF RoomsInv, Busied
  <1>3. \A e : Saving(e)' <=> Saving(e)
    BY DEF Saving
  <1>4. Filed'
    BY <1>3 DEF RoomsInv, Filed
  <1>5. ASSUME ~crossed
        PROVE  Apart'
    <2>1. Apart /\ R!Active' = R!Active /\ Loose' = Loose
      BY <1>5 DEF RoomsInv, Alone, Loose, R!Active, R!Running
    <2>2. QED
      BY <1>3, <2>1 DEF RoomsInv, Busied, Apart, R!Others
  <1>6. Shown'
    BY DEF RoomsInv, Shown, Loose, R!Running
  <1>7. QED
    BY <1>1, <1>2, <1>4, <1>5, <1>6 DEF RoomsInv, Alone

\* A start; one that is not told what is active counts as crossed.
LEMMA StartStep ==
    ASSUME RoomsInv, NEW c \in Caller, R!RecordStart(c)
    PROVE  RoomsInv'
  <1>0. PICK found \in {R!Active, {}} :
           /\ R!Request(c, "start", IF found = {} THEN "start" ELSE "show", R!NoEgress)
           /\ crossed' = (crossed \/ found # R!Active \/ R!Others(c, {"start", "stop", "end"}))
           /\ UNCHANGED <<egress, news, row, file, banner, strayed, hasty, dimmed>>
    BY Zenon DEF R!RecordStart
  <1>1. PICK x \in {"start", "show"} :
           /\ R!Request(c, "start", x, R!NoEgress)
           /\ x = (IF found = {} THEN "start" ELSE "show")
    BY <1>0
  <1>2. /\ UNCHANGED <<egress, news, row, file, banner, strayed, hasty, dimmed>>
        /\ crossed' \in BOOLEAN
    BY <1>0 DEF RoomsInv, RoomsType
  <1>3. /\ caller' \in [Caller -> CallerRow] /\ caller[c].pc = "idle"
        /\ caller'[c].op = "start" /\ caller'[c].pc = x /\ caller'[c].egress = R!NoEgress
        /\ \A d \in Caller \ {c} : caller'[d] = caller[d]
    BY <1>1, CallerBegins DEF RoomsInv, RoomsType, RoomPlace
  <1>4. RoomsType'
    BY <1>2, <1>3 DEF RoomsInv, RoomsType
  <1>5. Busied'
    BY <1>1, <1>2, <1>3 DEF RoomsInv, Busied
  <1>6. \A e : Saving(e)' <=> Saving(e)
    BY <1>1, <1>3 DEF Saving
  <1>7. Filed'
    BY <1>2, <1>6 DEF RoomsInv, Filed
  <1>8. ASSUME ~crossed'
        PROVE  /\ ~crossed /\ found = R!Active
               /\ \A d \in Caller \ {c} : caller[d].op \notin {"start", "stop", "end"}
    BY <1>0, <1>8, Zenon DEF R!Others
  <1>9. ASSUME ~crossed'
        PROVE  Apart'
    <2>1. Apart /\ R!Active' = R!Active /\ Loose' = Loose
      BY <1>2, <1>8, <1>9 DEF RoomsInv, Alone, Loose, R!Active, R!Running
    <2>2. Loose # {} => R!Active # {}
      BY <1>3, <1>8, <1>9, <2>1 DEF RoomsInv, Busied, Apart, Saving, R!Active, Loose, R!Running
    <2>3. QED
      BY <1>1, <1>2, <1>3, <1>6, <1>8, <1>9, <2>1, <2>2
         DEF RoomsInv, Busied, Apart, R!Others
  <1>10. Shown'
    BY <1>1, <1>2, <1>3, <1>8 DEF RoomsInv, Shown, Loose, R!Running
  <1>11. QED
    BY <1>4, <1>5, <1>7, <1>9, <1>10 DEF RoomsInv, Alone

\* LiveKit starts an egress, or refuses.
LEMMA EgressStep ==
    ASSUME RoomsInv, NEW c \in Caller, R!StartRoomCompositeEgress(c)
    PROVE  RoomsInv'
  <1>1. /\ caller[c].pc = "start"
        /\ UNCHANGED <<news, row, file, banner, crossed, hasty, dimmed>>
    BY DEF R!StartRoomCompositeEgress, R!At
  <1>2. CASE \E e \in Egress : /\ egress[e] = "none"
                               /\ egress' = [egress EXCEPT ![e] = "running"]
                               /\ R!Go(c, "save", e) /\ strayed' = strayed
    <2>1. PICK e \in Egress : /\ egress[e] = "none"
                              /\ egress' = [egress EXCEPT ![e] = "running"]
                              /\ R!Go(c, "save", e) /\ strayed' = strayed
      BY <1>2
    <2>2. /\ caller' \in [Caller -> CallerRow]
          /\ caller'[c].op = caller[c].op /\ caller'[c].pc = "save" /\ caller'[c].egress = e
          /\ \A d \in Caller \ {c} : caller'[d] = caller[d]
      BY <2>1, CallerGoes DEF RoomsInv, RoomsType, RoomPlace
    <2>3. RoomsType'
      BY <1>1, <2>1, <2>2 DEF RoomsInv, RoomsType
    <2>4. /\ egress'[e] = "running" /\ \A d \in Egress \ {e} : egress'[d] = egress[d]
          /\ row[e] = "none" /\ e \notin file
      BY <2>1 DEF RoomsInv, RoomsType, Filed
    <2>5. Busied'
      BY <1>1, <2>1, <2>2, <2>4 DEF RoomsInv, Busied
    <2>6. Saving(e)' /\ \A d \in Egress : Saving(d) => Saving(d)'
      BY <1>1, <2>2 DEF Saving
    <2>7. Filed'
      BY <1>1, <2>1, <2>4, <2>6 DEF RoomsInv, Filed
    <2>8. ASSUME ~crossed'
          PROVE  Apart'
      <3>1. Apart /\ R!Active' = R!Active /\ Loose' \subseteq {e} \cup Loose
        BY <1>1, <2>1, <2>4, <2>8 DEF RoomsInv, Alone, Loose, R!Active, R!Running
      <3>2. Loose = {} /\ \A d \in Caller \ {c} : caller[d].op \notin {"start", "stop", "end"}
        BY <1>1, <3>1 DEF Apart, R!Others
      <3>3. QED
        BY <1>1, <2>2, <2>6, <3>1, <3>2 DEF RoomsInv, Busied, Apart, R!Others
    <2>9. Shown'
      BY <2>2 DEF Shown
    <2>10. QED
      BY <2>3, <2>5, <2>7, <2>8, <2>9 DEF RoomsInv, Alone
  <1>3. CASE R!Answer(c) /\ UNCHANGED <<egress, strayed>>
    <2>1. /\ caller' \in [Caller -> CallerRow]
          /\ caller'[c].op = "none" /\ caller'[c].pc = "idle"
          /\ \A d \in Caller \ {c} : caller'[d] = caller[d]
      BY <1>3, CallerAnswered DEF RoomsInv, RoomsType
    <2>2. QED
      BY <1>1, <1>3, <2>1, IdleStep DEF RoomsInv, RoomsType
  <1>4. CASE \E e \in Egress : /\ egress[e] = "none"
                               /\ egress' = [egress EXCEPT ![e] = "running"]
                               /\ R!Answer(c) /\ strayed' = strayed \cup {e}
    <2>1. PICK e \in Egress : /\ egress[e] = "none"
                              /\ egress' = [egress EXCEPT ![e] = "running"]
                              /\ R!Answer(c) /\ strayed' = strayed \cup {e}
      BY <1>4
    <2>2. /\ caller' \in [Caller -> CallerRow]
          /\ caller'[c].op = "none" /\ caller'[c].pc = "idle"
          /\ \A d \in Caller \ {c} : caller'[d] = caller[d]
      BY <2>1, CallerAnswered DEF RoomsInv, RoomsType
    <2>3. RoomsType'
      BY <1>1, <2>1, <2>2 DEF RoomsInv, RoomsType
    <2>4. /\ egress'[e] = "running" /\ \A d \in Egress \ {e} : egress'[d] = egress[d]
          /\ row[e] = "none" /\ e \notin file
      BY <2>1 DEF RoomsInv, RoomsType, Filed
    <2>5. Busied'
      BY <1>1, <2>1, <2>2, <2>4 DEF RoomsInv, Busied
    <2>6. \A d : Saving(d)' <=> Saving(d)
      BY <1>1, <2>2 DEF Saving
    <2>7. Filed'
      BY <1>1, <2>1, <2>4, <2>6 DEF RoomsInv, Filed
    <2>8. R!Active' = R!Active /\ Loose' \subseteq Loose
      BY <1>1, <2>1, <2>4 DEF R!Active, Loose, R!Running
    <2>9. ASSUME ~crossed'
          PROVE  Apart'
      BY <1>1, <2>2, <2>6, <2>8, <2>9 DEF RoomsInv, Alone, Busied, Apart, R!Others
    <2>10. Shown'
      BY <1>1, <2>2, <2>8 DEF RoomsInv, Shown
    <2>11. QED
      BY <2>3, <2>5, <2>7, <2>9, <2>10 DEF RoomsInv, Alone
  <1>5. QED
    BY <1>2, <1>3, <1>4, Zenon DEF R!StartRoomCompositeEgress

\* The row of a recording is saved, or its egress is astray.
LEMMA SaveStep ==
    ASSUME RoomsInv, NEW c \in Caller, R!SaveRecording(c)
    PROVE  RoomsInv'
  <1>1. PICK e \in Egress :
           /\ caller[c].pc = "save" /\ caller[c].egress = e
           /\ row[e] = "none" /\ egress[e] # "none"
    BY DEF R!SaveRecording, R!At, RoomsInv, Busied
  <1>2. /\ R!Go(c, "show", e)
        /\ UNCHANGED <<egress, news, file, banner, crossed, hasty, dimmed>>
        /\ \/ row' = [row EXCEPT ![e] = "active"] /\ strayed' = strayed
           \/ strayed' = strayed \cup {e} /\ row' = row
    BY <1>1 DEF R!SaveRecording
  <1>3. /\ caller' \in [Caller -> CallerRow]
        /\ caller'[c].op = caller[c].op /\ caller'[c].pc = "show"
        /\ \A d \in Caller \ {c} : caller'[d] = caller[d]
    BY <1>1, <1>2, CallerGoes DEF RoomsInv, RoomsType, RoomPlace
  <1>4. RoomsType'
    BY <1>2, <1>3 DEF RoomsInv, RoomsType
  <1>5. /\ \A d \in Egress \ {e} : row'[d] = row[d]
        /\ row'[e] = "active" \/ (e \in strayed' /\ row'[e] = "none")
        /\ strayed \subseteq strayed'
    <2>1. row \in [Egress -> {"none", "active", "complete", "failed", "deleted"}]
      BY DEF RoomsInv, RoomsType
    <2>2. CASE row' = [row EXCEPT ![e] = "active"] /\ strayed' = strayed
      BY <2>1, <2>2
    <2>3. CASE strayed' = strayed \cup {e} /\ row' = row
      BY <1>1, <2>3
    <2>4. QED
      BY <1>2, <2>2, <2>3
  <1>6. Busied'
    BY <1>1, <1>2, <1>3, <1>5 DEF RoomsInv, Busied
  <1>7. \A d \in Egress \ {e} : Saving(d) => Saving(d)'
    BY <1>1, <1>3 DEF Saving
  <1>8. Filed'
    BY <1>1, <1>2, <1>5, <1>7 DEF RoomsInv, Filed
  <1>9. ASSUME ~crossed'
        PROVE  Apart'
    <2>1. Apart /\ Loose' \subseteq Loose /\ (e \in Loose' => row'[e] = "active")
      BY <1>2, <1>5, <1>9 DEF RoomsInv, Alone, Loose, R!Running
    <2>2. /\ R!Active = {}
          /\ \A d \in Caller \ {c} : caller[d].op \notin {"start", "stop", "end"}
      BY <1>1, <2>1 DEF Apart, R!Others
    <2>3. R!Active' \subseteq {e} /\ \A d \in Loose' \ {e} : d \in Egress
      BY <1>5, <2>2 DEF R!Active, Loose, R!Running
    <2>4. QED
      BY <1>1, <1>3, <1>5, <1>7, <2>1, <2>2, <2>3 DEF RoomsInv, Busied, Apart, R!Others
  <1>10. Shown'
    BY <1>3 DEF Shown
  <1>11. QED
    BY <1>4, <1>6, <1>8, <1>9, <1>10 DEF RoomsInv, Alone

\* The banner after a start or a stop.
LEMMA BannerStep ==
    ASSUME RoomsInv, NEW c \in Caller, R!SetBanner(c)
    PROVE  RoomsInv'
  <1>1. /\ caller[c].pc \in {"show", "hide"}
        /\ caller[c].pc = "show" => banner' \/ dimmed'
        /\ banner' \in BOOLEAN /\ dimmed' \in BOOLEAN
        /\ UNCHANGED <<egress, news, row, file, crossed, strayed, hasty>>
    <2>1. banner \in BOOLEAN /\ dimmed \in BOOLEAN
      BY DEF RoomsInv, RoomsType
    <2>2. CASE R!At(c, "show") /\ R!Show(TRUE)
      BY <2>2, Lit DEF R!SetBanner, R!At
    <2>3. CASE R!At(c, "show") /\ dimmed' = ~banner /\ UNCHANGED banner
      BY <2>1, <2>3 DEF R!SetBanner, R!At
    <2>4. CASE R!At(c, "hide") /\ banner' = FALSE /\ UNCHANGED dimmed
      BY <2>1, <2>4 DEF R!SetBanner, R!At
    <2>5. CASE R!At(c, "hide") /\ UNCHANGED <<banner, dimmed>>
      BY <2>1, <2>5 DEF R!SetBanner, R!At
    <2>6. QED
      BY <2>2, <2>3, <2>4, <2>5 DEF R!SetBanner, R!NoShow
  <1>2. /\ caller' \in [Caller -> CallerRow]
        /\ caller'[c].op = "none" /\ caller'[c].pc = "idle"
        /\ \A d \in Caller \ {c} : caller'[d] = caller[d]
    BY CallerAnswered DEF R!SetBanner, RoomsInv, RoomsType
  <1>3. RoomsType'
    BY <1>1, <1>2 DEF RoomsInv, RoomsType
  <1>4. Busied'
    BY <1>1, <1>2 DEF RoomsInv, Busied
  <1>5. \A e : Saving(e)' <=> Saving(e)
    BY <1>1, <1>2 DEF Saving
  <1>6. Filed'
    BY <1>1, <1>5 DEF RoomsInv, Filed
  <1>7. R!Active' = R!Active /\ Loose' = Loose
    BY <1>1 DEF Loose, R!Active, R!Running
  <1>8. ASSUME ~crossed'
        PROVE  Apart'
    BY <1>1, <1>2, <1>5, <1>7, <1>8 DEF RoomsInv, Alone, Busied, Apart, R!Others
  <1>9. Shown'
    <2>1. CASE caller[c].pc = "show"
      BY <1>1, <2>1 DEF Shown
    <2>2. CASE caller[c].pc = "hide"
      BY <1>1, <1>7, <2>2 DEF Shown, RoomsInv, Alone, Apart
    <2>3. QED
      BY <1>1, <2>1, <2>2
  <1>10. QED
    BY <1>3, <1>4, <1>6, <1>8, <1>9 DEF RoomsInv, Alone

\* A stop, by a request or with the room.
LEMMA FinalizeStep ==
    ASSUME RoomsInv, NEW c \in Caller, NEW op \in {"stop", "end"}, R!Finalize(c, op)
    PROVE  RoomsInv'
  <1>0. PICK found \in {R!Active, {}} :
           /\ IF found = {}
              THEN R!Request(c, op, IF op = "stop" THEN "hide" ELSE "close", R!NoEgress)
              ELSE \E e \in found : R!Request(c, op, "stop", e)
           /\ crossed' = (crossed \/ found # R!Active \/ R!Others(c, {"start"}))
           /\ UNCHANGED <<egress, news, row, file, banner, strayed, hasty, dimmed>>
    BY Zenon DEF R!Finalize
  <1>1. PICK x \in {"hide", "close", "stop"}, e \in Egress \cup {R!NoEgress} :
           /\ R!Request(c, op, x, e)
           /\ found = {} => x = (IF op = "stop" THEN "hide" ELSE "close")
           /\ found # {} => x = "stop" /\ e \in R!Active
    <2>1. CASE found = {}
      <3>1. (IF op = "stop" THEN "hide" ELSE "close") \in {"hide", "close", "stop"}
        OBVIOUS
      <3>2. QED
        BY <1>0, <2>1, <3>1, Zenon
    <2>2. CASE found # {}
      BY <1>0, <2>2 DEF R!Active
    <2>3. QED
      BY <2>1, <2>2
  <1>2. /\ UNCHANGED <<egress, news, row, file, banner, strayed, hasty, dimmed>>
        /\ crossed' \in BOOLEAN
        /\ x = "stop" => e \in R!Active
        /\ x = "hide" => op = "stop"
        /\ x = "close" => op = "end"
    BY <1>0, <1>1 DEF RoomsInv, RoomsType
  <1>3. /\ caller' \in [Caller -> CallerRow] /\ caller[c].pc = "idle"
        /\ caller'[c].op = op /\ caller'[c].pc = x /\ caller'[c].egress = e
        /\ \A d \in Caller \ {c} : caller'[d] = caller[d]
    BY <1>1, CallerBegins DEF RoomsInv, RoomsType, RoomPlace
  <1>4. RoomsType'
    BY <1>2, <1>3 DEF RoomsInv, RoomsType
  <1>5. Busied'
    BY <1>1, <1>2, <1>3 DEF RoomsInv, Busied, R!Active
  <1>6. \A d : Saving(d)' <=> Saving(d)
    BY <1>1, <1>3 DEF Saving
  <1>7. Filed'
    BY <1>2, <1>6 DEF RoomsInv, Filed
  <1>8. ASSUME ~crossed'
        PROVE  /\ ~crossed /\ found = R!Active
               /\ \A d \in Caller \ {c} : caller[d].op # "start"
    BY <1>0, <1>8, Zenon DEF R!Others
  <1>9. R!Active' = R!Active /\ Loose' = Loose
    BY <1>2 DEF Loose, R!Active, R!Running
  <1>10. ASSUME ~crossed'
         PROVE  Apart'
    <2>1. Apart
      BY <1>8, <1>10 DEF RoomsInv, Alone
    <2>2. R!Active = {} => Loose = {}
      BY <1>3, <1>8, <1>10, <2>1
         DEF RoomsInv, Busied, Apart, Saving, R!Active, Loose, R!Running
    <2>3. \A d \in Caller : caller'[d].pc \notin {"start", "save"}
      BY <1>1, <1>3, <1>8, <1>10 DEF RoomsInv, Busied
    <2>4. QED
      BY <1>1, <1>2, <1>3, <1>6, <1>8, <1>9, <1>10, <2>1, <2>2, <2>3 DEF Apart
  <1>11. Shown'
    BY <1>1, <1>2, <1>3, <1>8, <1>9 DEF RoomsInv, Shown
  <1>12. QED
    BY <1>4, <1>5, <1>7, <1>10, <1>11 DEF RoomsInv, Alone

\* LiveKit stops the egress, or refuses.
LEMMA StopStep ==
    ASSUME RoomsInv, NEW c \in Caller, R!StopEgress(c)
    PROVE  RoomsInv'
  <1>1. PICK e \in Egress : caller[c].pc = "stop" /\ caller[c].egress = e
    BY DEF R!StopEgress, R!At, RoomsInv, Busied
  <1>2. /\ R!Go(c, "finalize", e)
        /\ UNCHANGED <<news, row, file, banner, crossed, hasty, dimmed>>
        /\ \/ /\ egress' = [egress EXCEPT ![e] = IF @ = "running" THEN "uploading" ELSE @]
              /\ strayed' = strayed
           \/ strayed' = strayed \cup {e} /\ egress' = egress
    BY <1>1 DEF R!StopEgress, R!Stopped
  <1>3. /\ caller' \in [Caller -> CallerRow]
        /\ caller'[c].op = caller[c].op /\ caller'[c].pc = "finalize" /\ caller'[c].egress = e
        /\ \A d \in Caller \ {c} : caller'[d] = caller[d]
    BY <1>1, <1>2, CallerGoes DEF RoomsInv, RoomsType, RoomPlace
  <1>4. RoomsType'
    BY <1>2, <1>3 DEF RoomsInv, RoomsType
  <1>5. /\ \A d \in Egress : /\ egress'[d] = "none" <=> egress[d] = "none"
                             /\ egress'[d] = "over" <=> egress[d] = "over"
                             /\ egress'[d] = "running" => egress[d] = "running"
        /\ e \notin Loose' /\ Loose' \subseteq Loose /\ strayed \subseteq strayed'
    BY <1>1, <1>2 DEF RoomsInv, RoomsType, Loose, R!Running
  <1>6. Busied'
    BY <1>1, <1>2, <1>3, <1>5 DEF RoomsInv, Busied
  <1>7. \A d : Saving(d)' <=> Saving(d)
    BY <1>1, <1>3 DEF Saving
  <1>8. Filed'
    BY <1>2, <1>5, <1>7 DEF RoomsInv, RoomsType, Filed
  <1>9. ASSUME ~crossed'
        PROVE  Apart'
    <2>1. Apart /\ R!Active' = R!Active
      BY <1>2, <1>9 DEF RoomsInv, Alone, R!Active
    <2>2. \A d \in Caller : caller[d].pc \notin {"start", "save"}
      BY <1>1, <2>1 DEF RoomsInv, Busied, Apart, R!Others
    <2>3. Loose' = {}
      BY <1>1, <1>5, <2>1, <2>2 DEF Apart, Saving, R!Active, Loose, R!Running
    <2>4. QED
      BY <1>1, <1>2, <1>3, <2>1, <2>2, <2>3 DEF Apart
  <1>10. Shown'
    BY <1>1, <1>2, <1>3, <1>5 DEF RoomsInv, Shown
  <1>11. QED
    BY <1>4, <1>6, <1>8, <1>9, <1>10 DEF RoomsInv, Alone

\* The active rows are completed.
LEMMA CompleteStep ==
    ASSUME RoomsInv, NEW c \in Caller, R!CompleteRows(c)
    PROVE  RoomsInv'
  <1>1. PICK x \in {"hide", "close"} :
           /\ x = (IF caller[c].op = "stop" THEN "hide" ELSE "close")
           /\ R!Go(c, x, R!NoEgress)
    BY DEF R!CompleteRows
  <1>2. /\ caller[c].pc = "finalize" /\ caller[c].op \in {"stop", "end"}
        /\ UNCHANGED <<egress, news, file, banner, crossed, strayed, hasty, dimmed>>
        /\ \/ row' = [e \in Egress |-> IF e \in R!Active THEN "complete" ELSE row[e]]
           \/ row' = row
    BY DEF R!CompleteRows, R!At, RoomsInv, Busied
  <1>3. /\ caller' \in [Caller -> CallerRow]
        /\ caller'[c].op = caller[c].op /\ caller'[c].pc = x
        /\ \A d \in Caller \ {c} : caller'[d] = caller[d]
    BY <1>1, CallerGoes DEF RoomsInv, RoomsType, RoomPlace
  <1>4. RoomsType'
    BY <1>2, <1>3 DEF RoomsInv, RoomsType
  <1>5. \A e \in Egress : row'[e] = row[e] \/ (row[e] = "active" /\ row'[e] = "complete")
    BY <1>2 DEF R!Active
  <1>6. Busied'
    BY <1>1, <1>2, <1>3, <1>5 DEF RoomsInv, Busied
  <1>7. \A e : Saving(e)' <=> Saving(e)
    BY <1>1, <1>2, <1>3 DEF Saving
  <1>8. Filed'
    BY <1>2, <1>5, <1>7 DEF RoomsInv, Filed
  <1>9. R!Active' \subseteq R!Active /\ Loose' = Loose
    BY <1>2, <1>5 DEF R!Active, Loose, R!Running
  <1>10. ASSUME ~crossed'
         PROVE  Apart'
    <2>1. Apart /\ Loose = {}
      BY <1>2, <1>10 DEF RoomsInv, Alone, Apart
    <2>2. \A d \in Caller : caller[d].pc \notin {"start", "save"}
      BY <1>2, <2>1 DEF RoomsInv, Busied, Apart, R!Others
    <2>3. QED
      BY <1>1, <1>2, <1>3, <1>9, <2>1, <2>2 DEF Apart
  <1>11. Shown'
    BY <1>1, <1>2, <1>3, <1>9 DEF RoomsInv, Shown
  <1>12. QED
    BY <1>4, <1>6, <1>8, <1>10, <1>11 DEF RoomsInv, Alone

\* The room goes, with all that runs in it, or stays.
LEMMA CloseStep ==
    ASSUME RoomsInv, NEW c \in Caller, R!DeleteRoom(c)
    PROVE  RoomsInv'
  <1>1. /\ caller[c].pc = "close"
        /\ UNCHANGED <<news, row, file, crossed, strayed, hasty, dimmed>>
        /\ \/ /\ egress' = [e \in Egress |-> IF e \in R!Running THEN "uploading" ELSE egress[e]]
              /\ banner' = FALSE
           \/ UNCHANGED <<egress, banner>>
    BY DEF R!DeleteRoom, R!At
  <1>2. /\ caller' \in [Caller -> CallerRow]
        /\ caller'[c].op = "none" /\ caller'[c].pc = "idle"
        /\ \A d \in Caller \ {c} : caller'[d] = caller[d]
    BY CallerAnswered DEF R!DeleteRoom, RoomsInv, RoomsType
  <1>3. RoomsType'
    BY <1>1, <1>2, ZenonT(40) DEF RoomsInv, RoomsType
  <1>4. /\ \A d \in Egress : /\ egress'[d] = "none" <=> egress[d] = "none"
                             /\ egress'[d] = "over" <=> egress[d] = "over"
                             /\ egress'[d] = "running" => egress[d] = "running"
        /\ Loose' \subseteq Loose /\ R!Active' = R!Active
    BY <1>1 DEF RoomsInv, RoomsType, Loose, R!Running, R!Active
  <1>5. Busied'
    BY <1>1, <1>2, <1>4 DEF RoomsInv, Busied
  <1>6. \A e : Saving(e)' <=> Saving(e)
    BY <1>1, <1>2 DEF Saving
  <1>7. Filed'
    BY <1>1, <1>4, <1>6 DEF RoomsInv, RoomsType, Filed
  <1>8. ASSUME ~crossed'
        PROVE  Apart' /\ Loose' = {}
    <2>1. Apart /\ Loose = {}
      BY <1>1, <1>8 DEF RoomsInv, Alone, Apart
    <2>2. QED
      BY <1>1, <1>2, <1>4, <1>6, <2>1 DEF RoomsInv, Busied, Apart, R!Others
  <1>9. Shown'
    BY <1>8 DEF Shown
  <1>10. QED
    BY <1>3, <1>5, <1>7, <1>8, <1>9 DEF RoomsInv, Alone

\* The upload is over.
LEMMA OverStep ==
    ASSUME RoomsInv, NEW e \in Egress, R!EgressOver(e)
    PROVE  RoomsInv'
  <1>1. /\ egress[e] \in {"running", "uploading"} /\ egress' = [egress EXCEPT ![e] = "over"]
        /\ UNCHANGED <<row, banner, caller, crossed, strayed, hasty, dimmed>>
        /\ \/ file' = file \cup {e} /\ news' = [news EXCEPT ![e] = "egress_ended"]
           \/ file' = file /\ news' = [news EXCEPT ![e] = "egress_failed"]
    BY DEF R!EgressOver
  <1>2. RoomsType'
    BY <1>1 DEF RoomsInv, RoomsType
  <1>3. /\ egress'[e] = "over" /\ \A d \in Egress \ {e} : egress'[d] = egress[d]
        /\ \A d \in Egress \ {e} : news'[d] = news[d] /\ (d \in file' <=> d \in file)
        /\ file' \subseteq Egress
    BY <1>1 DEF RoomsInv, RoomsType
  <1>4. Busied'
    BY <1>1, <1>3 DEF RoomsInv, Busied
  <1>5. \A d : Saving(d)' <=> Saving(d)
    BY <1>1 DEF Saving
  <1>6. Filed'
    BY <1>1, <1>3, <1>5 DEF RoomsInv, Filed
  <1>7. R!Active' = R!Active /\ Loose' \subseteq Loose
    BY <1>1, <1>3 DEF R!Active, Loose, R!Running
  <1>8. ASSUME ~crossed'
        PROVE  Apart'
    BY <1>1, <1>5, <1>7, <1>8 DEF RoomsInv, Alone, Apart, R!Others
  <1>9. Shown'
    BY <1>1, <1>7 DEF RoomsInv, Shown
  <1>10. QED
    BY <1>2, <1>4, <1>6, <1>8, <1>9 DEF RoomsInv, Alone

\* LiveKit reports the end.
LEMMA EndedStep ==
    ASSUME RoomsInv, NEW e \in Egress, NEW what \in {"egress_ended", "egress_failed"},
           R!EgressEnded(e, what)
    PROVE  RoomsInv'
  <1>1. PICK s \in {"none", "active", "complete", "failed", "deleted"} :
           /\ row' = [row EXCEPT ![e] = s]
           /\ s = row[e] \/ (row[e] \notin {"none", "deleted"} /\ s \in {"failed", "complete"})
    <2>1. row' = row \/ row' = [row EXCEPT ![e] = IF @ \in {"none", "deleted"} THEN @
                             ELSE IF what = "egress_failed" THEN "failed" ELSE "complete"]
      BY Zenon DEF R!EgressEnded
    <2>2. row \in [Egress -> {"none", "active", "complete", "failed", "deleted"}]
      BY DEF RoomsInv, RoomsType
    <2>3. QED
      BY <2>1, <2>2
  <1>2. /\ news[e] # "none" /\ news' = [news EXCEPT ![e] = "none"]
        /\ banner' \in BOOLEAN /\ dimmed' \in BOOLEAN
        /\ dimmed => dimmed'
        /\ ~dimmed' /\ Loose # {} /\ banner => banner'
        /\ UNCHANGED <<egress, file, caller, crossed, strayed, hasty>>
    BY DEF R!EgressEnded, R!Show, R!NoShow, R!Unsaved, Loose, RoomsInv, RoomsType
  <1>3. RoomsType'
    BY <1>1, <1>2 DEF RoomsInv, RoomsType
  <1>4. /\ row'[e] = s /\ \A d \in Egress \ {e} : row'[d] = row[d] /\ news'[d] = news[d]
        /\ news'[e] = "none"
        /\ egress[e] = "over"
    BY <1>1, <1>2 DEF RoomsInv, RoomsType, Filed
  <1>5. Busied'
    BY <1>1, <1>2, <1>4 DEF RoomsInv, Busied
  <1>6. \A d : Saving(d)' <=> Saving(d)
    BY <1>2 DEF Saving
  <1>7. Filed'
    BY <1>1, <1>2, <1>4, <1>6 DEF RoomsInv, RoomsType, Filed
  <1>8. R!Active' \subseteq R!Active /\ Loose' = Loose /\ e \notin Loose
    BY <1>1, <1>2, <1>4 DEF R!Active, Loose, R!Running
  <1>9. ASSUME ~crossed'
        PROVE  Apart'
    <2>1. Apart
      BY <1>2, <1>9 DEF RoomsInv, Alone
    <2>2. \A d \in Loose' : row'[d] = "active" \/ Saving(d)'
      BY <1>4, <1>6, <1>8, <2>1 DEF Apart, Loose, R!Running
    <2>3. QED
      BY <1>2, <1>8, <2>1, <2>2 DEF Apart, R!Others
  <1>10. Shown'
    BY <1>2, <1>8 DEF RoomsInv, Shown
  <1>11. QED
    BY <1>3, <1>5, <1>7, <1>9, <1>10 DEF RoomsInv, Alone

\* A recording is to be deleted.
LEMMA DeleteStep ==
    ASSUME RoomsInv, NEW c \in Caller, NEW e \in Egress, R!DeleteRecording(c, e)
    PROVE  RoomsInv'
  <1>1. /\ row[e] \in {"complete", "failed"} /\ R!Request(c, "delete", "file", e)
        /\ UNCHANGED <<egress, news, row, file, banner, crossed, strayed, hasty, dimmed>>
    BY DEF R!DeleteRecording
  <1>2. /\ caller' \in [Caller -> CallerRow] /\ caller[c].pc = "idle"
        /\ caller'[c].op = "delete" /\ caller'[c].pc = "file" /\ caller'[c].egress = e
        /\ \A d \in Caller \ {c} : caller'[d] = caller[d]
    BY <1>1, CallerBegins DEF RoomsInv, RoomsType, RoomPlace
  <1>3. RoomsType'
    BY <1>1, <1>2 DEF RoomsInv, RoomsType
  <1>4. Busied'
    BY <1>1, <1>2 DEF RoomsInv, Busied
  <1>5. \A d : Saving(d)' <=> Saving(d)
    BY <1>2 DEF Saving
  <1>6. Filed'
    BY <1>1, <1>5 DEF RoomsInv, Filed
  <1>7. R!Active' = R!Active /\ Loose' = Loose
    BY <1>1 DEF R!Active, Loose, R!Running
  <1>8. ASSUME ~crossed'
        PROVE  Apart'
    BY <1>1, <1>2, <1>5, <1>7, <1>8 DEF RoomsInv, Alone, Busied, Apart, R!Others
  <1>9. Shown'
    BY <1>1, <1>2, <1>7 DEF RoomsInv, Shown
  <1>10. QED
    BY <1>3, <1>4, <1>6, <1>8, <1>9 DEF RoomsInv, Alone

\* The file goes, or cannot be deleted.
LEMMA FileStep ==
    ASSUME RoomsInv, NEW c \in Caller, R!DeleteFile(c)
    PROVE  RoomsInv'
  <1>1. PICK e \in Egress : caller[c].pc = "file" /\ caller[c].egress = e
    BY DEF R!DeleteFile, R!At, RoomsInv, Busied
  <1>2. UNCHANGED <<egress, news, row, banner, crossed, strayed, dimmed>>
    BY DEF R!DeleteFile
  <1>3. CASE /\ file' = file \ {e}
             /\ hasty' = hasty \cup {d \in {e} : egress[d] # "over"}
             /\ R!Go(c, "rows", e)
    <2>1. /\ caller' \in [Caller -> CallerRow]
          /\ caller'[c].op = caller[c].op /\ caller'[c].pc = "rows" /\ caller'[c].egress = e
          /\ \A d \in Caller \ {c} : caller'[d] = caller[d]
      BY <1>1, <1>3, CallerGoes DEF RoomsInv, RoomsType, RoomPlace
    <2>2. /\ e \notin file' /\ file' \subseteq file /\ hasty \subseteq hasty'
          /\ egress[e] = "over" \/ e \in hasty'
          /\ hasty' \subseteq Egress
      BY <1>1, <1>3 DEF RoomsInv, RoomsType
    <2>3. RoomsType'
      BY <1>2, <2>1, <2>2 DEF RoomsInv, RoomsType
    <2>4. Busied'
      BY <1>1, <1>2, <2>1, <2>2 DEF RoomsInv, Busied
    <2>5. \A d : Saving(d)' <=> Saving(d)
      BY <1>1, <2>1 DEF Saving
    <2>6. Filed'
      BY <1>2, <2>2, <2>5 DEF RoomsInv, Filed
    <2>7. R!Active' = R!Active /\ Loose' = Loose
      BY <1>2 DEF R!Active, Loose, R!Running
    <2>8. ASSUME ~crossed'
          PROVE  Apart'
      BY <1>1, <1>2, <2>1, <2>5, <2>7, <2>8 DEF RoomsInv, Alone, Busied, Apart, R!Others
    <2>9. Shown'
      BY <1>1, <1>2, <2>1, <2>7 DEF RoomsInv, Shown
    <2>10. QED
      BY <2>3, <2>4, <2>6, <2>8, <2>9 DEF RoomsInv, Alone
  <1>4. CASE R!Answer(c) /\ UNCHANGED <<file, hasty>>
    <2>1. /\ caller' \in [Caller -> CallerRow]
          /\ caller'[c].op = "none" /\ caller'[c].pc = "idle"
          /\ \A d \in Caller \ {c} : caller'[d] = caller[d]
      BY <1>4, CallerAnswered DEF RoomsInv, RoomsType
    <2>2. QED
      BY <1>1, <1>2, <1>4, <2>1, IdleStep DEF RoomsInv, RoomsType
  <1>5. QED
    BY <1>1, <1>3, <1>4 DEF R!DeleteFile

\* The row goes, or stays without its file.
LEMMA RowStep ==
    ASSUME RoomsInv, NEW c \in Caller, R!DeleteRow(c)
    PROVE  RoomsInv'
  <1>1. PICK e \in Egress :
           /\ caller[c].pc = "rows" /\ caller[c].egress = e
           /\ row' = [row EXCEPT ![e] = "deleted"] \/ row' = row
           /\ row[e] \in {"complete", "failed", "deleted"}
           /\ (egress[e] = "over" /\ e \notin file) \/ e \in hasty
    BY DEF R!DeleteRow, R!At, RoomsInv, Busied
  <1>2. UNCHANGED <<egress, news, file, banner, crossed, strayed, hasty, dimmed>>
    BY DEF R!DeleteRow
  <1>3. /\ caller' \in [Caller -> CallerRow]
        /\ caller'[c].op = "none" /\ caller'[c].pc = "idle"
        /\ \A d \in Caller \ {c} : caller'[d] = caller[d]
    BY CallerAnswered DEF R!DeleteRow, RoomsInv, RoomsType
  <1>4. RoomsType'
    BY <1>1, <1>2, <1>3 DEF RoomsInv, RoomsType
  <1>5. /\ row'[e] = "deleted" \/ row'[e] = row[e]
        /\ \A d \in Egress \ {e} : row'[d] = row[d]
    BY <1>1 DEF RoomsInv, RoomsType
  <1>6. Busied'
    BY <1>1, <1>2, <1>3, <1>5 DEF RoomsInv, Busied
  <1>7. \A d : Saving(d)' <=> Saving(d)
    BY <1>1, <1>3 DEF Saving
  <1>8. Filed'
    BY <1>1, <1>2, <1>5, <1>7 DEF RoomsInv, Filed
  <1>9. R!Active' = R!Active /\ Loose' = Loose
    BY <1>1, <1>2, <1>5 DEF R!Active, Loose, R!Running
  <1>10. ASSUME ~crossed'
         PROVE  Apart'
    <2>1. Apart
      BY <1>2, <1>10 DEF RoomsInv, Alone
    <2>2. \A d \in Loose' : row'[d] = "active" \/ Saving(d)'
      BY <1>1, <1>5, <1>7, <1>9, <2>1 DEF RoomsInv, Busied, Apart, Saving, Loose, R!Running
    <2>3. QED
      BY <1>1, <1>2, <1>3, <1>9, <2>1, <2>2 DEF RoomsInv, Busied, Apart, R!Others
  <1>11. Shown'
    BY <1>1, <1>2, <1>3, <1>9 DEF RoomsInv, Shown
  <1>12. QED
    BY <1>4, <1>6, <1>8, <1>10, <1>11 DEF RoomsInv, Alone

\* Another flag of the room is set, of metadata that is read first.
LEMMA ToggleStep ==
    ASSUME RoomsInv, NEW c \in Caller, R!ScreenShareToggle(c)
    PROVE  RoomsInv'
  <1>1. PICK x \in {"keepOn", "keepOff"} : R!Request(c, "share", x, R!NoEgress)
    BY DEF R!ScreenShareToggle
  <1>2. UNCHANGED <<egress, news, row, file, banner, crossed, strayed, hasty, dimmed>>
    BY DEF R!ScreenShareToggle
  <1>3. /\ caller' \in [Caller -> CallerRow] /\ caller[c].pc = "idle"
        /\ caller'[c].op = "share" /\ caller'[c].pc = x
        /\ \A d \in Caller \ {c} : caller'[d] = caller[d]
    BY <1>1, CallerBegins DEF RoomPlace, RoomsInv, RoomsType
  <1>4. RoomsType'
    BY <1>2, <1>3 DEF RoomsInv, RoomsType
  <1>5. Busied'
    BY <1>1, <1>2, <1>3 DEF RoomsInv, Busied
  <1>6. \A d : Saving(d)' <=> Saving(d)
    BY <1>1, <1>3 DEF Saving
  <1>7. Filed'
    BY <1>2, <1>6 DEF RoomsInv, Filed
  <1>8. R!Active' = R!Active /\ Loose' = Loose
    BY <1>2 DEF R!Active, Loose, R!Running
  <1>9. ASSUME ~crossed'
        PROVE  Apart'
    BY <1>1, <1>2, <1>3, <1>6, <1>8, <1>9 DEF RoomsInv, Alone, Busied, Apart, R!Others
  <1>10. Shown'
    BY <1>1, <1>2, <1>3, <1>8 DEF RoomsInv, Shown
  <1>11. QED
    BY <1>4, <1>5, <1>7, <1>9, <1>10 DEF RoomsInv, Alone

\* The metadata is written back, with the banner as it was.
LEMMA WriteBackStep ==
    ASSUME RoomsInv, NEW c \in Caller, R!WriteMetadataBack(c)
    PROVE  RoomsInv'
  <1>1. /\ caller[c].pc \in {"keepOn", "keepOff"}
        /\ banner' \in BOOLEAN /\ dimmed' \in BOOLEAN
        /\ Loose # {} /\ ~dimmed' => banner' \/ (~dimmed /\ (banner => banner'))
        /\ UNCHANGED <<egress, news, row, file, crossed, strayed, hasty>>
    <2>1. banner \in BOOLEAN /\ dimmed \in BOOLEAN
      BY DEF RoomsInv, RoomsType
    <2>2. CASE R!At(c, "keepOn") /\ R!Show(TRUE)
      BY <2>2, Lit DEF R!WriteMetadataBack, R!At
    <2>3. CASE R!At(c, "keepOff") /\ R!Show(FALSE)
      BY <2>1, <2>3, PutOut DEF R!WriteMetadataBack, R!At
    <2>4. CASE caller[c].pc \in {"keepOn", "keepOff"} /\ UNCHANGED <<banner, dimmed>>
      BY <2>1, <2>4 DEF R!WriteMetadataBack
    <2>5. QED
      BY <2>2, <2>3, <2>4 DEF R!WriteMetadataBack, R!NoShow
  <1>2. /\ caller' \in [Caller -> CallerRow]
        /\ caller'[c].op = "none" /\ caller'[c].pc = "idle"
        /\ \A d \in Caller \ {c} : caller'[d] = caller[d]
    BY CallerAnswered DEF R!WriteMetadataBack, RoomsInv, RoomsType
  <1>3. QED
    BY <1>1, <1>2, IdleStep

\* The process stops: what was not saved is astray, and what was not shown is dark.
LEMMA RoomsCrashStep ==
    ASSUME RoomsInv, R!Crash
    PROVE  RoomsInv'
  <1>1. /\ UNCHANGED <<egress, news, row, file, banner, crossed, hasty>>
        /\ strayed' = strayed \cup {caller[c].egress : c \in {d \in Caller : R!At(d, "save")}}
        /\ dimmed' = (dimmed \/ (~banner /\ \E c \in Caller : R!At(c, "show")))
        /\ caller' = [c \in Caller |-> R!Off]
    BY DEF R!Crash
  <1>2. R!Off \in CallerRow /\ R!Off.pc = "idle" /\ R!Off.op = "none"
    BY DEF R!Off, CallerRow, RoomPlace
  <1>3. /\ caller' \in [Caller -> CallerRow]
        /\ \A c \in Caller : caller'[c].pc = "idle"
    BY <1>1, <1>2
  <1>4. /\ strayed \subseteq strayed' /\ strayed' \subseteq Egress
        /\ \A e : Saving(e) => e \in strayed'
    BY <1>1 DEF RoomsInv, RoomsType, Busied, Saving, R!At
  <1>5. RoomsType'
    <2>1. dimmed' \in BOOLEAN
      BY <1>1 DEF RoomsInv, RoomsType
    <2>2. QED
      BY <1>1, <1>3, <1>4, <2>1 DEF RoomsInv, RoomsType
  <1>6. Busied'
    BY <1>1, <1>3 DEF RoomsInv, Busied
  <1>7. Filed'
    BY <1>1, <1>4 DEF RoomsInv, Filed
  <1>8. R!Active' = R!Active /\ Loose' \subseteq Loose
    BY <1>1, <1>4 DEF R!Active, Loose, R!Running
  <1>9. ASSUME ~crossed'
        PROVE  Apart'
    <2>1. Apart
      BY <1>1, <1>9 DEF RoomsInv, Alone
    <2>2. \A d \in Loose' : row'[d] = "active"
      BY <1>1, <1>4, <1>8, <2>1 DEF Apart, Loose, R!Running
    <2>3. QED
      BY <1>3, <1>8, <2>1, <2>2 DEF Apart
  <1>10. Shown'
    <2> SUFFICES ASSUME ~crossed', ~dimmed', Loose' # {}
                 PROVE  banner'
      BY DEF Shown
    <2>1. ~dimmed /\ ~crossed /\ Apart /\ (banner \/ ~\E c \in Caller : R!At(c, "show"))
      BY <1>1 DEF RoomsInv, Alone
    <2>2. ASSUME NEW c \in Caller, caller[c].pc = "save"
          PROVE  FALSE
      <3>1. R!Active = {}
        BY <2>1, <2>2 DEF Apart
      <3>2. \A e \in Loose : e \in strayed'
        BY <1>4, <2>1, <3>1 DEF Apart, Loose, R!Running, R!Active
      <3>3. QED
        BY <1>8, <3>2 DEF Loose
    <2>3. QED
      BY <1>1, <1>8, <2>1, <2>2 DEF RoomsInv, Shown, R!At
  <1>11. QED
    BY <1>5, <1>6, <1>7, <1>9, <1>10 DEF RoomsInv, Alone

\* Every step of a room keeps the invariant.
LEMMA RoomsStep == RoomsInv /\ [R!RecordingNext]_rVars => RoomsInv'
  <1> SUFFICES ASSUME RoomsInv, [R!RecordingNext]_rVars
               PROVE  RoomsInv'
    OBVIOUS
  <1>1. ASSUME NEW e \in Egress, R!EgressStarted(e)
        PROVE  RoomsInv'
    <2>1. /\ banner' = TRUE /\ dimmed' = FALSE
          /\ UNCHANGED <<egress, news, row, file, caller, crossed, strayed, hasty>>
      BY <1>1 DEF R!EgressStarted, R!Show
    <2>2. RoomsType' /\ Busied' /\ Shown'
      BY <2>1 DEF RoomsInv, RoomsType, Busied, Shown
    <2>3. Filed' /\ Alone'
      BY <2>1 DEF RoomsInv, Filed, Alone, Apart, Saving, Loose, R!Running, R!Active, R!Others
    <2>4. QED
      BY <2>2, <2>3 DEF RoomsInv
  <1>2. CASE UNCHANGED rVars
    <2>1. RoomsType' /\ Busied'
      BY <1>2 DEF RoomsInv, rVars, RoomsType, Busied
    <2>2. Filed' /\ Alone' /\ Shown'
      BY <1>2
         DEF RoomsInv, rVars, Filed, Alone, Apart, Shown, Saving, Loose, R!Running, R!Active,
             R!Others
    <2>3. QED
      BY <2>1, <2>2 DEF RoomsInv
  <1>3. QED
    BY <1>1, <1>2, StartStep, EgressStep, SaveStep, BannerStep, FinalizeStep, StopStep,
       CompleteStep, CloseStep, OverStep, EndedStep, DeleteStep, FileStep, RowStep, ToggleStep,
       WriteBackStep, RoomsCrashStep
       DEF R!RecordingNext, R!RecordStop, R!EndRoom

\* For any number of recordings and of requests at the same time: what runs can be stopped
\* (finalizeActiveRecording finds its row), a file in the bucket has its row, and a room that
\* records shows it (RecordStart, RecordStop, EndRoom, DeleteRecording, LiveKit's events);
\* whatever LiveKit, the bucket and the database refuse and wherever the process stops, but
\* for what each property excepts.
THEOREM RecordingsKept == MeetingsSpec => []RecordingsAreInHand
  <1>1. MeetingsInit => RoomsInv
    <2> SUFFICES ASSUME R!RecordingInit
                 PROVE  RoomsInv
      BY DEF MeetingsInit
    <2>1. RoomsType /\ Busied
      BY DEF R!RecordingInit, RoomsType, Busied, R!Off, CallerRow, RoomPlace
    <2>2. Loose = {} /\ R!Active = {}
      BY DEF R!RecordingInit, Loose, R!Running, R!Active
    <2>3. Filed /\ Alone /\ Shown
      BY <2>2 DEF R!RecordingInit, Filed, Alone, Apart, Shown, R!Off
    <2>4. QED
      BY <2>1, <2>3 DEF RoomsInv
  <1>2. RoomsInv /\ [MeetingsNext]_meetingsVars => RoomsInv'
    <2>1. [MeetingsNext]_meetingsVars => [R!RecordingNext]_rVars
      BY DEF MeetingsNext, meetingsVars, QuestionsMove, FollowupsMove, InvitesMove, RoomsMove,
             NotesMove
    <2>2. QED
      BY <2>1, RoomsStep
  <1>3. RoomsInv => RecordingsAreInHand
    <2> SUFFICES ASSUME RoomsInv
                 PROVE  RecordingsAreInHand
      OBVIOUS
    <2>1. R!CanBeStopped
      BY DEF RoomsInv, Alone, Apart, Loose, Saving, R!CanBeStopped, R!Busy
    <2>2. R!FilesAreListed
      BY DEF RoomsInv, RoomsType, Filed, Saving, R!FilesAreListed, R!Busy
    <2>3. R!BannerWhileRecording
      BY DEF RoomsInv, Shown, Loose, R!BannerWhileRecording, R!At
    <2>4. QED
      BY <2>1, <2>2, <2>3 DEF RecordingsAreInHand
  <1>4. QED
    BY <1>1, <1>2, <1>3, PTL DEF MeetingsSpec

-----------------------------------------------------------------------------
(* Followups.                                                              *)

Start == {"create"} \cup Mover

WorkPlace == {"idle", "validated", "remind", "issue", "load", "rotate", "announce", "mail",
              "replace", "done"}

WorkRow == [pc: WorkPlace, start: Start \cup {F!None}, link: Start \cup {F!None}]

FollowupsType ==
    /\ booked \in [status: {"confirmed", "cancelled"}, start: Start]
    /\ effects \in [F!Op -> WorkRow]
    /\ links \subseteq Start /\ letters \subseteq Start
    /\ reminder \in [state: {F!None, "pending", "running", "done", "failed"},
                     start: Start \cup {F!None}]
    /\ sending \in BOOLEAN /\ flagged \in BOOLEAN
    /\ sending => reminder.state = "running"

\* Where the goroutine of each change is, and that of the last one has begun.
Begun ==
    /\ effects["create"].pc \in {"remind", "issue", "announce", "mail", "done"}
    /\ effects["create"].start = "create" /\ "create" \notin spent
    /\ effects["cancel"].pc \in {"idle", "validated", "load", "mail", "announce", "done"}
    /\ effects["cancel"].link = F!None
    /\ \A m \in Mover :
          /\ effects[m].pc \in
                {"idle", "validated", "load", "rotate", "mail", "announce", "replace", "done"}
          /\ effects[m].pc \in {"load", "rotate", "mail", "announce", "replace"} =>
                effects[m].start = m /\ booked.start # "create"
    /\ effects[booked.start].pc \notin {"idle", "validated"}
    /\ booked.status = "cancelled" => effects["cancel"].pc \notin {"idle", "validated"}

\* The reminder is for the present time once the goroutine of the last change has come to it.
Reminded ==
    F!Spared({"crash", "load", "write", "busy", "overtaken"}) /\ F!InTime(booked.start) =>
        /\ booked.start = "create" =>
              IF effects["create"].pc = "remind" THEN reminder.state = F!None
              ELSE reminder.start = "create"
        /\ booked.start # "create" /\ effects[booked.start].pc = "done" =>
              reminder.start = booked.start /\ reminder.state # F!None

\* A link that works was mailed, or is about to be.
Linked ==
    {"confirmation", "reschedule"} \subseteq notify /\ spent \cap Mover = {}
        /\ F!Spared({"crash", "load", "mail", "token"}) =>
        /\ links # {} \/ effects["create"].pc \in {"remind", "issue"}
        /\ \A l \in links :
              \/ l \in letters
              \/ effects[l].link = l /\ effects[l].pc = "mail"
              \/ l = "create" /\ effects[l].link = l /\ effects[l].pc = "announce"

\* The link of the confirmation outlives a reschedule only until it rotates the links.
Rotated ==
    F!Spared({"crash", "load", "token", "crossed"}) /\ F!InTime(booked.start)
        /\ booked.start # "create" /\ "create" \in links =>
            effects[booked.start].pc \in {"load", "rotate"}

\* A goroutine that is past its announcement has made it, or has run out of time, and the
\* confirmation was mailed or flagged.
Announced ==
    F!Spared({"crash", "load", "write"}) =>
        /\ effects["create"].pc \in {"mail", "done"} => "create" \in announced
        /\ effects[booked.start].pc \in {"replace", "done"} =>
              booked.start \in announced \cup spent
        /\ booked.status = "cancelled" /\ effects["cancel"].pc = "done" =>
              "cancel" \in announced \cup spent
        /\ "token" \notin mishaps /\ effects["create"].pc \in {"announce", "mail"} =>
              effects["create"].link = "create"
        /\ "token" \notin mishaps /\ effects["create"].pc = "done"
              /\ "confirmation" \in notify => "create" \in letters \/ flagged

FollowupsInv == FollowupsType /\ Begun /\ Reminded /\ Linked /\ Rotated /\ Announced

USE MoverAssumption

\* The changes, and the starts that they name.
LEMMA Changes ==
    /\ "create" \in F!Op /\ "cancel" \in F!Op /\ Mover \subseteq F!Op /\ Start \subseteq F!Op
    /\ "create" \in Start /\ "cancel" \notin Start /\ F!None \notin Start
    /\ "create" \notin Mover /\ "cancel" \notin Mover
    /\ \A s \in Start : s # "create" => s \in Mover
    /\ \A o \in F!Op : o \in Mover \/ o = "create" \/ o = "cancel"
  BY DEF F!Op, Start, F!None

\* What a step does to the goroutine of a change.
LEMMA WorkGoes ==
    ASSUME effects \in [F!Op -> WorkRow], NEW o \in F!Op, NEW x \in WorkPlace,
           effects' = [effects EXCEPT ![o].pc = x]
    PROVE  /\ effects' \in [F!Op -> WorkRow] /\ effects'[o].pc = x
           /\ effects'[o].start = effects[o].start /\ effects'[o].link = effects[o].link
           /\ \A p \in F!Op \ {o} : effects'[p] = effects[p]
  <1>1. ASSUME NEW r \in WorkRow
        PROVE  LET s == [r EXCEPT !.pc = x]
               IN  s \in WorkRow /\ s.pc = x /\ s.start = r.start /\ s.link = r.link
    BY DEF WorkRow
  <1>2. effects' = [effects EXCEPT ![o] = [effects[o] EXCEPT !.pc = x]]
    OBVIOUS
  <1>3. PICK r \in WorkRow :
           /\ r = [effects[o] EXCEPT !.pc = x]
           /\ r.pc = x /\ r.start = effects[o].start /\ r.link = effects[o].link
    BY <1>1
  <1>4. QED
    BY <1>2, <1>3

\* What it does when it has issued a link.
LEMMA WorkIssues ==
    ASSUME effects \in [F!Op -> WorkRow], NEW o \in Start, NEW x \in WorkPlace,
           effects' = [effects EXCEPT ![o].pc = x, ![o].link = o]
    PROVE  /\ effects' \in [F!Op -> WorkRow] /\ effects'[o].pc = x
           /\ effects'[o].start = effects[o].start /\ effects'[o].link = o
           /\ \A p \in F!Op \ {o} : effects'[p] = effects[p]
  <1>1. ASSUME NEW r \in WorkRow
        PROVE  LET s == [[r EXCEPT !.pc = x] EXCEPT !.link = o]
               IN  s \in WorkRow /\ s.pc = x /\ s.start = r.start /\ s.link = o
    BY DEF WorkRow
  <1>2. effects' = [effects EXCEPT ![o] = [[effects[o] EXCEPT !.pc = x] EXCEPT !.link = o]]
    BY Changes
  <1>3. PICK r \in WorkRow :
           /\ r = [[effects[o] EXCEPT !.pc = x] EXCEPT !.link = o]
           /\ r.pc = x /\ r.start = effects[o].start /\ r.link = o
    BY <1>1, Changes
  <1>4. QED
    BY <1>2, <1>3, Changes

\* A reschedule is committed.
LEMMA MoveStep ==
    ASSUME FollowupsInv, NEW o \in Mover, effects[o].pc \in {"idle", "validated"}, F!Commit(o)
    PROVE  FollowupsInv'
  <1>1. o \in F!Op /\ o \in Start /\ o # "create" /\ o # "cancel"
    BY Changes DEF Start
  <1>2. /\ booked' = [booked EXCEPT !.start = o] /\ booked.status = "confirmed"
        /\ UNCHANGED <<links, letters, notify, reminder, sending, announced, flagged, spent,
                       mishaps>>
    BY <1>1 DEF F!Commit
  <1>3. /\ booked' \in [status: {"confirmed", "cancelled"}, start: Start]
        /\ booked'.start = o /\ booked'.status = booked.status
    BY <1>1, <1>2 DEF FollowupsInv, FollowupsType
  <1>4. PICK r \in WorkRow : r = [pc |-> "load", start |-> o, link |-> F!None]
    BY <1>1 DEF WorkRow, WorkPlace
  <1>5. r.pc = "load" /\ r.start = o /\ effects' = [effects EXCEPT ![o] = r]
    BY <1>1, <1>3, <1>4 DEF F!Commit, F!Work
  <1>6. /\ effects' \in [F!Op -> WorkRow] /\ effects'[o].pc = "load" /\ effects'[o].start = o
        /\ \A p \in F!Op \ {o} : effects'[p] = effects[p]
    BY <1>1, <1>5 DEF FollowupsInv, FollowupsType
  <1>7. effects'["create"] = effects["create"] /\ effects'["cancel"] = effects["cancel"]
    BY <1>1, <1>6, Changes
  <1>8. FollowupsType'
    BY <1>2, <1>3, <1>6 DEF FollowupsInv, FollowupsType
  <1>9. Begun'
    BY <1>1, <1>2, <1>3, <1>6, <1>7, Changes DEF FollowupsInv, Begun
  <1>10. Reminded' /\ Rotated'
    BY <1>1, <1>2, <1>3, <1>6 DEF Reminded, Rotated, F!InTime
  <1>11. Linked'
    <2>1. \A l \in links : l \in F!Op
      BY Changes DEF FollowupsInv, FollowupsType
    <2>2. QED
      BY <1>1, <1>2, <1>6, <1>7, <2>1 DEF FollowupsInv, Linked, F!Spared, F!InTime
  <1>12. Announced'
    BY <1>2, <1>3, <1>6, <1>7 DEF FollowupsInv, Announced, F!Spared, F!InTime
  <1>13. QED
    BY <1>8, <1>9, <1>10, <1>11, <1>12 DEF FollowupsInv

\* A cancellation is committed.
LEMMA CancelStep ==
    ASSUME FollowupsInv, effects["cancel"].pc \in {"idle", "validated"}, F!Commit("cancel")
    PROVE  FollowupsInv'
  <1>1. /\ booked' = [booked EXCEPT !.status = "cancelled"]
        /\ UNCHANGED <<links, letters, notify, reminder, sending, announced, flagged, spent,
                       mishaps>>
    BY DEF F!Commit
  <1>2. /\ booked' \in [status: {"confirmed", "cancelled"}, start: Start]
        /\ booked'.start = booked.start /\ booked.start \in Start
    BY <1>1 DEF FollowupsInv, FollowupsType
  <1>3. PICK r \in WorkRow : r = [pc |-> "load", start |-> booked.start, link |-> F!None]
    BY <1>2 DEF WorkRow, WorkPlace
  <1>4. r.pc = "load" /\ r.link = F!None /\ effects' = [effects EXCEPT !["cancel"] = r]
    BY <1>2, <1>3 DEF F!Commit, F!Work
  <1>5. /\ effects' \in [F!Op -> WorkRow] /\ effects'["cancel"].pc = "load"
        /\ effects'["cancel"].link = F!None
        /\ \A p \in F!Op \ {"cancel"} : effects'[p] = effects[p]
    BY <1>4, Changes DEF FollowupsInv, FollowupsType
  <1>6. \A p \in Start : p \in F!Op /\ effects'[p] = effects[p]
    BY <1>5, Changes
  <1>7. FollowupsType'
    BY <1>1, <1>2, <1>5 DEF FollowupsInv, FollowupsType
  <1>8. Begun'
    BY <1>1, <1>2, <1>5, <1>6, Changes DEF FollowupsInv, Begun, Start
  <1>9. Reminded' /\ Rotated'
    BY <1>1, <1>2, <1>6, Changes DEF FollowupsInv, Reminded, Rotated, F!Spared, F!InTime
  <1>10. Linked'
    <2>1. links \subseteq Start
      BY DEF FollowupsInv, FollowupsType
    <2>2. QED
      BY <1>1, <1>6, <2>1, Changes DEF FollowupsInv, Linked, F!Spared, F!InTime
  <1>11. Announced'
    BY <1>1, <1>2, <1>5, <1>6, Changes DEF FollowupsInv, Announced, F!Spared, F!InTime
  <1>12. QED
    BY <1>7, <1>8, <1>9, <1>10, <1>11 DEF FollowupsInv

\* The link of a change is checked, or a change that waited is refused.
LEMMA WaitStep ==
    ASSUME FollowupsInv, NEW o \in ByLink \cup {"cancel"},
           F!ValidateManageToken(o) \/ F!Refused(o)
    PROVE  FollowupsInv'
  <1>1. o \in F!Op /\ o # "create" /\ (o \in Mover \/ o = "cancel")
    BY Changes
  <1>2. PICK x \in {"validated", "done"} :
           /\ effects' = [effects EXCEPT ![o].pc = x]
           /\ effects[o].pc \in {"idle", "validated"}
           /\ x = "done" => effects[o].pc = "validated" /\ booked.status = "cancelled"
           /\ UNCHANGED <<booked, links, letters, notify, reminder, sending, announced, flagged,
                          spent, mishaps>>
    BY DEF F!ValidateManageToken, F!Refused, F!At, F!Then
  <1>3. /\ effects' \in [F!Op -> WorkRow] /\ effects'[o].pc = x
        /\ effects'[o].start = effects[o].start /\ effects'[o].link = effects[o].link
        /\ \A p \in F!Op \ {o} : effects'[p] = effects[p]
    BY <1>1, <1>2, WorkGoes DEF FollowupsInv, FollowupsType, WorkPlace
  <1>4. /\ booked.start # o /\ booked.start \in Start
        /\ o = "cancel" => booked.status # "cancelled" /\ x = "validated"
    BY <1>2 DEF FollowupsInv, FollowupsType, Begun
  <1>5. effects'["create"] = effects["create"] /\ effects'[booked.start] = effects[booked.start]
    BY <1>1, <1>3, <1>4, Changes
  <1>6. FollowupsType'
    BY <1>2, <1>3 DEF FollowupsInv, FollowupsType
  <1>7. Begun'
    BY <1>1, <1>2, <1>3, <1>4, <1>5, Changes DEF FollowupsInv, Begun
  <1>8. Reminded' /\ Rotated'
    BY <1>2, <1>5 DEF FollowupsInv, Reminded, Rotated, F!Spared, F!InTime
  <1>9. Linked'
    <2>1. links \subseteq Start
      BY DEF FollowupsInv, FollowupsType
    <2>2. QED
      BY <1>1, <1>2, <1>3, <1>5, <2>1, Changes DEF FollowupsInv, Linked, F!Spared, F!InTime
  <1>10. Announced'
    BY <1>1, <1>2, <1>3, <1>4, <1>5, Changes DEF FollowupsInv, Announced, F!Spared, F!InTime
  <1>11. QED
    BY <1>6, <1>7, <1>8, <1>9, <1>10 DEF FollowupsInv

\* The confirmation: the reminder, then the link.
LEMMA EnqueueStep ==
    ASSUME FollowupsInv, F!enqueueBookingReminders("create")
    PROVE  FollowupsInv'
  <1>1. /\ effects["create"].pc = "remind" /\ effects' = [effects EXCEPT !["create"].pc = "issue"]
        /\ UNCHANGED <<booked, links, letters, notify, sending, announced, flagged, spent>>
    BY DEF F!enqueueBookingReminders, F!At, F!Then
  <1>2. /\ effects' \in [F!Op -> WorkRow] /\ effects'["create"].pc = "issue"
        /\ effects'["create"].start = effects["create"].start
        /\ effects'["create"].link = effects["create"].link
        /\ \A p \in F!Op \ {"create"} : effects'[p] = effects[p]
    BY <1>1, Changes, WorkGoes DEF FollowupsInv, FollowupsType, WorkPlace
  <1>3. effects["create"].start = "create"
    BY DEF FollowupsInv, Begun
  <1>4. /\ mishaps \subseteq mishaps'
        /\ F!Live => reminder' = reminder
        /\ \/ ~F!Live => /\ reminder' = [state |-> "pending", start |-> "create"]
                         /\ reminder.state # F!None => "overtaken" \in mishaps'
           \/ reminder' = reminder /\ "write" \in mishaps'
    BY <1>3 DEF F!enqueueBookingReminders, F!Fails, F!InTime, F!Mishap, FollowupsInv, Begun
  <1>5. FollowupsType'
    BY <1>1, <1>2, <1>4, Changes DEF FollowupsInv, FollowupsType, F!Live
  <1>6. Begun'
    BY <1>1, <1>2, Changes DEF FollowupsInv, FollowupsType, Begun
  <1>7. Reminded'
    <2>1. SUFFICES ASSUME F!Spared({"crash", "load", "write", "busy", "overtaken"})',
                          F!InTime(booked.start)
                   PROVE  /\ booked.start = "create" => reminder'.start = "create"
                          /\ booked.start # "create" /\ effects'[booked.start].pc = "done" =>
                                reminder'.start = booked.start /\ reminder'.state # F!None
      BY <1>1, <1>2 DEF Reminded, F!InTime
    <2>2. /\ F!Spared({"crash", "load", "write", "busy", "overtaken"})
          /\ ~F!Live => /\ reminder.state = F!None
                        /\ reminder' = [state |-> "pending", start |-> "create"]
      BY <1>4, <2>1 DEF F!Spared, F!InTime
    <2>3. ASSUME booked.start = "create"
          PROVE  reminder'.start = "create"
      <3>1. reminder.state = F!None
        BY <1>1, <2>1, <2>2, <2>3 DEF FollowupsInv, Reminded
      <3>2. QED
        BY <2>2, <3>1 DEF F!Live, F!None
    <2>4. ASSUME booked.start # "create", effects'[booked.start].pc = "done"
          PROVE  reminder'.start = booked.start /\ reminder'.state # F!None
      <3>1. booked.start \in F!Op /\ effects[booked.start].pc = "done"
        BY <1>2, <2>4, Changes DEF FollowupsInv, FollowupsType
      <3>2. reminder.start = booked.start /\ reminder.state # F!None
        BY <2>1, <2>2, <2>4, <3>1 DEF FollowupsInv, Reminded
      <3>3. QED
        BY <1>4, <2>2, <3>2
    <2>5. QED
      BY <2>3, <2>4
  <1>8. Linked'
    <2>1. links \subseteq Start
      BY DEF FollowupsInv, FollowupsType
    <2>2. QED
      BY <1>1, <1>2, <1>4, <2>1, Changes DEF FollowupsInv, Linked, F!Spared, F!InTime
  <1>9. Rotated'
    BY <1>1, <1>2, <1>4, Changes DEF FollowupsInv, FollowupsType, Rotated, F!Spared, F!InTime
  <1>10. Announced'
    BY <1>1, <1>2, <1>4, Changes DEF FollowupsInv, FollowupsType, Announced, F!Spared, F!InTime
  <1>11. QED
    BY <1>5, <1>6, <1>7, <1>8, <1>9, <1>10 DEF FollowupsInv

\* The link of the confirmation is issued, or the mail goes out without (IssueManageToken).
LEMMA IssueStep ==
    ASSUME FollowupsInv, F!IssueManageToken("create")
    PROVE  FollowupsInv'
  <1>1. /\ effects["create"].pc = "issue"
        /\ UNCHANGED <<booked, letters, notify, reminder, sending, announced, flagged, spent>>
        /\ mishaps \subseteq mishaps'
    BY DEF F!IssueManageToken, F!At, F!Mishap
  <1>2. \/ /\ links' = links \cup {"create"}
           /\ effects' = [effects EXCEPT !["create"].pc = "announce", !["create"].link = "create"]
           /\ booked.start # "create" => "crossed" \in mishaps'
        \/ /\ links' = links /\ "token" \in mishaps'
           /\ effects' = [effects EXCEPT !["create"].pc = "announce"]
    BY DEF F!IssueManageToken, F!Then, F!Mishap, FollowupsInv, Begun
  <1>3. /\ effects' \in [F!Op -> WorkRow] /\ effects'["create"].pc = "announce"
        /\ effects'["create"].start = effects["create"].start
        /\ \A p \in F!Op \ {"create"} : effects'[p] = effects[p]
        /\ "token" \notin mishaps' => effects'["create"].link = "create"
    BY <1>2, Changes, WorkGoes, WorkIssues DEF FollowupsInv, FollowupsType, WorkPlace
  <1>4. links \subseteq Start /\ links' \subseteq links \cup {"create"}
    BY <1>2 DEF FollowupsInv, FollowupsType
  <1>5. FollowupsType'
    BY <1>1, <1>3, <1>4, Changes DEF FollowupsInv, FollowupsType
  <1>6. Begun'
    BY <1>1, <1>3, Changes DEF FollowupsInv, FollowupsType, Begun
  <1>7. Reminded'
    BY <1>1, <1>3, Changes DEF FollowupsInv, FollowupsType, Reminded, F!Spared, F!InTime
  <1>8. Linked'
    <2>1. "token" \notin mishaps' => links' = links \cup {"create"}
      BY <1>2
    <2>2. QED
      BY <1>1, <1>3, <1>4, <2>1, Changes DEF FollowupsInv, Linked, F!Spared, F!InTime
  <1>9. Rotated'
    <2>1. "token" \notin mishaps' /\ "crossed" \notin mishaps' => booked.start = "create"
      BY <1>2
    <2>2. QED
      BY <1>1, <2>1 DEF Rotated, F!Spared, F!InTime
  <1>10. Announced'
    BY <1>1, <1>3, Changes DEF FollowupsInv, FollowupsType, Announced, F!Spared, F!InTime
  <1>11. QED
    BY <1>5, <1>6, <1>7, <1>8, <1>9, <1>10 DEF FollowupsInv

\* A reschedule or a cancellation: what it is about is loaded, or it gives up.
LEMMA LoadDataStep ==
    ASSUME FollowupsInv, NEW o \in F!Op, F!loadCancellationData(o)
    PROVE  FollowupsInv'
  <1>1. /\ effects[o].pc = "load"
        /\ UNCHANGED <<booked, links, letters, notify, reminder, sending, announced, flagged,
                       spent>>
    BY DEF F!loadCancellationData, F!At
  <1>2. o # "create" /\ (o \in Mover \/ o = "cancel")
    BY <1>1, Changes DEF FollowupsInv, Begun
  <1>3. PICK x \in {"mail", "rotate", "done"} :
           /\ effects' = [effects EXCEPT ![o].pc = x] /\ mishaps \subseteq mishaps'
           /\ x = "done" => "load" \in mishaps' \/ o \in spent
           /\ x = "mail" => o = "cancel"
           /\ x = "rotate" => o \in Mover
    BY <1>2 DEF F!loadCancellationData, F!Then, F!Mishap, F!Fails, F!InTime
  <1>4. /\ effects' \in [F!Op -> WorkRow] /\ effects'[o].pc = x
        /\ effects'[o].start = effects[o].start /\ effects'[o].link = effects[o].link
        /\ \A p \in F!Op \ {o} : effects'[p] = effects[p]
    BY <1>3, WorkGoes DEF FollowupsInv, FollowupsType, WorkPlace
  <1>5. effects'["create"] = effects["create"] /\ booked.start \in Start
    BY <1>2, <1>4, Changes DEF FollowupsInv, FollowupsType
  <1>6. FollowupsType'
    BY <1>1, <1>4 DEF FollowupsInv, FollowupsType
  <1>7. Begun'
    BY <1>1, <1>2, <1>3, <1>4, <1>5, Changes DEF FollowupsInv, Begun
  <1>8. Reminded'
    BY <1>1, <1>3, <1>4, <1>5, Changes DEF FollowupsInv, Reminded, F!Spared, F!InTime
  <1>9. Rotated'
    BY <1>1, <1>2, <1>3, <1>4, <1>5, Changes DEF FollowupsInv, Rotated, F!Spared, F!InTime
  <1>10. Linked'
    <2>1. links \subseteq Start
      BY DEF FollowupsInv, FollowupsType
    <2>2. QED
      BY <1>1, <1>2, <1>3, <1>4, <1>5, <2>1, Changes DEF FollowupsInv, Linked, F!Spared, F!InTime
  <1>11. Announced'
    BY <1>1, <1>2, <1>3, <1>4, <1>5, Changes DEF FollowupsInv, Announced, F!Spared, F!InTime
  <1>12. QED
    BY <1>6, <1>7, <1>8, <1>9, <1>10, <1>11 DEF FollowupsInv

\* A reschedule or a cancellation runs out of time, which excuses it from now on (Expire).
LEMMA ExpireStep ==
    ASSUME FollowupsInv, NEW o \in F!Op, F!Expire(o)
    PROVE  FollowupsInv'
  <1>1. /\ spent' = spent \cup {o} /\ o # "create"
        /\ UNCHANGED <<booked, effects, links, letters, notify, reminder, sending, announced,
                       flagged, mishaps>>
    BY DEF F!Expire
  <1>2. FollowupsType' /\ Begun'
    BY <1>1 DEF FollowupsInv, FollowupsType, Begun
  <1>3. Reminded' /\ Rotated'
    BY <1>1 DEF FollowupsInv, Reminded, Rotated, F!Spared, F!InTime
  <1>4. Linked' /\ Announced'
    BY <1>1 DEF FollowupsInv, Linked, Announced, F!Spared, F!InTime
  <1>5. QED
    BY <1>2, <1>3, <1>4 DEF FollowupsInv

\* The links of the booking are replaced by one.
LEMMA RotateStep ==
    ASSUME FollowupsInv, NEW o \in Mover, F!RotateManageToken(o)
    PROVE  FollowupsInv'
  <1>1. /\ effects[o].pc = "rotate"
        /\ UNCHANGED <<booked, letters, notify, reminder, sending, announced, flagged, spent>>
        /\ mishaps \subseteq mishaps'
    BY DEF F!RotateManageToken, F!At, F!Mishap, F!Fails
  <1>2. \/ links' = {o} /\ effects' = [effects EXCEPT ![o].pc = "mail", ![o].link = o]
        \/ /\ links' = links /\ ("token" \in mishaps' \/ o \in spent)
           /\ effects' = [effects EXCEPT ![o].pc = "mail"]
    BY DEF F!RotateManageToken, F!Then, F!Mishap, F!Fails, F!InTime
  <1>3. o \in F!Op /\ o \in Start /\ o # "create" /\ o # "cancel"
    BY Changes DEF Start
  <1>4. /\ effects' \in [F!Op -> WorkRow] /\ effects'[o].pc = "mail"
        /\ effects'[o].start = effects[o].start
        /\ \A p \in F!Op \ {o} : effects'[p] = effects[p]
        /\ "token" \notin mishaps' /\ o \notin spent => effects'[o].link = o /\ links' = {o}
        /\ "create" \in links' => "create" \in links
    BY <1>2, <1>3, WorkGoes, WorkIssues DEF FollowupsInv, FollowupsType, WorkPlace
  <1>5. /\ effects'["create"] = effects["create"] /\ effects'["cancel"] = effects["cancel"]
        /\ booked.start \in Start
    BY <1>3, <1>4, Changes DEF FollowupsInv, FollowupsType
  <1>6. FollowupsType'
    BY <1>1, <1>2, <1>3, <1>4 DEF FollowupsInv, FollowupsType
  <1>7. Begun'
    BY <1>1, <1>3, <1>4, <1>5, Changes DEF FollowupsInv, Begun
  <1>8. Reminded'
    BY <1>1, <1>4, <1>5, Changes DEF FollowupsInv, Reminded, F!Spared, F!InTime
  <1>9. Rotated' /\ Linked'
    <2>1. Rotated'
      BY <1>1, <1>3, <1>4, <1>5, Changes DEF FollowupsInv, Rotated, F!Spared, F!InTime
    <2>2. Linked'
      BY <1>1, <1>3, <1>4 DEF Linked, F!Spared, F!InTime
    <2>3. QED
      BY <2>1, <2>2
  <1>10. Announced'
    BY <1>1, <1>4, <1>5, Changes DEF FollowupsInv, Announced, F!Spared, F!InTime
  <1>11. QED
    BY <1>6, <1>7, <1>8, <1>9, <1>10 DEF FollowupsInv

\* The mail to the booker.
LEMMA AttendeeStep ==
    ASSUME FollowupsInv, NEW o \in F!Op, F!SendToAttendee(o)
    PROVE  FollowupsInv'
  <1>1. /\ effects[o].pc = "mail" /\ mishaps \subseteq mishaps'
        /\ UNCHANGED <<booked, links, notify, reminder, sending, announced, spent>>
    BY DEF F!SendToAttendee, F!At, F!Mishap, F!Fails
  <1>2. PICK x \in {"done", "announce"} :
           effects' = [effects EXCEPT ![o].pc = x] /\ (x = "done" <=> o = "create")
    BY DEF F!SendToAttendee, F!Then
  <1>3. /\ effects' \in [F!Op -> WorkRow] /\ effects'[o].pc = x
        /\ effects'[o].start = effects[o].start /\ effects'[o].link = effects[o].link
        /\ \A p \in F!Op \ {o} : effects'[p] = effects[p]
    BY <1>2, WorkGoes DEF FollowupsInv, FollowupsType, WorkPlace
  <1>4. /\ effects[o].link \in Start \cup {F!None} /\ booked.start \in Start
        /\ links \subseteq Start /\ letters \subseteq Start /\ flagged \in BOOLEAN
    BY DEF FollowupsInv, FollowupsType, WorkRow
  <1>5. \/ letters' = letters \cup F!Enclosed(o) /\ UNCHANGED <<flagged, mishaps>>
        \/ /\ letters' = letters /\ flagged' = (flagged \/ o = "create")
           /\ "mail" \in mishaps' \/ o \in spent
        \/ letters' = letters /\ flagged' = flagged /\ {"mail", "write"} \subseteq mishaps'
    <2>1. CASE letters' = letters \cup F!Enclosed(o) /\ UNCHANGED <<flagged, mishaps>>
      BY <2>1
    <2>2. CASE /\ F!Fails(o, "mailFails", "mail")
               /\ flagged' = (flagged \/ o = "create") /\ UNCHANGED letters
      <3>1. "mail" \in mishaps' \/ o \in spent
        BY <2>2 DEF F!Fails, F!Mishap, F!InTime
      <3>2. QED
        BY <2>2, <3>1
    <2>3. CASE mishaps' = mishaps \cup {"mail", "write"} /\ UNCHANGED <<letters, flagged>>
      BY <2>3
    <2>4. QED
      BY <2>1, <2>2, <2>3 DEF F!SendToAttendee
  <1>6. /\ letters \subseteq letters' /\ letters' \subseteq Start /\ flagged' \in BOOLEAN
        /\ flagged => flagged'
        /\ effects[o].link # F!None /\ F!Notice(o) \in notify =>
              \/ effects[o].link \in letters'
              \/ /\ "mail" \in mishaps' \/ o \in spent
                 /\ o = "create" => flagged' \/ "write" \in mishaps'
    <2>1. CASE letters' = letters \cup F!Enclosed(o) /\ UNCHANGED <<flagged, mishaps>>
      BY <1>4, <2>1 DEF F!Enclosed
    <2>2. CASE /\ letters' = letters /\ flagged' = (flagged \/ o = "create")
               /\ "mail" \in mishaps' \/ o \in spent
      BY <1>4, <2>2
    <2>3. CASE letters' = letters /\ flagged' = flagged /\ {"mail", "write"} \subseteq mishaps'
      BY <1>4, <2>3
    <2>4. QED
      BY <1>5, <2>1, <2>2, <2>3
  <1>7. FollowupsType'
    BY <1>1, <1>3, <1>6 DEF FollowupsInv, FollowupsType
  <1>8. Begun'
    BY <1>1, <1>2, <1>3, <1>4, Changes DEF FollowupsInv, Begun
  <1>9. Reminded'
    BY <1>1, <1>2, <1>3, <1>4, Changes DEF FollowupsInv, Reminded, F!Spared, F!InTime
  <1>10. Rotated'
    BY <1>1, <1>2, <1>3, <1>4, Changes DEF FollowupsInv, Rotated, F!Spared, F!InTime
  <1>11. Linked'
    <2>1. SUFFICES ASSUME {"confirmation", "reschedule"} \subseteq notify, spent \cap Mover = {},
                          mishaps' \cap {"crash", "load", "mail", "token"} = {}
                   PROVE  /\ links # {} \/ effects'["create"].pc \in {"remind", "issue"}
                          /\ \A l \in links :
                                \/ l \in letters'
                                \/ effects'[l].link = l /\ effects'[l].pc = "mail"
                                \/ /\ l = "create" /\ effects'[l].link = l
                                   /\ effects'[l].pc = "announce"
      BY <1>1 DEF Linked, F!Spared, F!InTime
    <2>2. /\ links # {} \/ effects["create"].pc \in {"remind", "issue"}
          /\ \A l \in links :
                \/ l \in letters
                \/ effects[l].link = l /\ effects[l].pc = "mail"
                \/ l = "create" /\ effects[l].link = l /\ effects[l].pc = "announce"
      BY <1>1, <2>1 DEF FollowupsInv, Linked, F!Spared, F!InTime
    <2>3. links # {} \/ effects'["create"].pc \in {"remind", "issue"}
      BY <1>1, <1>3, <2>2, Changes
    <2>4. ASSUME NEW l \in links, l = o
          PROVE  l \in letters'
      <3>1. F!Notice(o) \in notify /\ l # F!None
        BY <1>4, <2>1, <2>4, Changes DEF F!Notice
      <3>2. o \notin spent
        BY <1>4, <2>1, <2>4, Changes DEF FollowupsInv, Begun
      <3>3. QED
        BY <1>1, <1>6, <2>1, <2>2, <2>4, <3>1, <3>2
    <2>5. \A l \in links : l # o => effects'[l] = effects[l]
      BY <1>3, <1>4, Changes
    <2>6. QED
      BY <1>6, <2>2, <2>3, <2>4, <2>5
  <1>12. Announced'
    <2>1. SUFFICES ASSUME mishaps' \cap {"crash", "load", "write"} = {}
                   PROVE  Announced'
      BY DEF Announced, F!Spared, F!InTime
    <2>2. /\ F!Spared({"crash", "load", "write"}) /\ F!Spared({"crash", "load", "write"})'
          /\ "write" \notin mishaps'
      BY <1>1, <2>1 DEF F!Spared, F!InTime
    <2>3. CASE o = "create"
      <3>1. /\ "create" \in announced
            /\ "token" \notin mishaps => effects["create"].link = "create"
        BY <1>1, <2>2, <2>3 DEF FollowupsInv, Announced
      <3>2. "token" \notin mishaps' /\ "confirmation" \in notify =>
               "create" \in letters' \/ flagged'
        BY <1>1, <1>6, <2>2, <2>3, <3>1, Changes DEF F!Notice
      <3>3. QED
        BY <1>1, <1>2, <1>3, <1>4, <2>2, <2>3, <3>1, <3>2, Changes DEF FollowupsInv, Announced
    <2>4. CASE o # "create"
      <3>1. effects'["create"] = effects["create"]
        BY <1>3, <2>4, Changes
      <3>2. x = "announce"
        BY <1>2, <2>4
      <3>3. QED
        BY <1>1, <1>3, <1>4, <1>6, <2>2, <3>1, <3>2, Changes DEF FollowupsInv, Announced
    <2>5. QED
      BY <2>3, <2>4
  <1>13. QED
    BY <1>7, <1>8, <1>9, <1>10, <1>11, <1>12 DEF FollowupsInv

\* The webhook of the change.
LEMMA AnnounceStep ==
    ASSUME FollowupsInv, NEW o \in F!Op, F!Announce(o)
    PROVE  FollowupsInv'
  <1>1. /\ effects[o].pc = "announce" /\ mishaps \subseteq mishaps'
        /\ announced \subseteq announced'
        /\ o \in announced' \cup spent \/ "write" \in mishaps'
        /\ UNCHANGED <<booked, links, letters, notify, reminder, sending, flagged, spent>>
    BY DEF F!Announce, F!At, F!Fails, F!Mishap, F!InTime
  <1>2. PICK x \in {"mail", "replace", "done"} :
           /\ effects' = [effects EXCEPT ![o].pc = x]
           /\ x = "mail" <=> o = "create"
           /\ x = "replace" <=> o \in Mover
           /\ x = "done" <=> o = "cancel"
    BY Changes DEF F!Announce, F!Then
  <1>3. /\ effects' \in [F!Op -> WorkRow] /\ effects'[o].pc = x
        /\ effects'[o].start = effects[o].start /\ effects'[o].link = effects[o].link
        /\ \A p \in F!Op \ {o} : effects'[p] = effects[p]
    BY <1>2, WorkGoes DEF FollowupsInv, FollowupsType, WorkPlace
  <1>4. booked.start \in Start /\ links \subseteq Start
    BY DEF FollowupsInv, FollowupsType
  <1>5. FollowupsType'
    BY <1>1, <1>3 DEF FollowupsInv, FollowupsType
  <1>6. Begun'
    BY <1>1, <1>2, <1>3, <1>4, Changes DEF FollowupsInv, Begun
  <1>7. Reminded'
    BY <1>1, <1>2, <1>3, <1>4, Changes DEF FollowupsInv, Reminded, F!Spared, F!InTime
  <1>8. Rotated'
    BY <1>1, <1>2, <1>3, <1>4, Changes DEF FollowupsInv, Rotated, F!Spared, F!InTime
  <1>9. Linked'
    BY <1>1, <1>2, <1>3, <1>4, Changes DEF FollowupsInv, Linked, F!Spared, F!InTime
  <1>10. Announced'
    <2>1. SUFFICES ASSUME F!Spared({"crash", "load", "write"}), "write" \notin mishaps',
                          "token" \notin mishaps' => "token" \notin mishaps
                   PROVE  Announced'
      BY <1>1 DEF Announced, F!Spared, F!InTime
    <2>2. CASE o = "create"
      BY <1>1, <1>2, <1>3, <1>4, <2>1, <2>2, Changes DEF FollowupsInv, Begun, Announced
    <2>3. CASE o # "create"
      <3>1. effects'["create"] = effects["create"]
        BY <1>3, <2>3, Changes
      <3>2. QED
        BY <1>1, <1>2, <1>3, <1>4, <2>1, <2>3, <3>1, Changes DEF FollowupsInv, Announced
    <2>4. QED
      BY <2>2, <2>3
  <1>11. QED
    BY <1>5, <1>6, <1>7, <1>8, <1>9, <1>10 DEF FollowupsInv

\* The reminder of a reschedule: the last to come is the last to have been made.
LEMMA ReplaceStep ==
    ASSUME FollowupsInv, NEW o \in Mover, F!replaceReminderJobs(o)
    PROVE  FollowupsInv'
  <1>1. /\ effects[o].pc = "replace" /\ effects' = [effects EXCEPT ![o].pc = "done"]
        /\ UNCHANGED <<booked, links, letters, notify, sending, announced, flagged, spent>>
        /\ mishaps \subseteq mishaps'
        /\ \/ /\ reminder.state = "running" => reminder' = reminder /\ "busy" \in mishaps'
              /\ booked.start # o /\ effects[booked.start].pc = "done" =>
                    "overtaken" \in mishaps'
              /\ reminder.state # "running" =>
                    reminder' = [state |-> "pending", start |-> effects[o].start]
           \/ reminder' = reminder /\ ("write" \in mishaps' \/ o \in spent)
    BY DEF F!replaceReminderJobs, F!At, F!Then, F!Fails, F!Mishap, F!InTime
  <1>2. o \in F!Op /\ o \in Start /\ o # "create" /\ o # "cancel"
    BY Changes DEF Start
  <1>3. effects[o].start = o /\ booked.start # "create" /\ booked.start \in Start
    BY <1>1 DEF FollowupsInv, FollowupsType, Begun
  <1>4. reminder' = reminder \/ reminder' = [state |-> "pending", start |-> o]
    BY <1>1, <1>3
  <1>5. /\ effects' \in [F!Op -> WorkRow] /\ effects'[o].pc = "done"
        /\ effects'[o].start = effects[o].start /\ effects'[o].link = effects[o].link
        /\ \A p \in F!Op \ {o} : effects'[p] = effects[p]
    BY <1>1, <1>2, WorkGoes DEF FollowupsInv, FollowupsType, WorkPlace
  <1>6. effects'["create"] = effects["create"] /\ effects'["cancel"] = effects["cancel"]
    BY <1>2, <1>5, Changes
  <1>7. FollowupsType'
    BY <1>1, <1>2, <1>4, <1>5 DEF FollowupsInv, FollowupsType
  <1>8. Begun'
    BY <1>1, <1>2, <1>5, <1>6, Changes DEF FollowupsInv, Begun
  <1>9. Reminded'
    <2>1. SUFFICES ASSUME F!Spared({"crash", "load", "write", "busy", "overtaken"})',
                          F!InTime(booked.start), effects'[booked.start].pc = "done"
                   PROVE  reminder'.start = booked.start /\ reminder'.state # F!None
      BY <1>1, <1>3 DEF Reminded, F!InTime
    <2>2. CASE booked.start = o
      <3>1. reminder' = [state |-> "pending", start |-> o]
        BY <1>1, <1>3, <2>1, <2>2 DEF F!Spared, F!InTime
      <3>2. QED
        BY <2>2, <3>1 DEF F!None
    <2>3. CASE booked.start # o
      <3>1. effects[booked.start].pc = "done" /\ reminder' = reminder
        BY <1>1, <1>3, <1>5, <2>1, <2>3, Changes DEF F!Spared, F!InTime
      <3>2. F!Spared({"crash", "load", "write", "busy", "overtaken"})
        BY <1>1, <2>1 DEF F!Spared, F!InTime
      <3>3. QED
        BY <1>3, <2>1, <3>1, <3>2 DEF FollowupsInv, Reminded
    <2>4. QED
      BY <2>2, <2>3
  <1>10. Rotated'
    BY <1>1, <1>3, <1>5, Changes DEF FollowupsInv, Rotated, F!Spared, F!InTime
  <1>11. Linked'
    <2>1. links \subseteq Start
      BY DEF FollowupsInv, FollowupsType
    <2>2. QED
      BY <1>1, <1>2, <1>5, <1>6, <2>1, Changes DEF FollowupsInv, Linked, F!Spared, F!InTime
  <1>12. Announced'
    BY <1>1, <1>3, <1>5, <1>6, Changes DEF FollowupsInv, Announced, F!Spared, F!InTime
  <1>13. QED
    BY <1>7, <1>8, <1>9, <1>10, <1>11, <1>12 DEF FollowupsInv

\* The worker: a reminder stays for the time that it was made for.
LEMMA WorkerStep ==
    ASSUME FollowupsInv, F!ClaimReminder \/ F!LoadBooking \/ F!SendReminder
    PROVE  FollowupsInv'
  <1>1. /\ reminder \in [state: {F!None, "pending", "running", "done", "failed"},
                         start: Start \cup {F!None}]
        /\ sending \in BOOLEAN /\ (sending => reminder.state = "running")
    BY DEF FollowupsInv, FollowupsType
  <1>2. PICK x \in {"pending", "running", "done", "failed"} :
           /\ reminder' = [reminder EXCEPT !.state = x]
           /\ sending' \in BOOLEAN /\ (sending' => x = "running")
           /\ reminder.state \in {"pending", "running"}
           /\ UNCHANGED <<booked, effects, links, letters, notify, announced, flagged, spent,
                          mishaps>>
    <2>1. CASE F!ClaimReminder
      BY <1>1, <2>1 DEF F!ClaimReminder, FollowupsInv, FollowupsType
    <2>2. CASE F!LoadBooking
      <3>1. reminder = [reminder EXCEPT !.state = "running"]
        BY <1>1, <2>2 DEF F!LoadBooking
      <3>2. CASE booked.status = "confirmed" /\ "reminder" \in notify
        <4>1. reminder' = [reminder EXCEPT !.state = "running"] /\ sending' = TRUE
          BY <2>2, <3>1, <3>2 DEF F!LoadBooking
        <4>2. QED
          BY <2>2, <4>1 DEF F!LoadBooking
      <3>3. CASE ~(booked.status = "confirmed" /\ "reminder" \in notify)
        BY <1>1, <2>2, <3>3 DEF F!LoadBooking
      <3>4. QED
        BY <3>2, <3>3
    <2>3. CASE F!SendReminder
      BY <1>1, <2>3 DEF F!SendReminder
    <2>4. QED
      BY <2>1, <2>2, <2>3
  <1>3. /\ reminder' \in [state: {F!None, "pending", "running", "done", "failed"},
                          start: Start \cup {F!None}]
        /\ reminder'.state = x /\ reminder'.start = reminder.start
        /\ reminder.state # F!None /\ x # F!None
    BY <1>1, <1>2 DEF F!None
  <1>4. FollowupsType'
    BY <1>2, <1>3 DEF FollowupsInv, FollowupsType
  <1>5. Reminded'
    BY <1>2, <1>3 DEF FollowupsInv, Reminded, F!Spared, F!InTime
  <1>6. Begun' /\ Linked'
    BY <1>2 DEF FollowupsInv, Begun, Linked, F!Spared, F!InTime
  <1>7. Rotated' /\ Announced'
    BY <1>2 DEF FollowupsInv, Rotated, Announced, F!Spared, F!InTime
  <1>8. QED
    BY <1>4, <1>5, <1>6, <1>7 DEF FollowupsInv

\* A crash ends every goroutine that has begun (Crash).
LEMMA CrashStep ==
    ASSUME FollowupsInv, F!Crash
    PROVE  FollowupsInv'
  <1>1. /\ effects' = [o \in F!Op |-> IF effects[o].pc = "idle" THEN effects[o]
                                     ELSE [effects[o] EXCEPT !.pc = "done"]]
        /\ sending' = FALSE /\ "crash" \in mishaps'
        /\ reminder' = IF reminder.state = "running" THEN [reminder EXCEPT !.state = "pending"]
                       ELSE reminder
        /\ UNCHANGED <<booked, links, letters, notify, announced, flagged, spent>>
    BY DEF F!Crash, F!At, F!Mishap
  <1>2. ASSUME NEW r \in WorkRow
        PROVE  LET s == [r EXCEPT !.pc = "done"]
               IN  s \in WorkRow /\ s.pc = "done" /\ s.start = r.start /\ s.link = r.link
    BY DEF WorkRow, WorkPlace
  <1>3. ASSUME NEW o \in F!Op
        PROVE  /\ effects'[o] \in WorkRow
               /\ effects'[o].pc = IF effects[o].pc = "idle" THEN "idle" ELSE "done"
               /\ effects'[o].start = effects[o].start /\ effects'[o].link = effects[o].link
    <2>1. PICK r \in WorkRow : r = effects[o]
      BY DEF FollowupsInv, FollowupsType
    <2>2. effects'[o] = IF r.pc = "idle" THEN r ELSE [r EXCEPT !.pc = "done"]
      BY <1>1, <2>1
    <2>3. QED
      BY <1>2, <2>1, <2>2
  <1>4. effects' \in [F!Op -> WorkRow]
    BY <1>1, <1>3
  <1>5. reminder' \in [state: {F!None, "pending", "running", "done", "failed"},
                       start: Start \cup {F!None}]
    BY <1>1 DEF FollowupsInv, FollowupsType
  <1>6. FollowupsType'
    BY <1>1, <1>4, <1>5 DEF FollowupsInv, FollowupsType
  <1>7. Begun'
    BY <1>1, <1>3, Changes DEF FollowupsInv, FollowupsType, Begun
  <1>8. Reminded' /\ Linked' /\ Rotated' /\ Announced'
    BY <1>1 DEF Reminded, Linked, Rotated, Announced, F!Spared, F!InTime
  <1>9. QED
    BY <1>6, <1>7, <1>8 DEF FollowupsInv

\* Every step of Followups keeps its invariant.
LEMMA FollowupsStep == FollowupsInv /\ [F!FollowupsNext]_fVars => FollowupsInv'
  <1> SUFFICES ASSUME FollowupsInv, [F!FollowupsNext]_fVars
               PROVE  FollowupsInv'
    OBVIOUS
  <1>1. ASSUME NEW o \in Mover, F!RescheduleBooking(o) \/ F!RescheduleByToken(o)
        PROVE  FollowupsInv'
    BY <1>1, MoveStep DEF F!RescheduleBooking, F!RescheduleByToken, F!At
  <1>2. ASSUME F!CancelBooking \/ F!CancelByToken
        PROVE  FollowupsInv'
    BY <1>2, CancelStep DEF F!CancelBooking, F!CancelByToken, F!At
  <1>3. CASE UNCHANGED fVars
    <2>1. FollowupsType' /\ Begun' /\ Reminded'
      BY <1>3 DEF fVars, FollowupsInv, FollowupsType, Begun, Reminded, F!Spared, F!InTime
    <2>2. Linked' /\ Rotated' /\ Announced'
      BY <1>3 DEF fVars, FollowupsInv, Linked, Rotated, Announced, F!Spared, F!InTime
    <2>3. QED
      BY <2>1, <2>2 DEF FollowupsInv
  <1>4. QED
    BY <1>1, <1>2, <1>3, WaitStep, EnqueueStep, IssueStep, LoadDataStep, RotateStep,
       AttendeeStep, AnnounceStep, ReplaceStep, WorkerStep, CrashStep, ExpireStep
       DEF F!FollowupsNext

\* For any number of reschedules whose goroutines overlap with each other, with the create and
\* with the cancel: the reminder on file is for the booking's time (replaceReminderJobs), the
\* booker holds a link that works and no link of before a reschedule does (RotateManageToken),
\* and every change is announced and a confirmation that never left flagged; whatever fails
\* and whichever deadlines pass, but for what each property excepts.
THEOREM BookerInformed == MeetingsSpec => []BookerIsKeptInformed
  <1>1. MeetingsInit => FollowupsInv
    <2> SUFFICES ASSUME F!FollowupsInit
                 PROVE  FollowupsInv
      BY DEF MeetingsInit
    <2> DEFINE begin == [pc |-> "remind", start |-> "create", link |-> F!None]
               wait == [pc |-> "idle", start |-> F!None, link |-> F!None]
    <2>1. /\ effects = [o \in F!Op |-> IF o = "create" THEN begin ELSE wait]
          /\ begin \in WorkRow /\ wait \in WorkRow
      BY DEF F!FollowupsInit, F!Work, WorkRow, WorkPlace, Start
    <2>2. /\ effects \in [F!Op -> WorkRow] /\ effects["create"] = begin
          /\ \A o \in F!Op \ {"create"} : effects[o] = wait
      BY <2>1, Changes
    <2>3. FollowupsType
      BY <2>2, Changes DEF F!FollowupsInit, FollowupsType
    <2>4. Begun
      BY <2>2, Changes DEF F!FollowupsInit, Begun
    <2>5. Reminded /\ Linked /\ Rotated /\ Announced
      BY <2>2 DEF F!FollowupsInit, Reminded, Linked, Rotated, Announced
    <2>6. QED
      BY <2>3, <2>4, <2>5 DEF FollowupsInv
  <1>2. FollowupsInv /\ [MeetingsNext]_meetingsVars => FollowupsInv'
    <2>1. [MeetingsNext]_meetingsVars => [F!FollowupsNext]_fVars
      BY DEF MeetingsNext, meetingsVars, QuestionsMove, FollowupsMove, InvitesMove, RoomsMove,
             NotesMove
    <2>2. QED
      BY <2>1, FollowupsStep
  <1>3. FollowupsInv => BookerIsKeptInformed
    <2> SUFFICES ASSUME FollowupsInv
                 PROVE  BookerIsKeptInformed
      OBVIOUS
    <2>1. /\ booked.start \in Start /\ booked.start \in F!Op /\ links \subseteq Start
          /\ links \subseteq F!Op /\ flagged \in BOOLEAN
      BY Changes DEF FollowupsInv, FollowupsType
    <2>2. ASSUME F!Settled
          PROVE  /\ effects["create"].pc = "done" /\ effects[booked.start].pc = "done"
                 /\ booked.status = "cancelled" => effects["cancel"].pc = "done"
                 /\ \A l \in links : effects[l].pc \in {"idle", "done"}
      BY <2>1, <2>2, Changes DEF FollowupsInv, Begun, F!Settled, F!At
    <2>3. F!ReminderFollows
      BY <2>1, <2>2 DEF FollowupsInv, Reminded, F!ReminderFollows
    <2>4. F!BookerHoldsLink
      BY <2>2 DEF FollowupsInv, Linked, F!BookerHoldsLink
    <2>5. F!OldLinksDie
      BY <2>2 DEF FollowupsInv, Rotated, F!OldLinksDie
    <2>6. F!ChangesAreKnown
      BY <2>1, <2>2 DEF FollowupsInv, Announced, F!ChangesAreKnown, F!Spared, F!InTime
    <2>7. QED
      BY <2>3, <2>4, <2>5, <2>6 DEF BookerIsKeptInformed
  <1>4. QED
    BY <1>1, <1>2, <1>3, PTL DEF MeetingsSpec

-----------------------------------------------------------------------------
(* Invitations.                                                            *)

Organizer == {"reply", "from", "none"} \X (I!Op \cup {"rsvp", "office", "none"})

MailRow == [pc: {"idle", "read", "fix", "send", "done"}, start: I!Op \cup {I!None}, seq: Nat,
            org: Organizer]

Reply == [n: Nat, answer: I!Answers \cup {"needs-action"}]

MailSlips == {"lost", "outrun", "alike", "unsettled"}

AnswerSlips == {"shuffled", "refused", "again"}

InvitesType ==
    /\ clock \in Nat
    /\ meeting \in [status: {"confirmed", "cancelled"}, start: I!Op, updated: Nat,
                    organizer: Organizer]
    /\ sender \in {"rsvp", "office"}
    /\ mail \in [I!Op -> MailRow]
    /\ entry \in [seq: Nat, start: I!Op \cup {I!None}, org: Organizer]
    /\ signed \in [I!Op -> Organizer]
    /\ slips \subseteq MailSlips \cup AnswerSlips

\* The organizer is settled before a mail goes out, and stays.
Settled(o) ==
    /\ mail[o].pc = "send" => mail[o].org = meeting.organizer
    /\ signed[o] \in {I!Nobody, meeting.organizer}

Organized ==
    /\ \A o \in I!Op : mail[o].pc \in {"fix", "send"} => mail[o].org # I!Nobody
    /\ "unsettled" \notin slips =>
          /\ \A o \in I!Op : Settled(o)
          /\ entry.org \in {I!Nobody, meeting.organizer}

Changed == {o \in I!Op : mail[o].pc # "idle"}

\* The changes of a booking are numbered in their order...
Ordered ==
    /\ meeting.updated <= clock /\ entry.seq <= clock
    /\ \A o \in Changed : mail[o].seq <= meeting.updated

\* ... and the last one made it what it is, when no two were made in one second.
Numbered ==
    "alike" \notin slips =>
        /\ \A o, p \in Changed : mail[o].seq = mail[p].seq => o = p
        /\ \E o \in Changed : mail[o].seq = meeting.updated
        /\ \A o \in Changed : mail[o].seq = meeting.updated =>
              /\ mail[o].start = meeting.start
              /\ o = "cancel" <=> meeting.status = "cancelled"

\* The booker's calendar has the last change, or nothing that is numbered later.
Arrived ==
    slips \cap MailSlips = {} =>
        \A o \in Changed : mail[o].seq = meeting.updated =>
            /\ mail[o].pc # "done" => entry.seq <= meeting.updated
            /\ mail[o].pc = "done" => entry.seq >= meeting.updated /\ I!Agrees

\* The latest answer is on the booking or on its way.
Underway ==
    /\ answered \in Reply /\ rsvp \in Reply /\ replies \subseteq Reply
    /\ inbound.pc \in {"idle", "fetch"}
    /\ inbound.pc = "idle" => inbound = I!NoReply
    /\ inbound.pc = "fetch" =>
          /\ inbound = [pc |-> "fetch", n |-> inbound.n, answer |-> inbound.answer]
          /\ [n |-> inbound.n, answer |-> inbound.answer] \in Reply
          /\ inbound.n <= answered.n
          /\ inbound.n = answered.n => inbound.answer = answered.answer
    /\ \A p \in replies : p.n <= answered.n /\ (p.n = answered.n => p = answered)
    /\ slips \cap {"shuffled", "refused"} = {} =>
          \/ rsvp = answered \/ answered \in replies
          \/ inbound.pc = "fetch" /\ inbound.n = answered.n

MailsInv == InvitesType /\ Organized /\ Ordered /\ Numbered /\ Arrived

InvitesInv == MailsInv /\ Underway

USE InviteAssumption

InvitePlace == {"idle", "read", "fix", "send", "done"}

\* What a step does to the mail of a change.
LEMMA MailGoes ==
    ASSUME mail \in [I!Op -> MailRow], NEW o \in I!Op, NEW x \in InvitePlace,
           NEW a \in Organizer, mail' = [mail EXCEPT ![o].pc = x, ![o].org = a]
    PROVE  /\ mail' \in [I!Op -> MailRow]
           /\ mail'[o].pc = x /\ mail'[o].org = a
           /\ mail'[o].start = mail[o].start /\ mail'[o].seq = mail[o].seq
           /\ \A p \in I!Op \ {o} : mail'[p] = mail[p]
  <1>1. ASSUME NEW r \in MailRow
        PROVE  LET s == [[r EXCEPT !.pc = x] EXCEPT !.org = a]
               IN  s \in MailRow /\ s.pc = x /\ s.org = a /\ s.start = r.start /\ s.seq = r.seq
    BY DEF MailRow, InvitePlace
  <1>2. mail' = [mail EXCEPT ![o] = [[mail[o] EXCEPT !.pc = x] EXCEPT !.org = a]]
    OBVIOUS
  <1>3. PICK r \in MailRow :
           /\ r = [[mail[o] EXCEPT !.pc = x] EXCEPT !.org = a]
           /\ r.pc = x /\ r.org = a /\ r.start = mail[o].start /\ r.seq = mail[o].seq
    BY <1>1
  <1>4. QED
    BY <1>2, <1>3

\* A candidate is somebody.
LEMMA Addressed ==
    ASSUME sender \in {"rsvp", "office"}, NEW o \in I!Op
    PROVE  I!Address(o) \in Organizer /\ I!Address(o) # I!Nobody /\ I!Nobody \in Organizer
  BY DEF I!Address, I!From, I!Nobody, Organizer

\* The answers leave the mails alone.
LEMMA MailsApart ==
    ASSUME MailsInv, UNCHANGED <<clock, meeting, sender, mail, entry, signed>>,
           slips \subseteq slips', slips' \subseteq slips \cup AnswerSlips
    PROVE  MailsInv'
  <1>1. InvitesType' /\ Organized'
    BY DEF MailsInv, InvitesType, Organized, Settled
  <1>2. Ordered' /\ Numbered' /\ Arrived'
    BY DEF MailsInv, Ordered, Numbered, Arrived, Changed, I!Agrees
  <1>3. QED
    BY <1>1, <1>2 DEF MailsInv

\* The mails leave the answers alone.
LEMMA AnswersApart ==
    ASSUME Underway, UNCHANGED <<replies, answered, inbound, rsvp>>,
           slips \subseteq slips', slips' \subseteq slips \cup MailSlips
    PROVE  Underway'
  BY DEF Underway, MailSlips

\* A change of the booking.
LEMMA ChangeStep ==
    ASSUME MailsInv, NEW o \in I!Op, NEW status \in {"confirmed", "cancelled"},
           NEW start \in I!Op, I!Change(o, status, start),
           o = "cancel" <=> status = "cancelled"
    PROVE  MailsInv'
  <1>1. /\ mail[o].pc = "idle" /\ meeting.status = "confirmed"
        /\ meeting' = [[[meeting EXCEPT !.status = status] EXCEPT !.start = start]
                          EXCEPT !.updated = clock]
        /\ mail' = [mail EXCEPT ![o] = [pc |-> "read", start |-> start, seq |-> clock,
                                        org |-> I!Nobody]]
        /\ UNCHANGED <<clock, sender, entry, signed>>
        /\ slips' = slips \cup {"alike"} \/ (slips' = slips /\ clock # meeting.updated)
    BY DEF I!Change, I!Queued, I!Slip
  <1>2. /\ clock \in Nat /\ meeting.updated \in Nat /\ entry.seq \in Nat
        /\ slips \subseteq slips' /\ slips' \subseteq MailSlips \cup AnswerSlips
        /\ meeting.updated <= clock /\ ("alike" \notin slips' => meeting.updated < clock)
        /\ "unsettled" \notin slips' => "unsettled" \notin slips
    BY <1>1 DEF MailsInv, InvitesType, Ordered, MailSlips
  <1>3. /\ meeting' \in [status: {"confirmed", "cancelled"}, start: I!Op, updated: Nat,
                         organizer: Organizer]
        /\ meeting'.status = status /\ meeting'.start = start /\ meeting'.updated = clock
        /\ meeting'.organizer = meeting.organizer
    BY <1>1 DEF MailsInv, InvitesType
  <1>4. /\ mail' \in [I!Op -> MailRow]
        /\ mail'[o].pc = "read" /\ mail'[o].seq = clock /\ mail'[o].start = start
        /\ \A p \in I!Op \ {o} : mail'[p] = mail[p]
    <2>1. [pc |-> "read", start |-> start, seq |-> clock, org |-> I!Nobody] \in MailRow
      BY <1>2, Addressed DEF MailsInv, InvitesType, MailRow
    <2>2. QED
      BY <1>1, <2>1 DEF MailsInv, InvitesType
  <1>5. InvitesType'
    BY <1>1, <1>2, <1>3, <1>4 DEF MailsInv, InvitesType
  <1>6. Organized'
    BY <1>1, <1>2, <1>3, <1>4 DEF MailsInv, Organized, Settled
  <1>7. \A p \in Changed' \ {o} :
           /\ p \in Changed /\ mail'[p] = mail[p]
           /\ mail[p].seq \in Nat /\ mail[p].seq <= clock
           /\ "alike" \notin slips' => mail[p].seq < clock
    <2>1. \A p \in Changed : mail[p].seq \in Nat /\ mail[p].seq <= meeting.updated
      BY DEF MailsInv, InvitesType, Ordered, Changed, MailRow
    <2>2. QED
      BY <1>1, <1>2, <1>4, <2>1 DEF Changed
  <1>8. o \in Changed'
    BY <1>4 DEF Changed
  <1>9. Ordered'
    BY <1>1, <1>2, <1>3, <1>4, <1>7 DEF MailsInv, Ordered
  <1>10. Numbered'
    <2> SUFFICES ASSUME "alike" \notin slips'
                 PROVE  Numbered'
      BY DEF Numbered
    <2>1. \A p \in Changed' : mail'[p].seq = clock => p = o
      BY <1>2, <1>4, <1>7
    <2>2. ASSUME NEW p \in Changed', NEW q \in Changed', mail'[p].seq = mail'[q].seq
          PROVE  p = q
      <3>1. CASE p = o \/ q = o
        BY <1>4, <2>1, <2>2, <3>1
      <3>2. CASE p # o /\ q # o
        BY <1>2, <1>7, <2>2, <3>2 DEF MailsInv, Numbered
      <3>3. QED
        BY <3>1, <3>2
    <2>3. QED
      BY <1>3, <1>4, <1>8, <2>1, <2>2 DEF Numbered
  <1>11. Arrived'
    <2> SUFFICES ASSUME slips' \cap MailSlips = {}
                 PROVE  Arrived'
      BY DEF Arrived
    <2>1. \A p \in Changed' : mail'[p].seq = clock => p = o
      BY <1>2, <1>4, <1>7 DEF MailSlips
    <2>2. QED
      BY <1>1, <1>3, <1>4, <2>1 DEF MailsInv, Ordered, Arrived
  <1>12. QED
    BY <1>5, <1>6, <1>9, <1>10, <1>11 DEF MailsInv

\* The sender changes, or a second passes.
LEMMA ClockStep ==
    ASSUME MailsInv, sender' \in {"rsvp", "office"}, clock' \in {clock, clock + 1},
           UNCHANGED <<meeting, mail, entry, signed, slips>>
    PROVE  MailsInv'
  <1>1. clock \in Nat /\ meeting.updated \in Nat /\ entry.seq \in Nat
    BY DEF MailsInv, InvitesType
  <1>2. InvitesType' /\ Organized'
    BY <1>1 DEF MailsInv, InvitesType, Organized, Settled
  <1>3. Ordered' /\ Numbered' /\ Arrived'
    BY <1>1 DEF MailsInv, Ordered, Numbered, Arrived, Changed, I!Agrees
  <1>4. QED
    BY <1>2, <1>3 DEF MailsInv

\* A mail goes on, and the booking may get its organizer.
LEMMA SettleStep ==
    ASSUME MailsInv, NEW o \in I!Op, NEW x \in {"fix", "send"}, NEW a \in Organizer,
           mail[o].pc \in {"read", "fix"}, mail' = [mail EXCEPT ![o].pc = x, ![o].org = a],
           a # I!Nobody, NEW b \in Organizer, meeting' = [meeting EXCEPT !.organizer = b],
           meeting.organizer # I!Nobody => b = meeting.organizer,
           x = "send" => a = b \/ "unsettled" \in slips',
           slips \subseteq slips', slips' \subseteq slips \cup {"unsettled"},
           UNCHANGED <<clock, sender, entry, signed>>
    PROVE  MailsInv'
  <1>1. /\ mail' \in [I!Op -> MailRow]
        /\ mail'[o].pc = x /\ mail'[o].org = a
        /\ mail'[o].start = mail[o].start /\ mail'[o].seq = mail[o].seq
        /\ \A p \in I!Op \ {o} : mail'[p] = mail[p]
    BY MailGoes, ZenonT(40) DEF MailsInv, InvitesType, InvitePlace
  <1>2. /\ meeting' \in [status: {"confirmed", "cancelled"}, start: I!Op, updated: Nat,
                         organizer: Organizer]
        /\ meeting'.status = meeting.status /\ meeting'.start = meeting.start
        /\ meeting'.updated = meeting.updated /\ meeting'.organizer = b
    BY DEF MailsInv, InvitesType
  <1>3. InvitesType'
    <2>1. slips' \subseteq MailSlips \cup AnswerSlips
      BY DEF MailsInv, InvitesType, MailSlips
    <2>2. QED
      BY <1>1, <1>2, <2>1, ZenonT(40) DEF MailsInv, InvitesType
  <1>4. Organized'
    <2>1. \A p \in I!Op : mail'[p].pc \in {"fix", "send"} => mail'[p].org # I!Nobody
      BY <1>1 DEF MailsInv, Organized
    <2>2. ASSUME "unsettled" \notin slips'
          PROVE  /\ \A p \in I!Op : Settled(p)'
                 /\ entry'.org \in {I!Nobody, meeting'.organizer}
      <3>1. "unsettled" \notin slips
        BY <2>2
      <3>2. QED
        BY <1>1, <1>2, <2>2, <3>1 DEF MailsInv, Organized, Settled
    <2>3. QED
      BY <2>1, <2>2 DEF Organized
  <1>5. /\ Changed' = Changed
        /\ \A p \in Changed : /\ mail'[p].seq = mail[p].seq /\ mail'[p].start = mail[p].start
                              /\ mail'[p].pc = "done" <=> mail[p].pc = "done"
    BY <1>1 DEF Changed
  <1>6. Ordered' /\ Numbered'
    <2>1. Ordered'
      BY <1>2, <1>5 DEF MailsInv, Ordered
    <2> SUFFICES ASSUME "alike" \notin slips'
                 PROVE  Numbered'
      BY <2>1 DEF Numbered
    <2>2. "alike" \notin slips
      OBVIOUS
    <2>3. ASSUME NEW p \in Changed', NEW q \in Changed', mail'[p].seq = mail'[q].seq
          PROVE  p = q
      BY <1>5, <2>2, <2>3 DEF MailsInv, Numbered
    <2>4. \E p \in Changed' : mail'[p].seq = meeting'.updated
      <3>1. PICK p \in Changed : mail[p].seq = meeting.updated
        BY <2>2 DEF MailsInv, Numbered
      <3>2. p \in Changed' /\ mail'[p].seq = meeting'.updated
        BY <1>2, <1>5, <3>1
      <3>3. QED
        BY <3>2
    <2>5. ASSUME NEW p \in Changed', mail'[p].seq = meeting'.updated
          PROVE  /\ mail'[p].start = meeting'.start
                 /\ p = "cancel" <=> meeting'.status = "cancelled"
      <3>1. /\ p \in Changed /\ mail[p].seq = meeting.updated
            /\ mail'[p].start = mail[p].start
        BY <1>2, <1>5, <2>5
      <3>2. /\ mail[p].start = meeting.start
            /\ p = "cancel" <=> meeting.status = "cancelled"
        BY <2>2, <3>1 DEF MailsInv, Numbered
      <3>3. QED
        BY <1>2, <3>1, <3>2, Zenon
    <2>6. QED
      BY <2>3, <2>4, <2>5, Zenon DEF Numbered
  <1>7. Arrived'
    <2>1. slips' \cap MailSlips = {} => slips \cap MailSlips = {}
      OBVIOUS
    <2>2. QED
      BY <1>2, <1>5, <2>1, ZenonT(40) DEF MailsInv, Arrived, I!Agrees
  <1>8. QED
    BY <1>3, <1>4, <1>6, <1>7 DEF MailsInv

\* A mail that went out changes nothing else in its row.
LEMMA MailSent ==
    ASSUME mail \in [I!Op -> MailRow], NEW o \in I!Op, mail' = [mail EXCEPT ![o].pc = "done"]
    PROVE  /\ mail' \in [I!Op -> MailRow]
           /\ mail'[o].pc = "done" /\ mail'[o].org = mail[o].org
           /\ mail'[o].start = mail[o].start /\ mail'[o].seq = mail[o].seq
           /\ \A p \in I!Op \ {o} : mail'[p] = mail[p]
  <1>1. ASSUME NEW r \in MailRow
        PROVE  LET s == [r EXCEPT !.pc = "done"]
               IN  /\ s \in MailRow /\ s.pc = "done" /\ s.org = r.org
                   /\ s.start = r.start /\ s.seq = r.seq
    BY DEF MailRow
  <1>2. mail' = [mail EXCEPT ![o] = [mail[o] EXCEPT !.pc = "done"]]
    OBVIOUS
  <1>3. PICK r \in MailRow :
           /\ r = [mail[o] EXCEPT !.pc = "done"]
           /\ r.pc = "done" /\ r.org = mail[o].org /\ r.start = mail[o].start
           /\ r.seq = mail[o].seq
    BY <1>1
  <1>4. QED
    BY <1>2, <1>3

\* The organizer read, or a candidate for it, or the sender.
LEMMA OrganizerStep ==
    ASSUME MailsInv, NEW o \in I!Op, I!LoadOrganizer(o)
    PROVE  MailsInv'
  <1>1. PICK b \in Organizer : b = meeting.organizer
    BY DEF MailsInv, InvitesType
  <1>2. /\ meeting' = [meeting EXCEPT !.organizer = b]
        /\ mail[o].pc = "read" /\ UNCHANGED <<clock, sender, entry, signed>>
    BY <1>1 DEF I!LoadOrganizer, MailsInv, InvitesType
  <1>3. CASE /\ mail' = [mail EXCEPT ![o].pc = "send", ![o].org = I!From]
             /\ slips' = slips \cup {"unsettled"}
    <2>1. PICK a \in Organizer : a = I!From /\ a # I!Nobody
      <3>1. /\ "from" \in {"reply", "from", "none"}
            /\ "office" \in I!Op \cup {"rsvp", "office", "none"}
        OBVIOUS
      <3>2. I!From \in Organizer
        BY <3>1, Zenon DEF I!From, Organizer
      <3>3. I!From # I!Nobody
        BY DEF I!From, I!Nobody
      <3>4. QED
        BY <3>2, <3>3
    <2>2. /\ mail' = [mail EXCEPT ![o].pc = "send", ![o].org = a]
          /\ "unsettled" \in slips' /\ slips \subseteq slips'
          /\ slips' \subseteq slips \cup {"unsettled"}
      BY <1>3, <2>1
    <2>3. /\ "send" \in {"fix", "send"} /\ mail[o].pc \in {"read", "fix"}
          /\ meeting.organizer # I!Nobody => b = meeting.organizer
          /\ "send" = "send" => a = b \/ "unsettled" \in slips'
      BY <1>1, <1>2, <2>2
    <2>4. QED
      BY <1>1, <1>2, <2>1, <2>2, <2>3, SettleStep, ZenonT(40)
  <1>4. CASE /\ mail' = [mail EXCEPT
                    ![o].pc = IF meeting.organizer = I!Nobody THEN "fix" ELSE "send",
                    ![o].org = IF meeting.organizer = I!Nobody THEN I!Address(o)
                               ELSE meeting.organizer]
             /\ UNCHANGED slips
    <2>1. CASE meeting.organizer = I!Nobody
      <3>1. PICK a \in Organizer : a = I!Address(o) /\ a # I!Nobody
        BY Addressed DEF MailsInv, InvitesType
      <3>2. mail' = [mail EXCEPT ![o].pc = "fix", ![o].org = a]
        BY <1>4, <2>1, <3>1
      <3>3. QED
        BY <1>1, <1>2, <1>4, <2>1, <3>1, <3>2, SettleStep, ZenonT(40)
    <2>2. CASE meeting.organizer # I!Nobody
      <3>1. mail' = [mail EXCEPT ![o].pc = "send", ![o].org = b]
        BY <1>1, <1>4, <2>2
      <3>2. QED
        BY <1>1, <1>2, <1>4, <2>2, <3>1, SettleStep, ZenonT(40)
    <2>3. QED
      BY <2>1, <2>2
  <1>5. QED
    BY <1>3, <1>4 DEF I!LoadOrganizer, I!Slip

\* The first candidate written is the organizer, for every mail that raced for it; a mail
\* that cannot learn it keeps its own.
LEMMA FixStep ==
    ASSUME MailsInv, NEW o \in I!Op, I!FixOrganizer(o)
    PROVE  MailsInv'
  <1>1. PICK b : b = IF meeting.organizer = I!Nobody THEN mail[o].org ELSE meeting.organizer
    OBVIOUS
  <1>2. /\ mail[o].pc = "fix" /\ UNCHANGED <<clock, sender, entry, signed>>
        /\ \/ /\ meeting' = [meeting EXCEPT !.organizer = b]
              /\ mail' = [mail EXCEPT ![o].pc = "send", ![o].org = b]
              /\ UNCHANGED slips
           \/ /\ meeting' \in {meeting, [meeting EXCEPT !.organizer = b]}
              /\ mail' = [mail EXCEPT ![o].pc = "send"]
              /\ slips' = slips \cup {"unsettled"}
    BY <1>1 DEF I!FixOrganizer, I!Slip
  <1>3. /\ b \in Organizer /\ b # I!Nobody
        /\ mail[o].org \in Organizer /\ mail[o].org # I!Nobody
    BY <1>1, <1>2 DEF MailsInv, InvitesType, Organized, MailRow
  <1>4. meeting.organizer # I!Nobody => b = meeting.organizer
    BY <1>1
  <1>5. CASE /\ meeting' = [meeting EXCEPT !.organizer = b]
             /\ mail' = [mail EXCEPT ![o].pc = "send", ![o].org = b]
             /\ UNCHANGED slips
    BY <1>2, <1>3, <1>4, <1>5, SettleStep, ZenonT(40)
  <1>6. CASE /\ meeting' \in {meeting, [meeting EXCEPT !.organizer = b]}
             /\ mail' = [mail EXCEPT ![o].pc = "send"]
             /\ slips' = slips \cup {"unsettled"}
    <2>1. PICK a \in Organizer : a = mail[o].org /\ a # I!Nobody
      BY <1>3
    <2>2. mail' = [mail EXCEPT ![o].pc = "send", ![o].org = a]
      <3>1. mail[o] \in MailRow
        BY DEF MailsInv, InvitesType
      <3>2. [[mail[o] EXCEPT !.pc = "send"] EXCEPT !.org = a] = [mail[o] EXCEPT !.pc = "send"]
        BY <2>1, <3>1 DEF MailRow
      <3>3. mail' = [mail EXCEPT ![o] = [mail[o] EXCEPT !.pc = "send"]]
        BY <1>6
      <3>4. mail' = [mail EXCEPT ![o] = [[mail[o] EXCEPT !.pc = "send"] EXCEPT !.org = a]]
        BY <3>2, <3>3
      <3>5. QED
        BY <3>4
    <2>3. CASE meeting' = [meeting EXCEPT !.organizer = b]
      BY <1>2, <1>3, <1>4, <1>6, <2>1, <2>2, <2>3, SettleStep, ZenonT(40)
    <2>4. CASE meeting' = meeting
      <3>1. PICK d \in Organizer : d = meeting.organizer
        BY DEF MailsInv, InvitesType
      <3>2. meeting' = [meeting EXCEPT !.organizer = d]
        BY <2>4, <3>1 DEF MailsInv, InvitesType
      <3>3. QED
        BY <1>2, <1>6, <2>1, <2>2, <3>1, <3>2, SettleStep, ZenonT(40)
    <2>5. QED
      BY <1>6, <2>3, <2>4
  <1>7. QED
    BY <1>2, <1>5, <1>6

\* What the mail leaves in the booker's calendar.
LEMMA CalendarHas ==
    ASSUME MailsInv, NEW o \in I!Op, mail[o].pc = "send"
    PROVE  /\ I!Sequence(o) \in Nat /\ I!Sequence(o) <= clock
           /\ mail[o].seq \in Nat /\ mail[o].seq <= I!Sequence(o)
           /\ I!Received(o) \in [seq: Nat, start: I!Op \cup {I!None}, org: Organizer]
           /\ I!Received(o).seq <= clock /\ I!Received(o).seq >= entry.seq
           /\ I!Received(o) = entry \/ I!Received(o).seq = I!Sequence(o)
           /\ "unsettled" \notin slips =>
                 /\ mail[o].org = meeting.organizer
                 /\ I!Received(o).org \in {I!Nobody, meeting.organizer}
                 /\ I!Sequence(o) >= entry.seq =>
                       /\ I!Received(o).seq = I!Sequence(o)
                       /\ I!Received(o).start = IF o = "cancel" THEN I!None ELSE mail[o].start
           /\ ~(I!Sequence(o) >= entry.seq) => I!Received(o) = entry
  <1>1. /\ mail[o].seq \in Nat /\ mail[o].start \in I!Op \cup {I!None}
        /\ mail[o].org \in Organizer
        /\ clock \in Nat /\ meeting.updated \in Nat /\ entry.seq \in Nat
        /\ entry \in [seq: Nat, start: I!Op \cup {I!None}, org: Organizer]
        /\ "unsettled" \notin slips =>
              mail[o].org = meeting.organizer /\ entry.org \in {I!Nobody, meeting.organizer}
    BY DEF MailsInv, InvitesType, MailRow, Organized, Settled
  <1>2. mail[o].seq <= clock /\ entry.seq <= clock
    BY <1>1 DEF MailsInv, Ordered, Changed
  <1>3. I!Sequence(o) \in Nat /\ I!Sequence(o) <= clock /\ mail[o].seq <= I!Sequence(o)
    BY <1>1, <1>2 DEF I!Sequence
  <1>4. CASE entry.org \in {I!Nobody, mail[o].org} /\ I!Sequence(o) >= entry.seq
    <2>1. I!Received(o) = [seq |-> I!Sequence(o), org |-> mail[o].org,
                           start |-> IF o = "cancel" THEN I!None ELSE mail[o].start]
      BY <1>1, <1>4 DEF I!Received
    <2>2. QED
      BY <1>1, <1>3, <1>4, <2>1
  <1>5. CASE ~(entry.org \in {I!Nobody, mail[o].org} /\ I!Sequence(o) >= entry.seq)
    <2>1. I!Received(o) = entry
      BY <1>5 DEF I!Received
    <2>2. QED
      BY <1>1, <1>2, <1>3, <1>5, <2>1
  <1>6. QED
    BY <1>4, <1>5

\* A mail goes out: what arrives late is numbered below what the calendar has.
LEMMA SendStep ==
    ASSUME MailsInv, NEW o \in I!Op, I!SendInvite(o)
    PROVE  MailsInv'
  <1>1. /\ mail[o].pc = "send" /\ mail' = [mail EXCEPT ![o].pc = "done"]
        /\ UNCHANGED <<clock, meeting, sender>>
    BY DEF I!SendInvite
  <1>2. /\ mail' \in [I!Op -> MailRow]
        /\ mail'[o].pc = "done" /\ mail'[o].org = mail[o].org
        /\ mail'[o].start = mail[o].start /\ mail'[o].seq = mail[o].seq
        /\ \A p \in I!Op \ {o} : mail'[p] = mail[p]
    BY <1>1, MailSent DEF MailsInv, InvitesType
  <1>3. mail[o].org \in Organizer
    BY DEF MailsInv, InvitesType, MailRow
  <1>4. /\ clock \in Nat /\ meeting.updated \in Nat /\ entry.seq \in Nat
        /\ entry \in [seq: Nat, start: I!Op \cup {I!None}, org: Organizer]
        /\ entry.seq <= clock
    BY DEF MailsInv, InvitesType, Ordered
  <1>5. /\ entry' \in [seq: Nat, start: I!Op \cup {I!None}, org: Organizer]
        /\ entry'.seq <= clock
        /\ "unsettled" \notin slips =>
              /\ mail[o].org = meeting.organizer
              /\ entry.org \in {I!Nobody, meeting.organizer} =>
                    entry'.org \in {I!Nobody, meeting.organizer}
    BY <1>1, <1>4, CalendarHas DEF I!SendInvite
  <1>6. signed' \in [I!Op -> Organizer] /\ \A p \in I!Op : signed'[p] \in {signed[p], mail[o].org}
    BY <1>3 DEF I!SendInvite, MailsInv, InvitesType
  <1>7. slips' \subseteq MailSlips \cup AnswerSlips /\ slips \subseteq slips'
    BY DEF I!SendInvite, I!Note, I!Slip, MailsInv, InvitesType, MailSlips
  <1>8. InvitesType'
    BY <1>1, <1>2, <1>5, <1>6, <1>7 DEF MailsInv, InvitesType
  <1>9. Organized'
    <2>1. \A p \in I!Op : mail'[p].pc \in {"fix", "send"} => mail'[p].org # I!Nobody
      BY <1>1, <1>2 DEF MailsInv, Organized
    <2>2. ASSUME "unsettled" \notin slips'
          PROVE  /\ \A p \in I!Op : Settled(p)'
                 /\ entry'.org \in {I!Nobody, meeting'.organizer}
      <3>1. "unsettled" \notin slips
        BY <1>7, <2>2
      <3>2. QED
        BY <1>1, <1>2, <1>5, <1>6, <3>1 DEF MailsInv, Organized, Settled
    <2>3. QED
      BY <2>1, <2>2 DEF Organized
  <1>10. /\ Changed' = Changed /\ o \in Changed
         /\ \A p \in Changed : mail'[p].seq = mail[p].seq /\ mail'[p].start = mail[p].start
    BY <1>1, <1>2 DEF Changed
  <1>11. Ordered' /\ Numbered'
    <2>1. Ordered'
      BY <1>1, <1>4, <1>5, <1>10 DEF MailsInv, Ordered
    <2>2. "alike" \notin slips' => "alike" \notin slips
      BY <1>7
    <2>3. QED
      BY <1>1, <1>10, <2>1, <2>2 DEF MailsInv, Numbered
  <1>12. Arrived'
    <2>1. SUFFICES ASSUME slips' \cap MailSlips = {},
                          NEW p \in Changed, mail[p].seq = meeting.updated
                   PROVE  /\ mail'[p].pc # "done" => entry'.seq <= meeting.updated
                          /\ mail'[p].pc = "done" =>
                                entry'.seq >= meeting.updated /\ (I!Agrees)'
      BY <1>1, <1>10 DEF Arrived
    <2>2. /\ entry' = I!Received(o) /\ slips' = I!Note("outrun", I!Outrun(o))
          /\ slips \cap MailSlips = {} /\ ~I!Outrun(o)
          /\ "alike" \notin slips /\ "unsettled" \notin slips
      BY <2>1 DEF I!SendInvite, I!Note, I!Slip, MailSlips
    <2>3. /\ mail[p].pc # "done" => entry.seq <= meeting.updated
          /\ mail[p].pc = "done" => entry.seq >= meeting.updated /\ I!Agrees
      BY <2>1, <2>2 DEF MailsInv, Arrived
    <2>4. CASE p = o
      <3>1. I!Sequence(o) >= entry.seq /\ I!Sequence(o) >= meeting.updated
        BY <1>1, <1>4, <2>1, <2>3, <2>4, CalendarHas
      <3>2. /\ entry'.seq = I!Sequence(o)
            /\ entry'.start = IF o = "cancel" THEN I!None ELSE mail[o].start
        BY <1>1, <2>2, <3>1, CalendarHas
      <3>3. mail[o].start = meeting.start /\ (o = "cancel" <=> meeting.status = "cancelled")
        BY <2>1, <2>2, <2>4 DEF MailsInv, Numbered
      <3>4. (I!Agrees)'
        BY <1>1, <3>2, <3>3 DEF I!Agrees
      <3>5. QED
        BY <1>2, <2>4, <3>1, <3>2, <3>4
    <2>5. CASE p # o
      <3>1. mail[o].seq \in Nat /\ mail[o].seq < meeting.updated
        <4>1. mail[o].seq \in Nat /\ mail[o].seq # meeting.updated /\ mail[o].seq <= meeting.updated
          BY <1>1, <1>10, <2>1, <2>2, <2>5, CalendarHas DEF MailsInv, Ordered, Numbered
        <4>2. QED
          BY <1>4, <4>1
      <3>2. I!Sequence(o) = mail[o].seq
        BY <1>4, <2>2, <3>1 DEF I!Sequence, I!Outrun
      <3>3. mail'[p].pc = mail[p].pc
        BY <1>2, <2>1, <2>5 DEF Changed
      <3>4. CASE mail[p].pc = "done"
        <4>1. ~(I!Sequence(o) >= entry.seq)
          BY <1>4, <2>3, <3>1, <3>2, <3>4
        <4>2. entry' = entry
          BY <1>1, <2>2, <4>1, CalendarHas
        <4>3. QED
          BY <1>1, <2>3, <3>3, <3>4, <4>2 DEF I!Agrees
      <3>5. CASE mail[p].pc # "done"
        <4>1. entry'.seq = I!Sequence(o) \/ entry' = entry
          BY <1>1, <2>2, CalendarHas
        <4>2. QED
          BY <1>4, <2>3, <3>1, <3>2, <3>3, <3>5, <4>1
      <3>6. QED
        BY <3>4, <3>5
    <2>6. QED
      BY <2>4, <2>5
  <1>13. QED
    BY <1>8, <1>9, <1>11, <1>12 DEF MailsInv

\* The booker answers (Respond).
LEMMA RespondStep ==
    ASSUME Underway, NEW a \in I!Answers, I!Respond(a)
    PROVE  Underway'
  <1>1. /\ answered' = [n |-> answered.n + 1, answer |-> a] /\ replies' = replies \cup {answered'}
        /\ UNCHANGED <<inbound, rsvp, slips>>
    BY DEF I!Respond
  <1>2. answered.n \in Nat /\ answered' \in Reply /\ answered'.n = answered.n + 1
    BY <1>1 DEF Underway, Reply
  <1>3. \A p \in replies' :
           p \in Reply /\ p.n <= answered'.n /\ (p.n = answered'.n => p = answered')
    <2>1. \A p \in replies : p \in Reply /\ p.n \in Nat /\ p.n <= answered.n
      BY DEF Underway, Reply
    <2>2. QED
      BY <1>1, <1>2, <2>1
  <1>4. inbound.pc = "fetch" => inbound.n \in Nat /\ inbound.n <= answered.n
    BY DEF Underway, Reply
  <1>5. inbound'.pc = "fetch" => inbound'.n <= answered'.n /\ inbound'.n # answered'.n
    BY <1>1, <1>2, <1>4
  <1>6. answered' \in replies'
    BY <1>1
  <1>7. QED
    BY <1>1, <1>2, <1>3, <1>5, <1>6 DEF Underway

\* An answer is taken from the queue, or refused (InboundEmailResend).
LEMMA InboundStep ==
    ASSUME Underway, NEW r \in replies, I!InboundEmailResend(r)
    PROVE  Underway'
  <1>1. /\ replies' = replies \ {r} /\ UNCHANGED <<answered, rsvp>>
        /\ inbound.pc = "idle" /\ inbound = I!NoReply
    BY DEF I!InboundEmailResend, Underway
  <1>2. r \in Reply /\ r = [n |-> r.n, answer |-> r.answer]
    BY DEF Underway, Reply
  <1>3. r.n <= answered.n /\ (r.n = answered.n => r = answered)
    BY DEF Underway
  <1>4. CASE inbound' = [pc |-> "fetch", n |-> r.n, answer |-> r.answer] /\ UNCHANGED slips
    <2>1. /\ inbound'.pc = "fetch" /\ inbound'.n = r.n /\ inbound'.answer = r.answer
          /\ inbound' = [pc |-> "fetch", n |-> inbound'.n, answer |-> inbound'.answer]
      BY <1>4
    <2>2. slips \cap {"shuffled", "refused"} = {} => (rsvp = answered \/ answered \in replies)
      BY <1>1 DEF Underway
    <2>3. QED
      BY <1>1, <1>2, <1>3, <1>4, <2>1, <2>2 DEF Underway
  <1>5. CASE slips' = slips \cup {"refused"} /\ UNCHANGED inbound
    <2>1. ~(slips' \cap {"shuffled", "refused"} = {}) /\ inbound'.pc = "idle"
      BY <1>1, <1>5
    <2>2. QED
      BY <1>1, <1>5, <2>1 DEF Underway
  <1>6. QED
    BY <1>4, <1>5 DEF I!InboundEmailResend

\* An answer is given up, which counts as a refusal (GiveUp).
LEMMA GiveUpStep ==
    ASSUME Underway, NEW r \in replies, I!GiveUp(r)
    PROVE  Underway'
  <1>1. /\ replies' = replies \ {r} /\ slips' = slips \cup {"refused"}
        /\ UNCHANGED <<answered, inbound, rsvp>>
    BY DEF I!GiveUp, I!Slip
  <1>2. ~(slips' \cap {"shuffled", "refused"} = {})
    BY <1>1
  <1>3. QED
    BY <1>1, <1>2 DEF Underway

\* An answer that could not be fetched is under way again (FetchFails).
LEMMA FetchFailsStep ==
    ASSUME Underway, I!FetchFails
    PROVE  Underway'
  <1>1. /\ inbound.pc = "fetch" /\ inbound' = I!NoReply /\ inbound'.pc = "idle"
        /\ replies' = replies \cup {[n |-> inbound.n, answer |-> inbound.answer]}
        /\ UNCHANGED <<answered, rsvp, slips>>
    BY DEF I!FetchFails, I!NoReply
  <1>2. PICK r \in Reply : r = [n |-> inbound.n, answer |-> inbound.answer]
    BY <1>1 DEF Underway
  <1>3. r.n = inbound.n /\ r.answer = inbound.answer /\ replies' = replies \cup {r}
    BY <1>1, <1>2
  <1>4. r.n <= answered.n /\ (r.n = answered.n => r.answer = answered.answer)
    BY <1>1, <1>3 DEF Underway
  <1>5. r.n = answered.n => r = answered
    BY <1>4 DEF Underway, Reply
  <1>6. QED
    BY <1>1, <1>3, <1>4, <1>5 DEF Underway

\* An answer is recorded, and may be delivered again (recordRSVP).
LEMMA RecordStep ==
    ASSUME Underway, I!recordRSVP
    PROVE  Underway'
  <1>1. /\ inbound.pc = "fetch" /\ inbound' = I!NoReply /\ inbound'.pc = "idle"
        /\ rsvp' = [n |-> inbound.n, answer |-> inbound.answer]
        /\ I!Shuffled \subseteq slips' /\ UNCHANGED answered
        /\ replies' = replies
              \/ replies' = replies \cup {[n |-> inbound.n, answer |-> inbound.answer]}
    BY DEF I!recordRSVP, I!NoReply
  <1>2. rsvp' \in Reply /\ rsvp'.n = inbound.n /\ rsvp'.answer = inbound.answer
    BY <1>1 DEF Underway
  <1>3. inbound.n = answered.n => rsvp' = answered
    BY <1>1, <1>2 DEF Underway, Reply
  <1>4. inbound.n \in Nat /\ answered.n \in Nat /\ inbound.n <= answered.n
    BY <1>1 DEF Underway, Reply
  <1>5. slips' \cap {"shuffled", "refused"} = {} => (rsvp' = answered \/ answered \in replies)
    <2>1. SUFFICES ASSUME slips' \cap {"shuffled", "refused"} = {}, answered \notin replies,
                          inbound.n # answered.n
                   PROVE  FALSE
      BY <1>3
    <2>2. slips \cap {"shuffled", "refused"} = {} /\ ~(inbound.n < rsvp.n)
      BY <1>1, <2>1 DEF I!Shuffled, I!Note
    <2>3. rsvp = answered
      BY <2>1, <2>2 DEF Underway
    <2>4. QED
      BY <1>4, <2>1, <2>2, <2>3
  <1>6. /\ replies \subseteq replies' /\ replies' \subseteq Reply
        /\ \A p \in replies' : p.n <= answered.n /\ (p.n = answered.n => p = answered)
    BY <1>1, <1>2, <1>3, <1>4 DEF Underway
  <1>7. QED
    BY <1>1, <1>2, <1>5, <1>6 DEF Underway

\* Every step of Invitations keeps its invariant.
LEMMA InvitesStep == InvitesInv /\ [I!InvitationsNext]_iVars => InvitesInv'
  <1> SUFFICES ASSUME InvitesInv, [I!InvitationsNext]_iVars
               PROVE  InvitesInv'
    OBVIOUS
  <1> USE DEF InvitesInv
  <1>0. meeting.start \in I!Op
    BY DEF MailsInv, InvitesType
  <1>1. ASSUME NEW o \in Shifter, I!Reschedule(o)
        PROVE  InvitesInv'
    <2>1. o \in I!Op /\ o # "cancel"
      BY DEF I!Op
    <2>2. MailsInv'
      BY <1>1, <2>1, ChangeStep DEF I!Reschedule
    <2>3. Underway'
      BY <1>1, AnswersApart DEF I!Reschedule, I!Change, I!Rsvps, I!Slip, MailSlips
    <2>4. QED
      BY <2>2, <2>3
  <1>2. ASSUME NEW o \in Swapper, I!ReassignHost(o)
        PROVE  InvitesInv'
    <2>1. o \in I!Op /\ o # "cancel"
      BY DEF I!Op
    <2>2. PICK s \in I!Op : s = meeting.start
      BY <1>0
    <2>3. I!Change(o, "confirmed", s)
      BY <1>2, <2>2 DEF I!ReassignHost
    <2>4. MailsInv'
      BY <2>1, <2>3, ChangeStep
    <2>5. Underway'
      BY <2>3, AnswersApart DEF I!Change, I!Rsvps, I!Slip, MailSlips
    <2>6. QED
      BY <2>4, <2>5
  <1>3. CASE I!Cancel
    <2>1. PICK s \in I!Op : s = meeting.start
      BY <1>0
    <2>2. I!Change("cancel", "cancelled", s) /\ "cancel" \in I!Op
      BY <1>3, <2>1 DEF I!Cancel, I!Op
    <2>3. MailsInv'
      BY <2>2, ChangeStep
    <2>4. Underway'
      BY <2>2, AnswersApart DEF I!Change, I!Rsvps, I!Slip, MailSlips
    <2>5. QED
      BY <2>3, <2>4
  <1>4. ASSUME I!Tick \/ \E s \in {"rsvp", "office"} : I!ChangeSender(s)
        PROVE  InvitesInv'
    <2>1. sender \in {"rsvp", "office"}
      BY DEF MailsInv, InvitesType
    <2>2. MailsInv'
      BY <1>4, <2>1, ClockStep DEF I!Tick, I!ChangeSender
    <2>3. Underway'
      BY <1>4, AnswersApart DEF I!Tick, I!ChangeSender, I!Rsvps
    <2>4. QED
      BY <2>2, <2>3
  <1>5. ASSUME NEW o \in I!Op, I!LoadOrganizer(o) \/ I!FixOrganizer(o) \/ I!SendInvite(o)
        PROVE  InvitesInv'
    <2>1. MailsInv'
      BY <1>5, OrganizerStep, FixStep, SendStep
    <2>2. /\ UNCHANGED <<replies, answered, inbound, rsvp>>
          /\ slips \subseteq slips' /\ slips' \subseteq slips \cup MailSlips
      BY <1>5 DEF I!LoadOrganizer, I!FixOrganizer, I!SendInvite, I!Rsvps, I!Note, I!Slip, MailSlips
    <2>3. QED
      BY <2>1, <2>2, AnswersApart
  <1>6. ASSUME \/ \E a \in I!Answers : I!Respond(a)
               \/ \E r \in replies : I!InboundEmailResend(r) \/ I!GiveUp(r)
               \/ I!FetchFails \/ I!recordRSVP
        PROVE  InvitesInv'
    <2>1. Underway'
      BY <1>6, RespondStep, InboundStep, GiveUpStep, FetchFailsStep, RecordStep
    <2>2. /\ UNCHANGED <<clock, meeting, sender, mail, entry, signed>>
          /\ slips \subseteq slips' /\ slips' \subseteq slips \cup AnswerSlips
      BY <1>6 DEF I!Respond, I!InboundEmailResend, I!GiveUp, I!FetchFails, I!recordRSVP, I!Note,
                  I!Shuffled, I!Slip, AnswerSlips
    <2>3. QED
      BY <2>1, <2>2, MailsApart
  <1>7. CASE UNCHANGED iVars
    BY <1>7, MailsApart, AnswersApart DEF iVars
  <1>8. QED
    BY <1>1, <1>2, <1>3, <1>4, <1>5, <1>6, <1>7 DEF I!InvitationsNext

\* For any number of reschedules and reassignments, of mails that cross or are lost and of
\* answers: every invite names one organizer (bookingInviteOrganizer), the booker's calendar
\* has the booking's time once the mails have arrived (the SEQUENCE of BuildICS), and the
\* answer on the booking is the latest that was taken in its turn (InboundEmailResend).
THEOREM InvitesAgree == MeetingsSpec => []CalendarsAgree
  <1>1. MeetingsInit => InvitesInv
    <2> SUFFICES ASSUME I!InvitationsInit
                 PROVE  InvitesInv
      BY DEF MeetingsInit
    <2> DEFINE start == [pc |-> "read", start |-> "create", seq |-> 0, org |-> I!Nobody]
               wait == [pc |-> "idle", start |-> I!None, seq |-> 0, org |-> I!Nobody]
    <2>1. /\ mail = [o \in I!Op |-> IF o = "create" THEN start ELSE wait]
          /\ start \in MailRow /\ wait \in MailRow /\ "create" \in I!Op
      BY DEF I!InvitationsInit, I!Queued, MailRow, Organizer, I!Op, I!Nobody
    <2>2. mail \in [I!Op -> MailRow] /\ mail["create"] = start
      BY <2>1
    <2>3. Changed = {"create"}
      BY <2>1 DEF Changed
    <2>4. I!Nobody \in Organizer
      BY DEF Organizer, I!Nobody
    <2>5. InvitesType
      BY <2>1, <2>2, <2>4 DEF I!InvitationsInit, InvitesType
    <2>6. Organized
      BY <2>1 DEF I!InvitationsInit, Organized, Settled
    <2>7. Ordered /\ Numbered /\ Arrived
      BY <2>2, <2>3 DEF I!InvitationsInit, Ordered, Numbered, Arrived
    <2>8. Underway
      BY DEF I!InvitationsInit, Underway, Reply, I!NoReply
    <2>9. QED
      BY <2>5, <2>6, <2>7, <2>8 DEF InvitesInv, MailsInv
  <1>2. InvitesInv /\ [MeetingsNext]_meetingsVars => InvitesInv'
    <2>1. [MeetingsNext]_meetingsVars => [I!InvitationsNext]_iVars
      BY DEF MeetingsNext, meetingsVars, QuestionsMove, FollowupsMove, InvitesMove, RoomsMove,
             NotesMove
    <2>2. QED
      BY <2>1, InvitesStep
  <1>3. InvitesInv => CalendarsAgree
    <2> SUFFICES ASSUME InvitesInv
                 PROVE  CalendarsAgree
      OBVIOUS
    <2>1. I!OneOrganizer
      BY DEF InvitesInv, MailsInv, Organized, Settled, I!OneOrganizer
    <2>2. I!InvitesMayCross
      <3>1. SUFFICES ASSUME I!Mailed, slips \cap MailSlips = {}
                     PROVE  I!Agrees
        BY DEF I!InvitesMayCross, MailSlips
      <3>2. PICK o \in Changed : mail[o].seq = meeting.updated
        BY <3>1 DEF InvitesInv, MailsInv, Numbered, MailSlips
      <3>3. mail[o].pc = "done"
        BY <3>1, <3>2 DEF I!Mailed, Changed
      <3>4. QED
        BY <3>1, <3>2, <3>3 DEF InvitesInv, MailsInv, Arrived
    <2>3. I!RsvpIsLatest
      BY DEF InvitesInv, Underway, I!RsvpIsLatest, I!NoReply
    <2>4. QED
      BY <2>1, <2>2, <2>3 DEF CalendarsAgree
  <1>4. QED
    BY <1>1, <1>2, <1>3, PTL DEF MeetingsSpec

-----------------------------------------------------------------------------
(* Notetaker.                                                              *)

Jobs == Take \cup {N!Summarize}

Past == {"repeated", "gaveUp", "overtaken", "met"} \cup N!Unnoticed

NotesType ==
    /\ recording \in [Take -> {"none", "uploaded", "gone", "deleted"}]
    /\ enabled \in BOOLEAN
    /\ job \in [Jobs -> {"none", "pending", "running", "done"}]
    /\ transcripts \in [Take -> 0 .. 2]
    /\ notes \in [status: {"none", "complete", "empty"}, of: SUBSET Take]
    /\ worker \in [pc: {"idle", "load", "insert", "queue", "read", "write"}, of: SUBSET Take]
    /\ regenerate \in [pc: {"idle", "write"}, of: SUBSET Take]
    /\ deleting \in [pc: {"idle", "transcripts", "notes", "row"}, recording: Take \cup {"none"}]
    /\ history \subseteq Past

\* The worker is transcribing r.
Transcribing(r) == worker.pc \in {"load", "insert", "queue"} /\ worker.of = {r}

Summarizing == worker.pc \in {"read", "write"}

\* The job that runs is the one in the worker's hand; a recording that never ended has no
\* job and no transcript, and one that is being deleted has lost its file.
Working ==
    /\ worker.pc \in {"load", "insert", "queue"} => \E r \in Take : worker.of = {r}
    /\ \A r \in Take : job[r] = "running" <=> Transcribing(r)
    /\ job[N!Summarize] = "running" <=> Summarizing
    /\ worker.pc \in {"idle", "read"} => worker.of = {}
    /\ regenerate.pc = "idle" => regenerate.of = {}
    /\ \A r \in Take : recording[r] = "none" => job[r] = "none" /\ transcripts[r] = 0
    /\ deleting.pc # "idle" => deleting.recording \in Take
          /\ recording[deleting.recording] = "gone"

\* A transcription that is still to run has not been run before.
Once ==
    "repeated" \notin history =>
        \A r \in Take :
            /\ transcripts[r] <= 1
            /\ job[r] = "pending" \/ (worker.pc \in {"load", "insert"} /\ worker.of = {r}) =>
                  transcripts[r] = 0

\* Nothing is left of r, and nothing in hand can bring it back.
Cleared(r) ==
    /\ recording[r] \in {"gone", "deleted"}
    /\ transcripts[r] = 0 /\ ~N!Holding(r)

Erased ==
    history \cap {"met", "kept"} = {} =>
        /\ \A r \in Take : recording[r] = "deleted" => Cleared(r) /\ r \notin notes.of
        /\ deleting.pc \in {"notes", "row"} => Cleared(deleting.recording)
        /\ deleting.pc = "row" => deleting.recording \notin notes.of

Due(j) == job[j] \in {"pending", "running"}

\* A transcript that is not in the notes is going to be: its own job or the summary is due.
Covered ==
    history \cap ({"gaveUp", "overtaken", "met"} \cup N!Unnoticed) = {} =>
        /\ worker.pc = "write" => N!Transcribed \subseteq worker.of
        /\ notes.status = "complete" =>
              \A r \in N!Transcribed \ notes.of : Due(r) \/ Due(N!Summarize)

NotesInv == NotesType /\ Working /\ Once /\ Erased /\ Covered

USE TakeAssumption DEF N!Summarize, N!Unnoticed, Past

\* The settings change.
LEMMA PatchStep ==
    ASSUME NotesInv, N!PatchNotetakerSettings
    PROVE  NotesInv'
  <1>1. /\ enabled' = ~enabled
        /\ UNCHANGED <<recording, job, transcripts, notes, worker, regenerate, deleting, failures,
                       history>>
    BY DEF N!PatchNotetakerSettings, N!Records
  <1>2. NotesType' /\ Working' /\ Once'
    BY <1>1 DEF NotesInv, NotesType, Working, Transcribing, Summarizing, Once
  <1>3. Erased' /\ Covered'
    BY <1>1 DEF NotesInv, Erased, Cleared, N!Holding, Covered, N!Transcribed, Due
  <1>4. QED
    BY <1>2, <1>3 DEF NotesInv

\* A recording ends.
LEMMA BeginStep ==
    ASSUME NotesInv, NEW r \in Take, N!maybeStartNotetaker(r)
    PROVE  NotesInv'
  <1>1. PICK s \in {"none", "pending", "running", "done"} :
           /\ job' = [job EXCEPT ![r] = s]
           /\ s = "pending" \/ s = job[r]
           /\ job[r] = "running" => s = "running"
    BY DEF N!maybeStartNotetaker, N!Enqueued, NotesInv, NotesType, Jobs
  <1>2. /\ recording[r] \in {"none", "uploaded"}
        /\ recording' = [recording EXCEPT ![r] = "uploaded"]
        /\ history' = IF recording[r] # "none" THEN history \cup {"repeated"} ELSE history
        /\ UNCHANGED <<enabled, transcripts, notes, worker, regenerate, deleting>>
    BY DEF N!maybeStartNotetaker, N!Happened, N!None, N!Records
  <1>3. NotesType'
    BY <1>1, <1>2 DEF NotesInv, NotesType, Jobs
  <1>4. /\ job'[r] = s /\ \A j \in Jobs \ {r} : job'[j] = job[j]
        /\ recording'[r] = "uploaded" /\ \A q \in Take \ {r} : recording'[q] = recording[q]
        /\ history \subseteq history' /\ history' \subseteq history \cup {"repeated"}
        /\ "repeated" \notin history' => recording[r] = "none"
    BY <1>1, <1>2 DEF NotesInv, NotesType, Jobs
  <1>5. Working'
    BY <1>1, <1>2, <1>4 DEF NotesInv, Working, Transcribing, Summarizing, Jobs
  <1>6. Once'
    BY <1>1, <1>2, <1>4 DEF NotesInv, NotesType, Working, Once, Jobs
  <1>7. Erased'
    BY <1>2, <1>4 DEF NotesInv, NotesType, Working, Erased, Cleared, N!Holding
  <1>8. Covered'
    BY <1>1, <1>2, <1>4 DEF NotesInv, NotesType, Covered, N!Transcribed, Due, Jobs
  <1>9. QED
    BY <1>3, <1>5, <1>6, <1>7, <1>8 DEF NotesInv

\* The worker takes a job.
LEMMA ClaimStep ==
    ASSUME NotesInv, NEW j \in Jobs, N!Claim(j)
    PROVE  NotesInv'
  <1>1. /\ worker.pc = "idle" /\ job[j] = "pending" /\ job' = [job EXCEPT ![j] = "running"]
        /\ j = N!Summarize => worker' = [pc |-> "read", of |-> {}]
        /\ j # N!Summarize => worker' = [pc |-> "load", of |-> {j}]
        /\ UNCHANGED <<recording, enabled, transcripts, notes, regenerate, deleting, failures,
                       history>>
    BY DEF N!Claim, N!Records
  <1>2. NotesType'
    BY <1>1 DEF NotesInv, NotesType, Jobs
  <1>3. /\ job'[j] = "running" /\ \A i \in Jobs \ {j} : job'[i] = job[i]
        /\ worker'.pc \in {"read", "load"}
        /\ worker'.pc = "read" <=> j = N!Summarize
        /\ worker'.pc = "read" => worker'.of = {}
        /\ worker'.pc = "load" => worker'.of = {j}
    BY <1>1 DEF NotesInv, NotesType, Jobs
  <1>4. Working'
    BY <1>1, <1>3 DEF NotesInv, Working, Transcribing, Summarizing, Jobs
  <1>5. Once'
    BY <1>1, <1>3 DEF NotesInv, Once, Jobs
  <1>6. Erased'
    BY <1>1, <1>3 DEF NotesInv, Erased, Cleared, N!Holding
  <1>7. Covered'
    BY <1>1, <1>3 DEF NotesInv, Covered, N!Transcribed, Due, Jobs
  <1>8. QED
    BY <1>2, <1>4, <1>5, <1>6, <1>7 DEF NotesInv

\* The job in the worker's hand ends, is put back or fails for good, and nothing else changes
\* but what is known of its failure.
LEMMA ReturnStep ==
    ASSUME NotesInv, NEW j \in Jobs, NEW s \in {"pending", "done"},
           worker.pc \notin {"idle", "queue"}, job[j] = "running",
           job' = [job EXCEPT ![j] = s], worker' = N!Resting,
           history \subseteq history', history' \subseteq history \cup {"gaveUp", "unread"},
           s = "done" /\ history' \cap {"gaveUp", "unread"} = {} =>
              IF j = N!Summarize THEN N!Transcribed = {}
              ELSE "met" \in history \/ "kept" \in history \/ transcripts[j] = 0,
           UNCHANGED <<recording, enabled, transcripts, notes, regenerate, deleting>>
    PROVE  NotesInv'
  <1>1. NotesType'
    BY DEF NotesInv, NotesType, Jobs, N!Resting
  <1>2. /\ job'[j] = s /\ \A i \in Jobs \ {j} : job'[i] = job[i]
        /\ worker'.pc = "idle" /\ worker'.of = {}
    BY DEF NotesInv, NotesType, Jobs, N!Resting
  <1>3. \A r \in Take : job[r] = "running" => r = j
    BY DEF NotesInv, Working, Transcribing, Summarizing, Jobs
  <1>4. j # N!Summarize => job[N!Summarize] # "running"
    BY DEF NotesInv, Working, Transcribing, Summarizing, Jobs
  <1>5. Working'
    BY <1>2, <1>3, <1>4 DEF NotesInv, Working, Transcribing, Summarizing, Jobs
  <1>6. Once'
    <2>1. j \in Take => worker.pc \in {"load", "insert"} /\ worker.of = {j}
      BY DEF NotesInv, Working, Transcribing
    <2>2. QED
      BY <1>2, <2>1 DEF NotesInv, Once, Jobs
  <1>7. Erased'
    BY <1>2 DEF NotesInv, Erased, Cleared, N!Holding
  <1>8. Covered'
    BY <1>2 DEF NotesInv, NotesType, Covered, N!Transcribed, Due, Jobs
  <1>9. QED
    BY <1>1, <1>5, <1>6, <1>7, <1>8 DEF NotesInv

\* A job that fails runs again, or has given up.
LEMMA RetryStep ==
    ASSUME NotesInv, NEW j \in Jobs, N!Retry(j),
           worker.pc \notin {"idle", "queue"}, job[j] = "running",
           UNCHANGED <<recording, enabled, transcripts, notes, regenerate, deleting>>
    PROVE  NotesInv'
  <1>1. PICK s \in {"pending", "done"} :
           /\ job' = [job EXCEPT ![j] = s]
           /\ history' = IF s = "done" THEN history \cup {"gaveUp"} ELSE history
    BY DEF N!Retry, N!Happened, N!Finished
  <1>2. worker' = N!Resting
    BY DEF N!Retry
  <1>3. QED
    BY <1>1, <1>2, ReturnStep

\* A transcription is loaded.
LEMMA LoadStep ==
    ASSUME NotesInv, NEW r \in Take, N!LoadRecording(r)
    PROVE  NotesInv'
  <1>1. /\ worker.pc = "load" /\ worker.of = {r} /\ job[r] = "running" /\ r \in Jobs
        /\ UNCHANGED <<recording, enabled, transcripts, notes, regenerate, deleting>>
    BY DEF N!LoadRecording, N!Records, NotesInv, Working, Transcribing, Jobs
  <1>2. ASSUME recording[r] \in {"none", "deleted"}, N!Done(r), UNCHANGED history
        PROVE  NotesInv'
    <2>1. "met" \in history \/ "kept" \in history \/ transcripts[r] = 0
      BY <1>2 DEF NotesInv, Working, Erased, Cleared
    <2>2. QED
      BY <1>1, <1>2, <2>1, ReturnStep DEF N!Done, N!Finished
  <1>3. ASSUME recording[r] = "uploaded", worker' = [worker EXCEPT !.pc = "insert"],
               UNCHANGED <<job, history>>
        PROVE  NotesInv'
    <2>1. NotesType' /\ worker'.pc = "insert" /\ worker'.of = {r}
      BY <1>1, <1>3 DEF NotesInv, NotesType
    <2>2. Working'
      BY <1>1, <1>3, <2>1 DEF NotesInv, Working, Transcribing, Summarizing
    <2>3. Once'
      BY <1>1, <1>3, <2>1 DEF NotesInv, Once
    <2>4. Erased'
      BY <1>1, <1>3, <2>1 DEF NotesInv, Working, Erased, Cleared, N!Holding
    <2>5. Covered'
      BY <1>1, <1>3, <2>1 DEF NotesInv, Covered, N!Transcribed, Due
    <2>6. QED
      BY <2>1, <2>2, <2>3, <2>4, <2>5 DEF NotesInv
  <1>4. ASSUME N!Retry(r)
        PROVE  NotesInv'
    BY <1>1, <1>4, RetryStep
  <1>5. ASSUME N!Done(r), N!Happened("gaveUp", TRUE)
        PROVE  NotesInv'
    BY <1>1, <1>5, ReturnStep DEF N!Done, N!Finished, N!Happened
  <1>6. QED
    BY <1>2, <1>3, <1>4, <1>5 DEF N!LoadRecording, N!None

\* Its transcript is stored.
LEMMA InsertStep ==
    ASSUME NotesInv, NEW r \in Take, N!InsertTranscript(r)
    PROVE  NotesInv'
  <1> DEFINE n == IF transcripts[r] = 2 THEN 2 ELSE transcripts[r] + 1
  <1>0. /\ worker.pc = "insert" /\ worker.of = {r} /\ job[r] = "running" /\ r \in Jobs
        /\ UNCHANGED <<recording, enabled, notes, regenerate, deleting>>
    BY DEF N!InsertTranscript, NotesInv, Working, Transcribing, Jobs
  <1>1. CASE N!Retry(r) /\ UNCHANGED transcripts
    BY <1>0, <1>1, RetryStep
  <1>2. CASE /\ transcripts' = [transcripts EXCEPT ![r] = n]
             /\ worker' = [worker EXCEPT !.pc = "queue"]
             /\ UNCHANGED <<job, history>>
    <2>1. n \in 0 .. 2 /\ (transcripts[r] = 0 => n = 1)
      BY DEF NotesInv, NotesType
    <2> HIDE DEF n
    <2>2. NotesType' /\ worker'.pc = "queue" /\ worker'.of = {r}
      BY <1>0, <1>2, <2>1 DEF NotesInv, NotesType
    <2>3. transcripts'[r] = n /\ \A q \in Take \ {r} : transcripts'[q] = transcripts[q]
      BY <1>2 DEF NotesInv, NotesType
    <2>4. Working'
      BY <1>0, <1>2, <2>2, <2>3 DEF NotesInv, Working, Transcribing, Summarizing
    <2>5. Once'
      BY <1>0, <1>2, <2>1, <2>2, <2>3 DEF NotesInv, Once
    <2>6. Erased'
      BY <1>0, <1>2, <2>2, <2>3 DEF NotesInv, NotesType, Working, Erased, Cleared, N!Holding
    <2>7. Covered'
      BY <1>0, <1>2, <2>2, <2>3 DEF NotesInv, NotesType, Covered, N!Transcribed, Due
    <2>8. QED
      BY <2>2, <2>4, <2>5, <2>6, <2>7 DEF NotesInv
  <1>3. QED
    BY <1>1, <1>2 DEF N!InsertTranscript

\* The summary is queued, or is not, which a log tells.
LEMMA QueueStep ==
    ASSUME NotesInv, NEW r \in Take, N!QueueSummary(r)
    PROVE  NotesInv'
  <1>1. /\ worker.pc = "queue" /\ worker.of = {r} /\ worker' = N!Resting
        /\ UNCHANGED <<recording, enabled, transcripts, notes, regenerate, deleting>>
        /\ history \subseteq history' /\ history' \subseteq history \cup {"unqueued"}
    BY DEF N!QueueSummary, N!Happened, N!Records
  <1>2. /\ job[r] = "running" /\ recording[r] # "none"
        /\ job[N!Summarize] \in {"none", "pending", "done"}
    BY <1>1 DEF NotesInv, NotesType, Working, Transcribing, Summarizing, Jobs
  <1>3. PICK s \in {"none", "pending", "done"} :
           /\ job' = [job EXCEPT ![N!Summarize] = s, ![r] = "done"]
           /\ s = "pending" \/ "unqueued" \in history'
    <2>1. CASE job' = [job EXCEPT ![N!Summarize] = N!Enqueued(N!Summarize), ![r] = "done"]
      BY <1>2, <2>1 DEF N!Enqueued
    <2>2. CASE job' = [job EXCEPT ![r] = "done"] /\ history' = history \cup {"unqueued"}
      <3>1. job' = [job EXCEPT ![N!Summarize] = job[N!Summarize], ![r] = "done"]
        BY <2>2 DEF NotesInv, NotesType
      <3>2. QED
        BY <1>2, <2>2, <3>1
    <2>3. QED
      BY <2>1, <2>2 DEF N!QueueSummary, N!Finished, N!Happened
  <1>4. /\ job'[r] = "done" /\ job'[N!Summarize] = s
        /\ \A q \in Take \ {r} : job'[q] = job[q]
        /\ worker'.pc = "idle" /\ worker'.of = {}
    BY <1>1, <1>3 DEF NotesInv, NotesType, Jobs, N!Resting
  <1>5. NotesType'
    BY <1>1, <1>3 DEF NotesInv, NotesType, Jobs, N!Resting
  <1>6. Working'
    BY <1>1, <1>2, <1>4 DEF NotesInv, Working, Transcribing, Summarizing
  <1>7. Once'
    BY <1>1, <1>4 DEF NotesInv, Once
  <1>8. Erased'
    BY <1>1, <1>4 DEF NotesInv, Erased, Cleared, N!Holding
  <1>9. Covered'
    BY <1>1, <1>3, <1>4 DEF NotesInv, Covered, N!Transcribed, Due
  <1>10. QED
    BY <1>5, <1>6, <1>7, <1>8, <1>9 DEF NotesInv

\* A summary is begun, of all the transcripts or of those that the query returned.
LEMMA ReadStep ==
    ASSUME NotesInv, N!ReadTranscripts
    PROVE  NotesInv'
  <1>1. /\ worker.pc = "read" /\ job[N!Summarize] = "running" /\ N!Summarize \in Jobs
        /\ UNCHANGED <<recording, enabled, transcripts, notes, regenerate, deleting>>
    BY DEF N!ReadTranscripts, N!Records, NotesInv, Working, Summarizing, Jobs
  <1>2. ASSUME N!Returned({}), N!Done(N!Summarize)
        PROVE  NotesInv'
    <2>1. /\ N!Transcribed = {} \/ "unread" \in history'
          /\ history \subseteq history' /\ history' \subseteq history \cup {"unread"}
      BY <1>2 DEF N!Returned, N!Happened
    <2>2. QED
      BY <1>1, <1>2, <2>1, ReturnStep DEF N!Done, N!Finished
  <1>3. ASSUME N!Done(N!Summarize), N!Happened("gaveUp", TRUE)
        PROVE  NotesInv'
    BY <1>1, <1>3, ReturnStep DEF N!Done, N!Finished, N!Happened
  <1>4. ASSUME NEW of \in SUBSET Take, N!Returned(of),
               worker' = [pc |-> "write", of |-> of], UNCHANGED job
        PROVE  NotesInv'
    <2>1. /\ of \subseteq N!Transcribed /\ (of = N!Transcribed \/ "unread" \in history')
          /\ history \subseteq history' /\ history' \subseteq history \cup {"unread"}
      BY <1>4 DEF N!Returned, N!Happened
    <2>2. /\ NotesType' /\ worker'.pc = "write" /\ worker'.of = of
          /\ N!Transcribed' = N!Transcribed
      BY <1>1, <1>4, <2>1 DEF NotesInv, NotesType, N!Transcribed
    <2>3. Working'
      BY <1>1, <1>4, <2>2 DEF NotesInv, Working, Transcribing, Summarizing
    <2>4. Once'
      BY <1>1, <1>4, <2>1, <2>2 DEF NotesInv, Once
    <2>5. Erased'
      BY <1>1, <1>4, <2>1, <2>2
         DEF NotesInv, NotesType, Erased, Cleared, N!Holding, N!Transcribed
    <2>6. Covered'
      BY <1>1, <1>4, <2>1, <2>2 DEF NotesInv, Covered, Due
    <2>7. QED
      BY <2>2, <2>3, <2>4, <2>5, <2>6 DEF NotesInv
  <1>5. ASSUME N!Retry(N!Summarize)
        PROVE  NotesInv'
    BY <1>1, <1>5, RetryStep
  <1>6. QED
    BY <1>2, <1>3, <1>4, <1>5 DEF N!ReadTranscripts

\* What a summary writes, of transcripts that the writer had in hand.
LEMMA NotesWritten ==
    ASSUME NotesInv, NEW of \in SUBSET Take, N!Write(of),
           \A r \in of : N!Holding(r), UNCHANGED <<recording, transcripts>>
    PROVE  /\ notes' \in [status: {"none", "complete", "empty"}, of: SUBSET Take]
           /\ history \subseteq history'
           /\ history' \subseteq history \cup {"overtaken", "unwritten"}
           /\ \A r \in Take : ~N!Holding(r) /\ r \notin notes.of => r \notin notes'.of
           /\ notes'.status = "complete" /\ history' \cap {"overtaken", "unwritten"} = {} =>
                 N!Transcribed \subseteq notes'.of
  <1>1. notes.of \subseteq Take /\ notes.status \in {"none", "complete", "empty"}
    BY DEF NotesInv, NotesType
  <1>2. CASE UNCHANGED notes /\ history' = history \cup {"unwritten"}
    BY <1>2 DEF NotesInv, NotesType
  <1>3. CASE /\ notes' = [status |-> "empty", of |-> notes.of]
             /\ N!Happened("overtaken", N!Overtaken(of))
    BY <1>1, <1>3 DEF N!Happened
  <1>4. CASE /\ notes' = [status |-> "complete", of |-> of]
             /\ N!Happened("overtaken", N!Overtaken(of))
    BY <1>4 DEF N!Happened, N!Overtaken
  <1>5. QED
    BY <1>2, <1>3, <1>4 DEF N!Write, N!Happened

\* The worker writes the notes.
LEMMA WriteStep ==
    ASSUME NotesInv, N!WriteNotes
    PROVE  NotesInv'
  <1>1. /\ worker.pc = "write" /\ job[N!Summarize] = "running" /\ N!Summarize \in Jobs
        /\ UNCHANGED <<recording, enabled, transcripts, regenerate, deleting>>
    BY DEF N!WriteNotes, NotesInv, Working, Summarizing, Jobs
  <1>2. ASSUME N!Write(worker.of), N!Done(N!Summarize)
        PROVE  NotesInv'
    <2>1. PICK of \in SUBSET Take : of = worker.of
      BY DEF NotesInv, NotesType
    <2>2. \A r \in of : N!Holding(r)
      BY <1>1, <2>1 DEF N!Holding
    <2>3. /\ notes' \in [status: {"none", "complete", "empty"}, of: SUBSET Take]
          /\ history \subseteq history'
          /\ history' \subseteq history \cup {"overtaken", "unwritten"}
          /\ \A r \in Take : ~N!Holding(r) /\ r \notin notes.of => r \notin notes'.of
          /\ notes'.status = "complete" /\ history' \cap {"overtaken", "unwritten"} = {} =>
                N!Transcribed \subseteq notes'.of
      BY <1>1, <1>2, <2>1, <2>2, NotesWritten
    <2>4. /\ job' = [job EXCEPT ![N!Summarize] = "done"] /\ worker' = [pc |-> "idle", of |-> {}]
      BY <1>2 DEF N!Done, N!Finished, N!Resting
    <2>5. /\ job'[N!Summarize] = "done" /\ \A r \in Take : job'[r] = job[r]
          /\ worker'.pc = "idle" /\ worker'.of = {}
      BY <2>4 DEF NotesInv, NotesType, Jobs
    <2>6. NotesType'
      BY <1>1, <2>3, <2>4 DEF NotesInv, NotesType, Jobs
    <2>7. Working'
      BY <1>1, <2>5 DEF NotesInv, Working, Transcribing, Summarizing
    <2>8. Once'
      BY <1>1, <2>3, <2>5 DEF NotesInv, Once
    <2>9. Erased'
      BY <1>1, <2>3, <2>5 DEF NotesInv, Working, Erased, Cleared, N!Holding
    <2>10. Covered'
      BY <1>1, <2>3, <2>5 DEF NotesInv, Covered, N!Transcribed
    <2>11. QED
      BY <2>6, <2>7, <2>8, <2>9, <2>10 DEF NotesInv
  <1>3. ASSUME N!Retry(N!Summarize), UNCHANGED notes
        PROVE  NotesInv'
    BY <1>1, <1>3, RetryStep
  <1>4. QED
    BY <1>2, <1>3 DEF N!WriteNotes

\* An admin asks for the notes...
LEMMA AskStep ==
    ASSUME NotesInv, N!RegenerateBookingNotes
    PROVE  NotesInv'
  <1>1. PICK of \in SUBSET Take :
           /\ of \subseteq N!Transcribed /\ regenerate' = [pc |-> "write", of |-> of]
           /\ history \subseteq history' /\ history' \subseteq history \cup {"unread"}
           /\ UNCHANGED <<recording, enabled, job, transcripts, notes, worker, deleting>>
    BY DEF N!RegenerateBookingNotes, N!Records, N!Returned, N!Happened
  <1>2. NotesType' /\ Working' /\ Once'
    BY <1>1
       DEF NotesInv, NotesType, Working, Transcribing, Summarizing, Once, N!Transcribed
  <1>3. Erased'
    BY <1>1 DEF NotesInv, NotesType, Working, Erased, Cleared, N!Holding, N!Transcribed
  <1>4. Covered'
    BY <1>1 DEF NotesInv, Covered, N!Transcribed, Due
  <1>5. QED
    BY <1>2, <1>3, <1>4 DEF NotesInv

\* ... and they are written, or not.
LEMMA RegenerateStep ==
    ASSUME NotesInv, N!RegenerateWrites
    PROVE  NotesInv'
  <1>1. /\ regenerate.pc = "write" /\ regenerate' = [pc |-> "idle", of |-> {}]
        /\ UNCHANGED <<recording, enabled, job, transcripts, worker, deleting>>
    BY DEF N!RegenerateWrites, N!Resting
  <1>2. PICK of \in SUBSET Take : of = regenerate.of
    BY DEF NotesInv, NotesType
  <1>3. /\ notes' \in [status: {"none", "complete", "empty"}, of: SUBSET Take]
        /\ history \subseteq history'
        /\ history' \subseteq history \cup {"overtaken", "unwritten"}
        /\ \A r \in Take : ~N!Holding(r) /\ r \notin notes.of => r \notin notes'.of
        /\ \/ notes' = notes
           \/ notes'.status = "complete" /\ history' \cap {"overtaken", "unwritten"} = {} =>
                 N!Transcribed \subseteq notes'.of
    <2>1. CASE UNCHANGED <<notes, history>>
      BY <2>1 DEF NotesInv, NotesType
    <2>2. CASE N!Write(regenerate.of)
      <3>1. \A r \in of : N!Holding(r)
        BY <1>1, <1>2 DEF N!Holding
      <3>2. QED
        BY <1>1, <1>2, <2>2, <3>1, NotesWritten
    <2>3. QED
      BY <2>1, <2>2 DEF N!RegenerateWrites
  <1>4. NotesType'
    BY <1>1, <1>3 DEF NotesInv, NotesType
  <1>5. Working' /\ Once'
    BY <1>1, <1>3 DEF NotesInv, Working, Transcribing, Summarizing, Once
  <1>6. Erased'
    BY <1>1, <1>3 DEF NotesInv, Working, Erased, Cleared, N!Holding
  <1>7. Covered'
    BY <1>1, <1>3 DEF NotesInv, Covered, N!Transcribed, Due
  <1>8. QED
    BY <1>4, <1>5, <1>6, <1>7 DEF NotesInv

\* A deletion begins with the file...
LEMMA TakeFileStep ==
    ASSUME NotesInv, NEW r \in Take, N!DeleteFile(r)
    PROVE  NotesInv'
  <1>1. /\ deleting.pc = "idle" /\ recording[r] \in {"uploaded", "gone"}
        /\ recording' = [recording EXCEPT ![r] = "gone"]
        /\ deleting' \in {deleting, [pc |-> "transcripts", recording |-> r]}
        /\ UNCHANGED <<enabled, job, transcripts, notes, worker, regenerate, history>>
    BY DEF N!DeleteFile, N!Records
  <1>2. /\ NotesType'
        /\ recording'[r] = "gone" /\ \A q \in Take \ {r} : recording'[q] = recording[q]
        /\ \/ deleting'.pc = "transcripts" /\ deleting'.recording = r
           \/ deleting' = deleting
    BY <1>1 DEF NotesInv, NotesType
  <1>3. Working'
    BY <1>1, <1>2 DEF NotesInv, Working, Transcribing, Summarizing
  <1>4. Once' /\ Covered'
    BY <1>1 DEF NotesInv, Once, Covered, N!Transcribed, Due
  <1>5. Erased'
    BY <1>1, <1>2 DEF NotesInv, Erased, Cleared, N!Holding
  <1>6. QED
    BY <1>2, <1>3, <1>4, <1>5 DEF NotesInv

\* ... goes on with the transcripts...
LEMMA TakeTranscriptsStep ==
    ASSUME NotesInv, N!DeleteTranscripts
    PROVE  NotesInv'
  <1>1. PICK r \in Take : deleting.recording = r /\ recording[r] = "gone"
    BY DEF N!DeleteTranscripts, NotesInv, Working
  <1>2. /\ deleting.pc = "transcripts" /\ deleting' = [deleting EXCEPT !.pc = "notes"]
        /\ \/ /\ transcripts' = [transcripts EXCEPT ![r] = 0]
              /\ history' = IF N!Holding(r) THEN history \cup {"met"} ELSE history
           \/ transcripts' = transcripts /\ history' = history \cup {"kept"}
        /\ UNCHANGED <<recording, enabled, job, notes, worker, regenerate>>
    BY <1>1 DEF N!DeleteTranscripts, N!Happened
  <1>3. /\ NotesType'
        /\ \A q \in Take \ {r} : transcripts'[q] = transcripts[q]
        /\ transcripts'[r] = 0 \/ (transcripts'[r] = transcripts[r] /\ "kept" \in history')
        /\ deleting'.pc = "notes" /\ deleting'.recording = r
        /\ history \subseteq history'
        /\ history' \cap {"met", "kept"} = {} => ~N!Holding(r)
        /\ "repeated" \in history' => "repeated" \in history
    BY <1>1, <1>2 DEF NotesInv, NotesType
  <1>4. Working'
    BY <1>1, <1>2, <1>3 DEF NotesInv, Working, Transcribing, Summarizing
  <1>5. Once'
    BY <1>2, <1>3 DEF NotesInv, NotesType, Once
  <1>6. Erased'
    BY <1>1, <1>2, <1>3 DEF NotesInv, Erased, Cleared, N!Holding
  <1>7. Covered'
    <2>1. N!Transcribed' \subseteq N!Transcribed
      BY <1>3 DEF NotesInv, NotesType, N!Transcribed
    <2>2. QED
      BY <1>2, <1>3, <2>1 DEF NotesInv, Covered, Due
  <1>8. QED
    BY <1>3, <1>4, <1>5, <1>6, <1>7 DEF NotesInv

\* ... and the notes...
LEMMA TakeNotesStep ==
    ASSUME NotesInv, N!DeleteNotes
    PROVE  NotesInv'
  <1>1. PICK r \in Take : deleting.recording = r /\ recording[r] = "gone"
    BY DEF N!DeleteNotes, NotesInv, Working
  <1>2. /\ deleting.pc = "notes" /\ deleting' = [deleting EXCEPT !.pc = "row"]
        /\ \/ /\ notes' = [status |-> "none", of |-> {}]
              /\ history' = IF N!Holding(r) THEN history \cup {"met"} ELSE history
           \/ notes' = notes /\ history' = history \cup {"kept"}
        /\ UNCHANGED <<recording, enabled, job, transcripts, worker, regenerate>>
    BY <1>1 DEF N!DeleteNotes, N!Happened, N!None
  <1>3. /\ NotesType'
        /\ \/ notes'.of = {} /\ notes'.status = "none"
           \/ notes' = notes /\ "kept" \in history'
        /\ deleting'.pc = "row" /\ deleting'.recording = r
        /\ history \subseteq history'
        /\ "repeated" \in history' => "repeated" \in history
    BY <1>1, <1>2 DEF NotesInv, NotesType
  <1>4. Working'
    BY <1>1, <1>2, <1>3 DEF NotesInv, Working, Transcribing, Summarizing
  <1>5. Once'
    BY <1>2, <1>3 DEF NotesInv, Once
  <1>6. Erased'
    BY <1>1, <1>2, <1>3 DEF NotesInv, Erased, Cleared, N!Holding
  <1>7. Covered'
    BY <1>2, <1>3 DEF NotesInv, Covered, N!Transcribed, Due
  <1>8. QED
    BY <1>3, <1>4, <1>5, <1>6, <1>7 DEF NotesInv

\* ... and ends with the row.
LEMMA TakeRowStep ==
    ASSUME NotesInv, N!DeleteRow
    PROVE  NotesInv'
  <1>1. PICK r \in Take : deleting.recording = r /\ recording[r] = "gone"
    BY DEF N!DeleteRow, NotesInv, Working
  <1>2. /\ deleting.pc = "row"
        /\ recording' = [recording EXCEPT ![r] = "deleted"] \/ recording' = recording
        /\ deleting' = [pc |-> "idle", recording |-> "none"]
        /\ UNCHANGED <<enabled, job, transcripts, notes, worker, regenerate, history>>
    BY <1>1 DEF N!DeleteRow, N!Records, N!None
  <1>3. /\ NotesType'
        /\ recording'[r] \in {"gone", "deleted"}
        /\ \A q \in Take \ {r} : recording'[q] = recording[q]
        /\ deleting'.pc = "idle"
    BY <1>1, <1>2 DEF NotesInv, NotesType
  <1>4. Working'
    BY <1>1, <1>2, <1>3 DEF NotesInv, Working, Transcribing, Summarizing
  <1>5. Once' /\ Covered'
    BY <1>2 DEF NotesInv, Once, Covered, N!Transcribed, Due
  <1>6. Erased'
    BY <1>1, <1>2, <1>3 DEF NotesInv, Erased, Cleared, N!Holding
  <1>7. QED
    BY <1>3, <1>4, <1>5, <1>6 DEF NotesInv

\* The process stops: a transcription that was stored and not yet done runs again.
LEMMA StopsStep ==
    ASSUME NotesInv, N!Crash
    PROVE  NotesInv'
  <1>1. /\ job' = [j \in Jobs |-> IF job[j] = "running" THEN "pending" ELSE job[j]]
        /\ worker' = [pc |-> "idle", of |-> {}] /\ regenerate' = [pc |-> "idle", of |-> {}]
        /\ deleting' = [pc |-> "idle", recording |-> "none"]
        /\ history' = IF worker.pc = "queue" THEN history \cup {"repeated"} ELSE history
        /\ UNCHANGED <<recording, enabled, transcripts, notes>>
    <2>1. DOMAIN job = Jobs
      BY DEF NotesInv, NotesType
    <2>2. QED
      BY <2>1 DEF N!Crash, N!Resting, N!None, N!Happened, N!Records
  <1>2. /\ NotesType' /\ worker'.pc = "idle" /\ regenerate'.pc = "idle" /\ deleting'.pc = "idle"
        /\ worker'.of = {} /\ regenerate'.of = {}
        /\ history \subseteq history' /\ history' \subseteq history \cup {"repeated"}
        /\ "repeated" \notin history' => worker.pc # "queue"
        /\ \A j \in Jobs : job'[j] = IF job[j] = "running" THEN "pending" ELSE job[j]
    BY <1>1 DEF NotesInv, NotesType
  <1>3. Working'
    BY <1>1, <1>2 DEF NotesInv, Working, Transcribing, Summarizing, Jobs
  <1>4. Once'
    BY <1>1, <1>2 DEF NotesInv, Working, Transcribing, Once, Jobs
  <1>5. Erased'
    BY <1>1, <1>2 DEF NotesInv, Erased, Cleared, N!Holding
  <1>6. Covered'
    BY <1>1, <1>2 DEF NotesInv, NotesType, Covered, N!Transcribed, Due, Jobs
  <1>7. QED
    BY <1>2, <1>3, <1>4, <1>5, <1>6 DEF NotesInv

\* Every step of the notetaker keeps the invariant.
LEMMA NotesStep == NotesInv /\ [N!NotetakerNext]_nVars => NotesInv'
  <1> SUFFICES ASSUME NotesInv, [N!NotetakerNext]_nVars
               PROVE  NotesInv'
    OBVIOUS
  <1>1. CASE UNCHANGED nVars
    <2>1. NotesType' /\ Working' /\ Once'
      BY <1>1 DEF NotesInv, nVars, NotesType, Working, Transcribing, Summarizing, Once
    <2>2. Erased' /\ Covered'
      BY <1>1 DEF NotesInv, nVars, Erased, Cleared, N!Holding, Covered, N!Transcribed, Due
    <2>3. QED
      BY <2>1, <2>2 DEF NotesInv
  <1>2. DOMAIN job = Jobs
    BY DEF NotesInv, NotesType
  <1>3. QED
    BY <1>1, <1>2, PatchStep, BeginStep, ClaimStep, LoadStep, InsertStep, QueueStep, ReadStep,
       WriteStep, AskStep, RegenerateStep, TakeFileStep, TakeTranscriptsStep, TakeNotesStep,
       TakeRowStep, StopsStep
       DEF N!NotetakerNext

\* For any number of recordings, deletions and failures: one transcript per recording, all of
\* them in the notes once the jobs have run, and nothing left of a recording that was deleted
\* (JobNotetakerTranscribe, summarizeBooking, deleteRecordingArtifacts), but for what each
\* property excepts: in particular a failure that is logged or ignored.
THEOREM NotesFollow == MeetingsSpec => []NotesMatchRecordings
  <1>1. MeetingsInit => NotesInv
    <2> SUFFICES ASSUME N!NotetakerInit
                 PROVE  NotesInv
      BY DEF MeetingsInit
    <2>1. NotesType
      BY DEF N!NotetakerInit, N!Resting, N!None, NotesType, Jobs
    <2>2. Working /\ Once
      BY DEF N!NotetakerInit, N!Resting, N!None, Working, Transcribing, Summarizing, Once, Jobs
    <2>3. Erased /\ Covered
      BY DEF N!NotetakerInit, N!None, Erased, Covered
    <2>4. QED
      BY <2>1, <2>2, <2>3 DEF NotesInv
  <1>2. NotesInv /\ [MeetingsNext]_meetingsVars => NotesInv'
    <2>1. [MeetingsNext]_meetingsVars => [N!NotetakerNext]_nVars
      BY DEF MeetingsNext, meetingsVars, QuestionsMove, FollowupsMove, InvitesMove, RoomsMove,
             NotesMove
    <2>2. QED
      BY <2>1, NotesStep
  <1>3. NotesInv => NotesMatchRecordings
    <2> SUFFICES ASSUME NotesInv
                 PROVE  NotesMatchRecordings
      OBVIOUS
    <2>1. N!OneTranscript /\ N!NothingLeft
      BY DEF NotesInv, Once, Erased, Cleared, N!OneTranscript, N!NothingLeft
    <2>2. N!NotesCoverTranscripts
      BY DEF NotesInv, NotesType, Covered, Due, Jobs, N!Quiet, N!Transcribed,
             N!NotesCoverTranscripts
    <2>3. QED
      BY <2>1, <2>2 DEF NotesMatchRecordings
  <1>4. QED
    BY <1>1, <1>2, <1>3, PTL DEF MeetingsSpec
=============================================================================
