----------------------------- MODULE Questions -----------------------------
(***************************************************************************)
(* The intake questions of an event type and the answers that bookings     *)
(* store (internal/handler/question_handler.go; booking_answers).          *)
(*                                                                         *)
(* UpdateQuestion reads a row and writes the whole of it back; a booking   *)
(* validates its answers against the rows and stores them later, in the    *)
(* transaction that creates it.  Labels and positions are left out.        *)
(***************************************************************************)
EXTENDS Naturals, Sequences, FiniteSets, Functions

CONSTANTS
    Question,  \* ids of questions
    Option,    \* what a select may offer, beside the blank ""
    Word,      \* other things a visitor may send, the empty answer "" included
    Ticks,     \* the words that checkboxTicked takes for a tick
    Update     \* PATCH requests that may overlap

Kind == {"text", "select", "checkbox"}

Unasked == [kind |-> "none", options |-> {}, required |-> FALSE]

VARIABLES
    question,  \* event_type_questions: [kind, options, required]
    update,    \* each PATCH: the row it read, with the change made, until it is written,
               \* and whether the options were among what changed
    form,      \* the answers of a booking between validation and storage
    stored     \* its booking_answers, and what was demanded of it: [answers, demanded]

questionVars == <<question, update, form, stored>>

Deleted == [Unasked EXCEPT !.kind = "deleted"]

Asked == {q \in Question : question[q].kind \in Kind}

NoUpdate == [id |-> "none", row |-> Unasked, relisted |-> FALSE]

Blank == ""

NoForm == [answers |-> <<>>, demanded |-> <<>>]

QuestionsInit ==
    /\ question = [q \in Question |-> Unasked]
    /\ update = [u \in Update |-> NoUpdate]
    /\ form = NoForm /\ stored = NoForm

\* Whether an option is blank is not asked.
WellFormed(row) == row.kind = "select" => row.options # {}

\* Only a select keeps its options.
Saved(row) == IF row.kind = "select" THEN row ELSE [row EXCEPT !.options = {}]

-----------------------------------------------------------------------------

CreateQuestion(q, row) ==
    /\ question[q] = Unasked /\ WellFormed(row)
    /\ question' = [question EXCEPT ![q] = Saved(row)]
    /\ UNCHANGED <<update, form, stored>>

\* A PATCH: the row as read, with the fields that the request names replaced.
ReadQuestion(u, q, row) ==
    /\ update[u] = NoUpdate /\ q \in Asked
    /\ WellFormed(row)
    /\ update' = [update EXCEPT ![u] = [id |-> q, row |-> row,
                                       relisted |-> row.options # question[q].options]]
    /\ UNCHANGED <<question, form, stored>>

\* Slip: the UPDATE leaves options alone when the request does not change them.
UpdateRelisted(u) ==
    /\ update[u] # NoUpdate
    /\ LET q == update[u].id
           row == IF update[u].relisted THEN update[u].row
                  ELSE [update[u].row EXCEPT !.options = question[q].options]
       IN  question' = [question EXCEPT ![q] = IF q \in Asked THEN Saved(row) ELSE @]
    /\ update' = [update EXCEPT ![u] = NoUpdate]
    /\ UNCHANGED <<form, stored>>

\* The UPDATE sets every column; it finds nothing when the question was deleted.
UpdateQuestion(u) ==
    /\ update[u] # NoUpdate
    /\ LET q == update[u].id
       IN  question' = [question EXCEPT ![q] = IF q \in Asked THEN Saved(update[u].row) ELSE @]
    /\ update' = [update EXCEPT ![u] = NoUpdate]
    /\ UNCHANGED <<form, stored>>

\* The foreign key cascades to the answers that bookings gave.
DeleteQuestion(q) ==
    /\ q \in Asked
    /\ question' = [question EXCEPT ![q] = Deleted]
    /\ stored' = [stored EXCEPT !.answers = Restrict(@, DOMAIN @ \ {q}),
                                !.demanded = Restrict(@, DOMAIN @ \ {q})]
    /\ UNCHANGED <<update, form>>

-----------------------------------------------------------------------------

checkboxTicked(v) == v \in Ticks

\* Slip: a required checkbox is satisfied by any answer that is not empty.
AcceptsNonEmpty(q, given) ==
    /\ question[q].required => q \in DOMAIN given /\ given[q] # ""
    /\ question[q].kind = "select" /\ q \in DOMAIN given /\ given[q] # "" =>
          given[q] \in question[q].options

\* validateAnswersCore, one question: a required checkbox has to be ticked, another
\* required question answered, and a select answered with one of its options.
Accepts(q, given) ==
    LET answered == q \in DOMAIN given
    IN  IF question[q].kind = "checkbox"
        THEN question[q].required => answered /\ checkboxTicked(given[q])
        ELSE /\ question[q].required => answered /\ given[q] # ""
             /\ question[q].kind = "select" /\ answered /\ given[q] # "" =>
                    given[q] \in question[q].options

\* What is stored: checkboxes in one spelling.
Canonical(q, v) ==
    IF question[q].kind = "checkbox" THEN (IF checkboxTicked(v) THEN "yes" ELSE "no") ELSE v

Demanded == [q \in {x \in Asked : question[x].required} |-> question[q].kind]

\* validateAnswers, before the booking is created.  Unknown questions are refused.
ValidateAnswers(given) ==
    /\ form = NoForm /\ stored = NoForm
    /\ DOMAIN given \subseteq Asked
    /\ \A q \in Asked : Accepts(q, given)
    /\ form' = [answers |-> [q \in DOMAIN given |-> Canonical(q, given[q])],
                demanded |-> Demanded]
    /\ UNCHANGED <<question, update, stored>>

\* The booking and its answers are inserted together, or not at all when a question
\* that was answered is gone: the foreign key fails the transaction.
InsertAnswers ==
    /\ form # NoForm
    /\ stored' = IF DOMAIN form.answers \subseteq Asked
                 THEN [form EXCEPT !.demanded = Restrict(@, DOMAIN @ \cap Asked)] ELSE NoForm
    /\ form' = NoForm
    /\ UNCHANGED <<question, update>>

Row == [kind: Kind, options: {{}, Option, {Blank}}, required: BOOLEAN]

Given == UNION {[D -> Option \cup Word] : D \in SUBSET Question}

QuestionsNext ==
    \/ InsertAnswers
    \/ \E given \in Given : ValidateAnswers(given)
    \/ \E q \in Question, row \in Row :
          \/ CreateQuestion(q, row)
          \/ \E u \in Update : ReadQuestion(u, q, row)
    \/ \E q \in Question : DeleteQuestion(q)
    \/ \E u \in Update : UpdateQuestion(u)

QuestionsSpec == QuestionsInit /\ [][QuestionsNext]_questionVars

-----------------------------------------------------------------------------
(* Properties.                                                             *)

\* What a visitor had to agree to or to fill in, the booking has on record for as long
\* as the question exists: a checkbox that was required when the form was checked is
\* stored as "yes", however the question was edited meanwhile, and another required
\* question has an answer that is not empty.
ConsentOnRecord ==
    \A q \in DOMAIN stored.demanded :
        /\ q \in DOMAIN stored.answers
        /\ IF stored.demanded[q] = "checkbox" THEN stored.answers[q] = "yes"
           ELSE stored.answers[q] # ""

\* Whatever edits overlapped, a select question lists something to select: none was left
\* with an empty list by two edits that each were right.  (A list of one blank option, with
\* which a required question shuts the event type, is accepted as such.)
FormCanBeFilled == \A q \in Question : WellFormed(question[q])
=============================================================================
