----------------------------- MODULE Notetaker -----------------------------
(***************************************************************************)
(* AI notes of one booking: its recordings are transcribed one by one, and *)
(* the transcripts summarised into one document (internal/handler:         *)
(* notetaker.go, notetaker_http.go, and the deletion of a recording).      *)
(*                                                                         *)
(* The worker runs one job at a time; the summary can also be asked for by *)
(* an admin.  Both read, call a model that may take long or fail, and      *)
(* write.  What is in the notes is the set of recordings they were made    *)
(* from.  A statement may fail: some failures end or repeat the job, others *)
(* are logged or ignored.                                                  *)
(***************************************************************************)
EXTENDS Naturals, FiniteSets

CONSTANTS
    Recording,   \* the booking's recordings
    MaxFailures  \* bound on crashes, statements that fail, and events that are sent twice

None == "none"

VARIABLES
    recording,   \* of each recording: none, uploaded (file and row), gone (file), deleted
    enabled,     \* server_settings.notetaker_enabled, with both keys set
    job,         \* transcribe jobs by recording and the job "summarize": none, pending, running
    transcripts, \* the number of transcripts of each recording
    notes,       \* [status, of]
    worker,      \* the job in hand: [pc, of]
    regenerate,  \* the admin's request: [pc, of]
    deleting,    \* the deletion in hand: [pc, recording]
    failures,
    history      \* "repeated", "gaveUp", "overtaken"; "met": a deletion met work in hand;
                 \* "unqueued", "unread", "unwritten", "kept": a failure that goes unnoticed

notetakerVars ==
    <<recording, enabled, job, transcripts, notes, worker, regenerate, deleting, failures, history>>

Summarize == "summarize"

Transcribed == {r \in Recording : transcripts[r] > 0}

Resting == [pc |-> "idle", of |-> {}]

NotetakerInit ==
    /\ recording = [r \in Recording |-> None]
    /\ enabled \in BOOLEAN
    /\ job = [j \in Recording \cup {Summarize} |-> None]
    /\ transcripts = [r \in Recording |-> 0]
    /\ notes = [status |-> None, of |-> {}]
    /\ worker = [pc |-> "idle", of |-> {}]
    /\ regenerate = Resting
    /\ deleting = [pc |-> "idle", recording |-> None]
    /\ failures = 0 /\ history = {}

Records == <<transcripts, notes>>

Failing == failures < MaxFailures /\ failures' = failures + 1

Sound == UNCHANGED failures

\* The failures that only a log tells of, or nothing at all.
Unnoticed == {"unqueued", "unread", "unwritten", "kept"}

Happened(what, when) == history' = IF when THEN history \cup {what} ELSE history

-----------------------------------------------------------------------------
(* Jobs.                                                                   *)

\* Slip: a job is queued once, and never again after it has run.
EnqueuedOnce(j) == IF job[j] = None THEN "pending" ELSE job[j]

\* enqueueJob: a live job stays, a finished one is queued again.
Enqueued(j) == IF job[j] = "running" THEN "running" ELSE "pending"

Finished == "done"

\* PatchNotetakerSettings.
PatchNotetakerSettings ==
    /\ enabled' = ~enabled
    /\ UNCHANGED <<recording, job, Records, worker, regenerate, deleting, failures, history>>

\* The event egress_ended: maybeStartNotetaker queues the transcription, or logs that it
\* could not.  LiveKit may send it twice.
maybeStartNotetaker(r) ==
    /\ recording[r] \in {None, "uploaded"}
    /\ recording' = [recording EXCEPT ![r] = "uploaded"]
    /\ \/ /\ job' = [job EXCEPT ![r] = IF enabled THEN Enqueued(r) ELSE @]
          /\ IF recording[r] = None THEN Sound ELSE Failing
       \/ UNCHANGED job /\ Failing
    /\ Happened("repeated", recording[r] # None)
    /\ UNCHANGED <<enabled, Records, worker, regenerate, deleting>>

\* The worker takes a job.
Claim(j) ==
    /\ worker.pc = "idle" /\ job[j] = "pending"
    /\ job' = [job EXCEPT ![j] = "running"]
    /\ worker' = IF j = Summarize THEN [pc |-> "read", of |-> {}] ELSE [pc |-> "load", of |-> {j}]
    /\ UNCHANGED <<recording, enabled, Records, regenerate, deleting, failures, history>>

\* The job ends, or waits for another attempt, or fails for good.
Done(j) == job' = [job EXCEPT ![j] = Finished] /\ worker' = Resting

Retry(j) ==
    /\ \E s \in {"pending", Finished} :
          /\ job' = [job EXCEPT ![j] = s]
          /\ Happened("gaveUp", s = Finished)
    /\ worker' = Resting

-----------------------------------------------------------------------------
(* JobNotetakerTranscribe.                                                 *)

\* The row, and the file by way of the transcription service.  Without the key of the
\* service the job ends; so it does when the row cannot be read, for then object_key is
\* empty.
LoadRecording(r) ==
    /\ worker = [pc |-> "load", of |-> {r}]
    /\ IF recording[r] \in {None, "deleted"}
       THEN Done(r) /\ Sound /\ UNCHANGED history
       ELSE \/ /\ recording[r] = "uploaded"
               /\ worker' = [worker EXCEPT !.pc = "insert"]
               /\ Sound /\ UNCHANGED <<job, history>>
            \/ Retry(r) /\ Sound
            \/ ~enabled /\ Done(r) /\ Happened("gaveUp", TRUE) /\ Sound
            \/ Done(r) /\ Failing /\ Happened("gaveUp", TRUE)
    /\ UNCHANGED <<recording, enabled, Records, regenerate, deleting>>

\* Slip: a failure to queue the summary fails the job, which runs again.
InsertAndRetry(r) ==
    /\ worker = [pc |-> "insert", of |-> {r}]
    /\ transcripts' = [transcripts EXCEPT ![r] = IF @ = 2 THEN 2 ELSE @ + 1]
    /\ Retry(r)
    /\ UNCHANGED <<recording, enabled, notes, regenerate, deleting, failures>>

\* A new row every time: the table does not ask for one transcript per recording.  A
\* transcript that cannot be saved is made again.
InsertTranscript(r) ==
    /\ worker = [pc |-> "insert", of |-> {r}]
    /\ \/ /\ transcripts' = [transcripts EXCEPT ![r] = IF @ = 2 THEN 2 ELSE @ + 1]
          /\ worker' = [worker EXCEPT !.pc = "queue"]
          /\ Sound /\ UNCHANGED <<job, history>>
       \/ Retry(r) /\ Failing /\ UNCHANGED transcripts
    /\ UNCHANGED <<recording, enabled, notes, regenerate, deleting>>

\* The summary is queued, or it is logged that it could not be; the job is done.
QueueSummary(r) ==
    /\ worker = [pc |-> "queue", of |-> {r}]
    /\ \/ /\ job' = [job EXCEPT ![Summarize] = Enqueued(Summarize), ![r] = Finished]
          /\ Sound /\ UNCHANGED history
       \/ /\ job' = [job EXCEPT ![r] = Finished]
          /\ Failing /\ Happened("unqueued", TRUE)
    /\ worker' = Resting
    /\ UNCHANGED <<recording, enabled, Records, regenerate, deleting>>

-----------------------------------------------------------------------------
(* summarizeBooking, as a job and as RegenerateBookingNotes.               *)

\* The transcripts that the query returns: all of them, or, as rows.Err is not asked,
\* those before a failure.
Returned(of) ==
    \/ of = Transcribed /\ Sound /\ UNCHANGED history
    \/ of \subseteq Transcribed /\ of # Transcribed /\ Failing /\ Happened("unread", TRUE)

\* Nothing to summarise ends the job, and so does a model that is not set up any more.
ReadTranscripts ==
    /\ worker.pc = "read"
    /\ \/ ~enabled /\ Done(Summarize) /\ Happened("gaveUp", TRUE) /\ Sound
       \/ Returned({}) /\ Done(Summarize)
       \/ \E of \in SUBSET Recording \ {{}} :
             Returned(of) /\ worker' = [pc |-> "write", of |-> of] /\ UNCHANGED job
       \/ Retry(Summarize) /\ Failing
    /\ UNCHANGED <<recording, enabled, Records, regenerate, deleting>>

Overtaken(of) == ~(Transcribed \subseteq of)

\* A model that answers nothing usable leaves the old text, marked empty; whether the mark
\* was made is not asked.
Write(of) ==
    \/ /\ notes' \in {[status |-> "complete", of |-> of], [status |-> "empty", of |-> notes.of]}
       /\ Happened("overtaken", Overtaken(of)) /\ Sound
    \/ UNCHANGED notes /\ Happened("unwritten", TRUE) /\ Failing

WriteNotes ==
    /\ worker.pc = "write"
    /\ \/ Write(worker.of) /\ Done(Summarize)
       \/ Retry(Summarize) /\ Sound /\ UNCHANGED notes
    /\ UNCHANGED <<recording, enabled, transcripts, regenerate, deleting>>

RegenerateBookingNotes ==
    /\ regenerate.pc = "idle" /\ Transcribed # {}
    /\ \E of \in SUBSET Recording \ {{}} :
          Returned(of) /\ regenerate' = [pc |-> "write", of |-> of]
    /\ UNCHANGED <<recording, enabled, job, Records, worker, deleting>>

\* The model answers, or the admin is told to try again.
RegenerateWrites ==
    /\ regenerate.pc = "write"
    /\ regenerate' = Resting
    /\ Write(regenerate.of) \/ (Sound /\ UNCHANGED <<notes, history>>)
    /\ UNCHANGED <<recording, enabled, job, transcripts, worker, deleting>>

-----------------------------------------------------------------------------
(* deleteRecordingArtifacts: the file, the transcripts, the notes, the row. *)

\* Work in hand that has read what is being deleted.
Holding(r) ==
    \/ worker.pc \in {"insert", "queue", "write"} /\ r \in worker.of
    \/ regenerate.pc = "write" /\ r \in regenerate.of

DeleteFile(r) ==
    /\ deleting.pc = "idle" /\ recording[r] \in {"uploaded", "gone"}
    /\ recording' = [recording EXCEPT ![r] = "gone"]
    /\ \/ deleting' = [pc |-> "transcripts", recording |-> r] /\ Sound
       \/ UNCHANGED deleting /\ Failing
    /\ UNCHANGED <<enabled, job, Records, worker, regenerate, history>>

\* The result of this DELETE and of the next is ignored.
DeleteTranscripts ==
    /\ deleting.pc = "transcripts"
    /\ \/ /\ transcripts' = [transcripts EXCEPT ![deleting.recording] = 0]
          /\ Happened("met", Holding(deleting.recording)) /\ Sound
       \/ UNCHANGED transcripts /\ Happened("kept", TRUE) /\ Failing
    /\ deleting' = [deleting EXCEPT !.pc = "notes"]
    /\ UNCHANGED <<recording, enabled, job, notes, worker, regenerate>>

\* Slip: the notes are kept, for they are the booking's.
KeepNotes ==
    /\ deleting.pc = "notes"
    /\ deleting' = [deleting EXCEPT !.pc = "row"]
    /\ Happened("met", Holding(deleting.recording))
    /\ UNCHANGED <<recording, enabled, job, Records, worker, regenerate, failures>>

DeleteNotes ==
    /\ deleting.pc = "notes"
    /\ \/ /\ notes' = [status |-> None, of |-> {}]
          /\ Happened("met", Holding(deleting.recording)) /\ Sound
       \/ UNCHANGED notes /\ Happened("kept", TRUE) /\ Failing
    /\ deleting' = [deleting EXCEPT !.pc = "row"]
    /\ UNCHANGED <<recording, enabled, job, transcripts, worker, regenerate>>

DeleteRow ==
    /\ deleting.pc = "row"
    /\ \/ recording' = [recording EXCEPT ![deleting.recording] = "deleted"] /\ Sound
       \/ UNCHANGED recording /\ Failing
    /\ deleting' = [pc |-> "idle", recording |-> None]
    /\ UNCHANGED <<enabled, job, Records, worker, regenerate, history>>

\* The process stops: the running job is reaped and runs again.
Crash ==
    /\ Failing
    /\ job' = [j \in DOMAIN job |-> IF job[j] = "running" THEN "pending" ELSE job[j]]
    /\ worker' = Resting /\ regenerate' = Resting
    /\ deleting' = [pc |-> "idle", recording |-> None]
    /\ Happened("repeated", worker.pc = "queue")
    /\ UNCHANGED <<recording, enabled, Records>>

NotetakerNext ==
    \/ PatchNotetakerSettings
    \/ \E r \in Recording :
          \/ maybeStartNotetaker(r) \/ LoadRecording(r) \/ InsertTranscript(r) \/ QueueSummary(r)
          \/ DeleteFile(r)
    \/ \E j \in DOMAIN job : Claim(j)
    \/ ReadTranscripts \/ WriteNotes \/ RegenerateBookingNotes \/ RegenerateWrites
    \/ DeleteTranscripts \/ DeleteNotes \/ DeleteRow \/ Crash

NotetakerSpec == NotetakerInit /\ [][NotetakerNext]_notetakerVars

-----------------------------------------------------------------------------
(* Properties.                                                             *)

\* One transcript per recording, as migration 00045 has it: unless LiveKit sent the end
\* of the recording twice, or the process stopped between the INSERT and the end of the
\* job.
OneTranscript ==
    "repeated" \notin history => \A r \in Recording : transcripts[r] <= 1

\* Nothing of a deleted recording is left, neither its words nor notes made from them,
\* unless a job or a request had already read them, or a DELETE failed, which is ignored.
NothingLeft ==
    history \cap {"met", "kept"} = {} =>
        \A r \in Recording : recording[r] = "deleted" => transcripts[r] = 0 /\ r \notin notes.of

Quiet ==
    /\ worker = Resting /\ regenerate = Resting
    /\ \A j \in DOMAIN job : job[j] # "pending" /\ job[j] # "running"

\* Every transcript is in the notes once the jobs have run: a recording that ends while
\* the notes of an earlier one are made, or after, is summarised too.  Excepted are jobs
\* that failed for good or ran without a service to call, a summary that was read before
\* and written after another, work that met a deletion, and the failures that nobody is
\* told of: a summary not queued, read in part or not written, a transcript not deleted.
NotesCoverTranscripts ==
    Quiet /\ notes.status = "complete"
        /\ history \cap ({"gaveUp", "overtaken", "met"} \cup Unnoticed) = {} =>
        Transcribed \subseteq notes.of
=============================================================================
