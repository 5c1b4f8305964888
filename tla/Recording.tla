----------------------------- MODULE Recording -----------------------------
(***************************************************************************)
(* The recordings of one meeting room: the egress that LiveKit runs, the   *)
(* rows of recordings, the files in the bucket and the banner that tells   *)
(* the participants (internal/handler: livekit_recording.go, and EndRoom,  *)
(* ScreenShareToggle and mergeRoomMeta of livekit_room.go).                *)
(*                                                                         *)
(* Every call to LiveKit or to the bucket and every statement is a step,   *)
(* and may fail; the failures are only logged.  A process that stops cuts  *)
(* every request short.                                                    *)
(* LiveKit sends the end of an egress at any later time, in any order, or  *)
(* never, and its start at any time while it runs.                         *)
(* A recording has the name of its egress.                                 *)
(***************************************************************************)
EXTENDS Naturals, FiniteSets

CONSTANTS
    Egress,   \* recordings
    Caller,   \* requests that may be served at the same time
    Faults,   \* what may go wrong: "readFails", "saveFails", "startFails", "stopFails",
              \* "showFails", "bucketFails", "crash"; and "share", a change of another flag
    MaxFaults \* bound on how often one of these happens

NoEgress == "none"

VARIABLES
    egress,   \* at LiveKit: none, running, uploading, over
    news,     \* how an egress ended, while LiveKit has yet to send it
    row,      \* recordings.status, "none" before the INSERT and "deleted" after the DELETE
    file,     \* the files in the bucket
    banner,   \* the flag "recording" of the room's metadata
    caller,   \* requests: [op, pc, egress]
    crossed,  \* has a start overlapped another start or a stop, or a read of the rows failed?
    strayed,  \* egresses of which the answer, the INSERT or a stop was lost
    hasty,    \* recordings deleted while the file was still being uploaded
    dimmed,   \* why a room that records may not show it: the end of another recording, an
              \* update that failed or was cut short, or one that wrote an older reading back
    faults    \* how often one of Faults has happened

recordingVars ==
    <<egress, news, row, file, banner, caller, crossed, strayed, hasty, dimmed, faults>>

Off == [op |-> "none", pc |-> "idle", egress |-> NoEgress]

Active == {e \in Egress : row[e] = "active"}

Running == {e \in Egress : egress[e] = "running"}

RecordingInit ==
    /\ egress = [e \in Egress |-> "none"]
    /\ news = [e \in Egress |-> "none"]
    /\ row = [e \in Egress |-> "none"]
    /\ file = {} /\ banner = FALSE
    /\ caller = [c \in Caller |-> Off]
    /\ crossed = FALSE /\ strayed = {} /\ hasty = {} /\ dimmed = FALSE
    /\ faults = 0

At(c, pc) == caller[c].pc = pc

Go(c, pc, e) == caller' = [caller EXCEPT ![c].pc = pc, ![c].egress = e]

Answer(c) == caller' = [caller EXCEPT ![c] = Off]

Request(c, op, pc, e) ==
    /\ At(c, "idle")
    /\ caller' = [caller EXCEPT ![c] = [op |-> op, pc |-> pc, egress |-> e]]

Fault(kind) == kind \in Faults /\ faults < MaxFaults /\ faults' = faults + 1

NoFault == UNCHANGED faults

Others(c, ops) == \E d \in Caller \ {c} : caller[d].op \in ops

-----------------------------------------------------------------------------
(* RecordStart.                                                            *)

\* The active rows that the SELECT finds; a SELECT that fails finds none.
Finds(found) ==
    \/ found = Active /\ NoFault
    \/ found # Active /\ Fault("readFails")

\* A room that is already recording is not recorded twice: only the banner is set.
RecordStart(c) == \E found \in {Active, {}} :
    /\ Finds(found)
    /\ Request(c, "start", IF found = {} THEN "start" ELSE "show", NoEgress)
    /\ crossed' = (crossed \/ found # Active \/ Others(c, {"start", "stop", "end"}))
    /\ UNCHANGED <<egress, news, row, file, banner, strayed, hasty, dimmed>>

\* An egress that LiveKit started may not be reported back.
StartRoomCompositeEgress(c) ==
    /\ At(c, "start")
    /\ \/ \E e \in Egress :
             /\ egress[e] = "none"
             /\ egress' = [egress EXCEPT ![e] = "running"]
             /\ \/ Go(c, "save", e) /\ NoFault /\ UNCHANGED strayed
                \/ Fault("startFails") /\ Answer(c) /\ strayed' = strayed \cup {e}
       \/ Answer(c) /\ NoFault /\ UNCHANGED <<egress, strayed>>
    /\ UNCHANGED <<news, row, file, banner, crossed, hasty, dimmed>>

\* An INSERT that fails is logged.
SaveRecording(c) ==
    /\ At(c, "save")
    /\ LET e == caller[c].egress
       IN  \/ row' = [row EXCEPT ![e] = "active"] /\ NoFault /\ UNCHANGED strayed
           \/ Fault("saveFails") /\ strayed' = strayed \cup {e} /\ UNCHANGED row
    /\ Go(c, "show", caller[c].egress)
    /\ UNCHANGED <<egress, news, file, banner, crossed, hasty, dimmed>>

\* mergeRoomMeta writes the flag, to be seen by all who are in the room...
Show(on) ==
    /\ banner' = on
    /\ dimmed' = (~on /\ (dimmed \/ (banner /\ Running # {})))
    /\ NoFault

\* ... or fails, which is logged.
NoShow == Fault("showFails") /\ UNCHANGED <<banner, dimmed>>

\* Slip: a start leaves the banner to LiveKit's event.
SetBannerOnStop(c) ==
    /\ caller[c].pc \in {"show", "hide"}
    /\ banner' = (banner /\ At(c, "show"))
    /\ Answer(c) /\ NoFault
    /\ UNCHANGED <<egress, news, row, file, crossed, strayed, hasty, dimmed>>

\* After a start and after a stop.
SetBanner(c) ==
    /\ \/ At(c, "show") /\ Show(TRUE)
       \/ At(c, "show") /\ Fault("showFails") /\ dimmed' = ~banner /\ UNCHANGED banner
       \/ At(c, "hide") /\ banner' = FALSE /\ NoFault /\ UNCHANGED dimmed
       \/ At(c, "hide") /\ NoShow
    /\ Answer(c)
    /\ UNCHANGED <<egress, news, row, file, crossed, strayed, hasty>>

\* ScreenShareToggle reads all of the metadata to set its own flag...
ScreenShareToggle(c) ==
    /\ Request(c, "share", IF banner THEN "keepOn" ELSE "keepOff", NoEgress)
    /\ Fault("share")
    /\ UNCHANGED <<egress, news, row, file, banner, crossed, strayed, hasty, dimmed>>

\* ... and writes it back.
WriteMetadataBack(c) ==
    /\ \/ At(c, "keepOn") /\ Show(TRUE)
       \/ At(c, "keepOff") /\ Show(FALSE)
       \/ caller[c].pc \in {"keepOn", "keepOff"} /\ NoShow
    /\ Answer(c)
    /\ UNCHANGED <<egress, news, row, file, crossed, strayed, hasty>>

-----------------------------------------------------------------------------
(* RecordStop, EndRoom and the event room_finished: finalizeActiveRecording. *)

Finalize(c, op) == \E found \in {Active, {}} :
    /\ Finds(found)
    /\ IF found = {}
       THEN Request(c, op, IF op = "stop" THEN "hide" ELSE "close", NoEgress)
       ELSE \E e \in found : Request(c, op, "stop", e)
    /\ crossed' = (crossed \/ found # Active \/ Others(c, {"start"}))
    /\ UNCHANGED <<egress, news, row, file, banner, strayed, hasty, dimmed>>

RecordStop(c) == Finalize(c, "stop")

EndRoom(c) == Finalize(c, "end")

Stopped(e) ==
    /\ egress' = [egress EXCEPT ![e] = IF @ = "running" THEN "uploading" ELSE @]
    /\ NoFault

\* Slip: the row is closed and the egress goes on.
LeaveEgress(c) ==
    /\ At(c, "stop")
    /\ Go(c, "finalize", caller[c].egress) /\ NoFault
    /\ UNCHANGED <<egress, news, row, file, banner, crossed, strayed, hasty, dimmed>>

\* A stop that LiveKit refuses is logged.
StopEgress(c) ==
    /\ At(c, "stop")
    /\ \/ Stopped(caller[c].egress) /\ UNCHANGED strayed
       \/ Fault("stopFails") /\ strayed' = strayed \cup {caller[c].egress} /\ UNCHANGED egress
    /\ Go(c, "finalize", caller[c].egress)
    /\ UNCHANGED <<news, row, file, banner, crossed, hasty, dimmed>>

\* Every active row of the room is complete, whichever egress was stopped, and before
\* the file is there; or they stay active.
CompleteRows(c) ==
    /\ At(c, "finalize")
    /\ \/ row' = [e \in Egress |-> IF e \in Active THEN "complete" ELSE row[e]] /\ NoFault
       \/ Fault("saveFails") /\ UNCHANGED row
    /\ Go(c, IF caller[c].op = "stop" THEN "hide" ELSE "close", NoEgress)
    /\ UNCHANGED <<egress, news, file, banner, crossed, strayed, hasty, dimmed>>

\* DeleteRoom ends every egress of the room and its metadata, or fails.
DeleteRoom(c) ==
    /\ At(c, "close")
    /\ \/ /\ egress' = [e \in Egress |-> IF e \in Running THEN "uploading" ELSE egress[e]]
          /\ banner' = FALSE /\ NoFault
       \/ Fault("stopFails") /\ UNCHANGED <<egress, banner>>
    /\ Answer(c)
    /\ UNCHANGED <<news, row, file, crossed, strayed, hasty, dimmed>>

-----------------------------------------------------------------------------
(* LiveKit, and its events.                                                *)

\* The upload ends, with a file or without one.
EgressOver(e) ==
    /\ egress[e] \in {"running", "uploading"}
    /\ egress' = [egress EXCEPT ![e] = "over"]
    /\ \/ file' = file \cup {e} /\ news' = [news EXCEPT ![e] = "egress_ended"]
       \/ UNCHANGED file /\ news' = [news EXCEPT ![e] = "egress_failed"]
    /\ NoFault /\ UNCHANGED <<row, banner, caller, crossed, strayed, hasty, dimmed>>

EgressStarted(e) ==
    /\ e \in Running
    /\ Show(TRUE)
    /\ UNCHANGED <<egress, news, row, file, caller, crossed, strayed, hasty>>

\* When the UPDATE of the row has failed, the banner goes out all the same, or that fails too.
Unsaved ==
    /\ Fault("saveFails")
    /\ \/ banner' = FALSE /\ dimmed' = (dimmed \/ (banner /\ Running # {}))
       \/ "showFails" \in Faults /\ UNCHANGED <<banner, dimmed>>

\* The row of the egress takes its outcome; the banner of the room goes out.
EgressEnded(e, what) ==
    /\ news[e] = what
    /\ news' = [news EXCEPT ![e] = "none"]
    /\ \/ /\ row' = [row EXCEPT ![e] = IF @ \in {"none", "deleted"} THEN @
                                       ELSE IF what = "egress_failed" THEN "failed" ELSE "complete"]
          /\ Show(FALSE) \/ NoShow
       \/ UNCHANGED row /\ Unsaved
    /\ UNCHANGED <<egress, file, caller, crossed, strayed, hasty>>

-----------------------------------------------------------------------------

\* DeleteRecording, and each round of DeleteAllRecordings: not while it is active.
DeleteRecording(c, e) ==
    /\ row[e] \in {"complete", "failed"}
    /\ Request(c, "delete", "file", e) /\ NoFault
    /\ UNCHANGED <<egress, news, row, file, banner, crossed, strayed, hasty, dimmed>>

\* Slip: a file that cannot be deleted is logged, and its row goes.
DeleteFileAnyway(c) ==
    /\ At(c, "file")
    /\ file' \in {file, file \ {caller[c].egress}} /\ NoFault
    /\ hasty' = hasty \cup {e \in {caller[c].egress} : egress[e] # "over"}
    /\ Go(c, "rows", caller[c].egress)
    /\ UNCHANGED <<egress, news, row, banner, crossed, strayed, dimmed>>

\* Deleting a file that is not there yet succeeds.
DeleteFile(c) ==
    /\ At(c, "file")
    /\ \/ /\ file' = file \ {caller[c].egress} /\ NoFault
          /\ hasty' = hasty \cup {e \in {caller[c].egress} : egress[e] # "over"}
          /\ Go(c, "rows", caller[c].egress)
       \/ Fault("bucketFails") /\ Answer(c) /\ UNCHANGED <<file, hasty>>
    /\ UNCHANGED <<egress, news, row, banner, crossed, strayed, dimmed>>

DeleteRow(c) ==
    /\ At(c, "rows")
    /\ \/ row' = [row EXCEPT ![caller[c].egress] = "deleted"] /\ NoFault
       \/ Fault("saveFails") /\ UNCHANGED row
    /\ Answer(c)
    /\ UNCHANGED <<egress, news, file, banner, crossed, strayed, hasty, dimmed>>

\* The process stops: an egress that was not saved yet has no row, and a banner that was
\* not lit yet stays dark.
Crash ==
    /\ Fault("crash")
    /\ caller' = [c \in Caller |-> Off]
    /\ strayed' = strayed \cup {caller[c].egress : c \in {d \in Caller : At(d, "save")}}
    /\ dimmed' = (dimmed \/ (~banner /\ \E c \in Caller : At(c, "show")))
    /\ UNCHANGED <<egress, news, row, file, banner, crossed, hasty>>

RecordingNext ==
    \/ \E c \in Caller :
          \/ RecordStart(c) \/ StartRoomCompositeEgress(c) \/ SaveRecording(c) \/ SetBanner(c)
          \/ RecordStop(c) \/ EndRoom(c) \/ StopEgress(c) \/ CompleteRows(c) \/ DeleteRoom(c)
          \/ DeleteFile(c) \/ DeleteRow(c) \/ ScreenShareToggle(c) \/ WriteMetadataBack(c)
          \/ \E e \in Egress : DeleteRecording(c, e)
    \/ \E e \in Egress :
          \/ EgressOver(e) \/ EgressStarted(e)
          \/ \E what \in {"egress_ended", "egress_failed"} : EgressEnded(e, what)
    \/ Crash

RecordingSpec == RecordingInit /\ [][RecordingNext]_recordingVars

-----------------------------------------------------------------------------
(* Properties.                                                             *)

Busy(e) == \E c \in Caller : caller[c].egress = e

\* A recording that runs can be stopped: its row is active, so that the next stop, or
\* the end of the meeting, finds it, unless LiveKit refused to stop it, LiveKit's answer or
\* the INSERT of its row was lost, a start overlapped another one or a stop, or the database
\* failed to say what is active.
CanBeStopped ==
    \A e \in Running \ strayed : Busy(e) \/ crossed \/ row[e] = "active"

\* No file is orphaned: a file in the bucket has a row through which it can be listed
\* and deleted, unless it was deleted before it was uploaded, or never saved.
FilesAreListed ==
    \A e \in file \ (hasty \cup strayed) : row[e] \in {"active", "complete", "failed"} \/ Busy(e)

\* Once requests have settled, a room that records shows it, but where the banner was put
\* out by the late end of an earlier recording or by the writing back of metadata read
\* earlier, or was not lit because LiveKit refused it or the request was cut short, and
\* nothing has lit it since (the exceptions of CanBeStopped hold here too).
BannerWhileRecording ==
    Running \ strayed # {} /\ ~crossed /\ ~dimmed /\ (\A c \in Caller : At(c, "idle")) => banner
=============================================================================
