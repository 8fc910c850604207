------------------------------- MODULE CiJobs -------------------------------
(***************************************************************************)
(* Three jobs of the pipelines that share no state, each with what it       *)
(* works on: CveDatabase, TrackRefs and MimeappsNote.  A behaviour is one   *)
(* of theirs; the variables of the others stay as they are.                 *)
(***************************************************************************)
EXTENDS Naturals, Sequences

CONSTANTS
  Years, Modified, Order, Missing, Truncated, MaxEntryRev, MaxCveFaults,
  Files, Elements, Foreign, Source, Includes, TrackDependencies, Ignored,
  Jobs, Minutes, MaxRef, MaxFailures,
  Histories, Same

VARIABLES
  which,                                                   \* whose behaviour it is
  server, file, db, tx, phase, at, got, faults, since, late,
  upstream, master, requests, job, failures,
  history, head, notes, step, turn, count

cve   == <<server, file, db, tx, phase, at, got, faults, since, late>>
track == <<upstream, master, requests, job, failures>>
note  == <<history, head, notes, step, turn, count>>
vars  == <<which, cve, track, note>>

Cve   == INSTANCE CveDatabase WITH MaxRev <- MaxEntryRev, MaxFaults <- MaxCveFaults
Track == INSTANCE TrackRefs WITH MaxRev <- MaxRef, MaxFaults <- MaxFailures, faults <- failures
Note  == INSTANCE MimeappsNote WITH at <- step

ASSUME CveInputs == Cve!YearsAssumption /\ Cve!BoundsAssumption /\ Cve!FilesAssumption
ASSUME TrackInputs == Track!FilesAssumption /\ Track!BoundsAssumption
ASSUME NoteInputs == Note!HistoriesAssumption

Unused == "unused"
NoCve ==
  /\ server = Unused /\ file = Unused /\ db = Unused /\ tx = Unused /\ phase = Unused
  /\ at = Unused /\ got = Unused /\ faults = Unused /\ since = Unused /\ late = Unused
NoTrack ==
  /\ upstream = Unused /\ master = Unused /\ requests = Unused /\ job = Unused
  /\ failures = Unused
NoNote ==
  /\ history = Unused /\ head = Unused /\ notes = Unused /\ step = Unused /\ turn = Unused
  /\ count = Unused

Init ==
  \/ which = "cve"   /\ Cve!Init   /\ NoTrack /\ NoNote
  \/ which = "track" /\ Track!Init /\ NoCve   /\ NoNote
  \/ which = "note"  /\ Note!Init  /\ NoCve   /\ NoTrack

OfCve(A)   == which = "cve"   /\ A /\ UNCHANGED <<which, track, note>>
OfTrack(A) == which = "track" /\ A /\ UNCHANGED <<which, cve, note>>
OfNote(A)  == which = "note"  /\ A /\ UNCHANGED <<which, cve, track>>

Next == OfCve(Cve!Next) \/ OfTrack(Track!Next) \/ OfNote(Note!Next)

Spec == Init /\ [][Next]_vars

(* The fairness of the bot's pipelines.                                     *)
FairSpec ==
  /\ Spec
  /\ WF_vars(OfTrack(Track!Settle))
  /\ \A j \in Jobs : WF_vars(OfTrack(Track!Begin(j))) /\ WF_vars(OfTrack(Track!Step(j)))

------------------------------------------------------------------------------
(* The variables of each job keep their types.                              *)
TypeOK ==
  /\ which = "cve" => Cve!TypeOK
  /\ which = "track" => Track!TypeOK
  /\ which = "note" => Note!TypeOK

(* update-local-cve-database.py: an etag the server will answer 304 to has  *)
(* its complete file, although the file is written outside the transaction. *)
NotModifiedIsUsable == which = "cve" => Cve!NotModifiedIsUsable

(* update-local-cve-database.py: a committed run that used no file for a    *)
(* feed that timed out brings every entry and the products it names to what *)
(* the server had when the run began, or newer.                             *)
Fresh == [][which = "cve" => Cve!BringsUpToDate]_vars

(* update-refs.py and ci-bot-track-refs.sh: merging a request does not undo *)
(* what somebody changed while the pipeline ran or the request was open.    *)
NeverReverts == [][which = "track" => Track!MergeKeeps]_vars

(* update-refs.py and ci-bot-track-refs.sh: after the last release, failure *)
(* and change the refs are the newest.                                      *)
CatchesUp == <>[](which = "track" => Track!Newest)

(* ci-bot-comment-mimeapps.py: once the job of the last push has ended, a   *)
(* note of the bot, perhaps a resolved one, has its difference, whatever    *)
(* failed and whatever reviewers did.                                       *)
Told == which = "note" => Note!Told

=============================================================================
