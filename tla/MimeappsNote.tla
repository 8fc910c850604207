---------------------------- MODULE MimeappsNote ----------------------------
(***************************************************************************)
(* The update_mimeapps job in the pipelines of a merge request: it compares *)
(* the list built with the one of gnome-session, and                        *)
(* ci-bot-comment-mimeapps.py shows the difference in a note of the merge   *)
(* request that reviewers resolve.  A push cancels the pipeline before it.  *)
(*                                                                          *)
(* The bot's notes are those with its stamp, a hash of the difference: the  *)
(* stamp is the difference itself here.                                     *)
(***************************************************************************)
EXTENDS Naturals, Sequences

CONSTANTS
  Histories,  \* the difference each push makes, in order
  Same        \* no difference

Diffs == (UNION {{h[i] : i \in DOMAIN h} : h \in Histories}) \ {Same}

HistoriesAssumption == \A h \in Histories : h \in Seq(Diffs \cup {Same}) /\ Len(h) > 0

VARIABLES
  history,  \* the differences of the pushes
  head,     \* pushes so far
  notes,    \* the bot's notes: the difference shown, whether it is resolved
  at,       \* where the job of the last push stands
  turn,     \* the discussion it looks at
  count     \* the discussions it listed

vars == <<history, head, notes, at, turn, count>>

Init ==
  /\ history \in Histories /\ head = 1
  /\ notes = <<>> /\ at = "building" /\ turn = 1 /\ count = 0

Diff == history[head]
Note(d) == [stamp |-> d, resolved |-> FALSE]

Push ==
  /\ head < Len(history) /\ head' = head + 1
  /\ at' = "building" /\ turn' = 1 /\ count' = 0
  /\ UNCHANGED <<history, notes>>

(* cmp, then the script: the merge request and its discussions are fetched. *)
Compare ==
  /\ at = "building"
  /\ at' = IF Diff = Same THEN "done" ELSE "visit"
  /\ count' = Len(notes)
  /\ UNCHANGED <<history, head, notes, turn>>

\* Mutant of Visit: the first note of the bot settles it, open or not.
Visit_First ==
  /\ at = "visit" /\ turn <= count
  /\ at' = IF notes[turn].resolved THEN "done" ELSE "save"
  /\ UNCHANGED <<history, head, notes, turn, count>>

(* The first note of each discussion in turn: with the stamp there is       *)
(* nothing to do; without it an open note is updated and a resolved one is  *)
(* passed over.                                                             *)
Visit ==
  /\ at = "visit" /\ turn <= count
  /\ \/ notes[turn].stamp = Diff /\ at' = "done" /\ UNCHANGED turn
     \/ notes[turn].stamp # Diff /\ ~notes[turn].resolved /\ at' = "save" /\ UNCHANGED turn
     \/ notes[turn].stamp # Diff /\ notes[turn].resolved /\ at' = "visit" /\ turn' = turn + 1
  /\ UNCHANGED <<history, head, notes, count>>

(* note.save sends the body; resolved or not stays as it is by now.         *)
Save ==
  /\ at = "save" /\ notes' = [notes EXCEPT ![turn].stamp = Diff] /\ at' = "done"
  /\ UNCHANGED <<history, head, turn, count>>

(* No discussion left: the note of a new one.                               *)
Create ==
  /\ at = "visit" /\ turn > count /\ notes' = Append(notes, Note(Diff)) /\ at' = "done"
  /\ UNCHANGED <<history, head, turn, count>>

(* Any call may fail; the job is then tried again, by the runner or by hand.*)
Fail ==
  /\ at \in {"building", "visit", "save"} /\ at' = "failed"
  /\ UNCHANGED <<history, head, notes, turn, count>>

Retry ==
  /\ at = "failed" /\ at' = "building" /\ turn' = 1
  /\ UNCHANGED <<history, head, notes, count>>

------------------------------------------------------------------------------
(* Reviewers act at any moment.                                             *)
Resolve(i) ==
  /\ ~notes[i].resolved /\ notes' = [notes EXCEPT ![i].resolved = TRUE]
  /\ UNCHANGED <<history, head, at, turn, count>>

Reopen(i) ==
  /\ notes[i].resolved /\ notes' = [notes EXCEPT ![i].resolved = FALSE]
  /\ UNCHANGED <<history, head, at, turn, count>>

Job == Compare \/ Visit \/ Save \/ Create \/ Retry
Next ==
  \/ Push \/ Job \/ Fail
  \/ \E i \in DOMAIN notes : Resolve(i) \/ Reopen(i)

Spec == Init /\ [][Next]_vars

------------------------------------------------------------------------------
(* Types: no more notes than pushes with a difference                       *)
(* (ci-bot-comment-mimeapps.py:48-70).                                      *)
TypeOK ==
  /\ history \in Histories /\ head \in 1..Len(history)
  /\ Len(notes) \in 0..head
  /\ \A i \in DOMAIN notes :
       notes[i] \in [stamp : Diffs, resolved : BOOLEAN]
  /\ at \in {"building", "visit", "save", "done", "failed"}
  /\ turn \in 1..Len(notes) + 1 /\ count \in 0..Len(notes)

(* Once the job of the last push has ended, a note of the bot has its       *)
(* difference, whatever jobs were cancelled or failed and whatever          *)
(* reviewers did meanwhile.  The note may be resolved: they resolved it     *)
(* when it had this difference, or while the job was about to replace       *)
(* another one in it, which leaves it resolved (:60-62).                    *)
Told == at = "done" /\ Diff # Same => \E i \in DOMAIN notes : notes[i].stamp = Diff

=============================================================================
