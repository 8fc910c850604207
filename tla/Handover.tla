------------------------------ MODULE Handover ------------------------------
(* What an installation promises to the session that runs it, without its   *)
(* steps: the live system's root and /usr move, one after the other, to the *)
(* disk asked for; a live resource is let go only when neither needs it;    *)
(* success is reported when nothing of the live media is held any more.     *)
(* An OEM installation leaves the live system alone.  A session cut short   *)
(* may still see the one move that was under way.                           *)
EXTENDS Naturals

CONSTANTS
  Disks,   \* disks an installation can be asked for
  Zram,    \* the live resource below / at first
  Medium   \* the live resource below /usr at first

VARIABLES
  phase,   \* "idle", "busy", "finished", "failed", or "cut": ended, but
           \* a move it began may still take place
  plan,    \* the installation asked for: [disk, oem]
  root,    \* what / is on
  usr,     \* what /usr is on
  held     \* live resources still set up

vars == <<phase, plan, root, usr, held>>

Live == {Zram, Medium}

Init ==
  /\ phase = "idle"
  /\ plan \in [disk: Disks, oem: BOOLEAN]
  /\ root = Zram
  /\ usr = Medium
  /\ held \in {Live, {Zram}}    \* booted from an image file or from a stick

Begin(d, oem) ==
  /\ phase = "idle"
  /\ phase' = "busy" /\ plan' = [disk |-> d, oem |-> oem]
  /\ UNCHANGED <<root, usr, held>>

\* Where a session may stand after a move: it may already be known to have
\* failed, or that was the last thing under way.
Onward == [busy |-> {"busy", "failed"}, failed |-> {"failed"}, cut |-> {"idle"}]

MoveRoot ==
  /\ phase \in {"busy", "cut"} /\ ~plan.oem
  /\ root' = plan.disk
  /\ phase' \in Onward[phase]
  /\ UNCHANGED <<plan, usr, held>>

\* /usr follows the root, possibly after the failure was reported.
MoveUsr ==
  /\ phase \in DOMAIN Onward /\ ~plan.oem /\ root = plan.disk
  /\ usr' = plan.disk
  /\ phase' \in Onward[phase]
  /\ UNCHANGED <<plan, root, held>>

\* A resource nothing needs is torn down.
LetGo(r) ==
  /\ r \notin {root, usr}
  /\ held' = held \ {r}
  /\ UNCHANGED <<phase, plan, root, usr>>

\* Success is reported; the medium may be let go of in the same step.
Finish ==
  /\ phase = "busy"
  /\ \/ plan.oem /\ UNCHANGED held
     \/ root = plan.disk /\ usr = plan.disk /\ held \subseteq {Medium} /\ held' = {}
  /\ phase' = "finished"
  /\ UNCHANGED <<plan, root, usr>>

Fail ==
  /\ phase = "busy" /\ phase' = "failed"
  /\ UNCHANGED <<plan, root, usr, held>>

\* The session ends, reported or cut short.
End ==
  /\ phase \in {"busy", "finished", "failed"}
  /\ phase' = "idle" \/ (phase # "finished" /\ phase' = "cut")
  /\ UNCHANGED <<plan, root, usr, held>>

\* What was under way is stopped, or fails; another session may begin.
Stop ==
  /\ phase = "cut" /\ phase' = "idle"
  /\ UNCHANGED <<plan, root, usr, held>>

Next ==
  \/ \E d \in Disks, oem \in BOOLEAN : Begin(d, oem)
  \/ MoveRoot \/ MoveUsr \/ Finish \/ Fail \/ End \/ Stop
  \/ \E r \in Live : LetGo(r)

Spec == Init /\ [][Next]_vars

=============================================================================
