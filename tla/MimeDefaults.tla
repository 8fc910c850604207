---------------------------- MODULE MimeDefaults ----------------------------
(***************************************************************************)
(* generate.py of gnome-mimeapps: the default applications of every media   *)
(* type, from the applications of the system and quirks.toml.  Applications *)
(* come in no particular order; two sorts and the overrides make the list.  *)
(***************************************************************************)
EXTENDS Naturals, Sequences, FiniteSets, SequencesExt

CONSTANTS
  Apps,    \* the identifiers of applications, in alphabetical order
  Types,   \* media types
  Systems, \* installed applications with the types they support
  Quirks   \* contents of quirks.toml: skip_apps, incubating, override

Ids == {Apps[i] : i \in DOMAIN Apps}

AppsAssumption ==
  Apps \in Seq(Ids) /\ \A i, j \in DOMAIN Apps : Apps[i] = Apps[j] => i = j
InputsAssumption ==
  /\ \A s \in Systems : DOMAIN s \subseteq Ids /\ \A a \in DOMAIN s : s[a] \subseteq Types
  /\ \A q \in Quirks :
       /\ q.skip_apps \subseteq Ids
       /\ DOMAIN q.incubating \subseteq Ids /\ \A a \in DOMAIN q.incubating : q.incubating[a] \in Ids
       /\ DOMAIN q.override \subseteq Types /\ \A t \in DOMAIN q.override : q.override[t] \in Seq(Ids)

VARIABLES
  system,  \* the applications to scan
  quirks,  \* the quirks
  types,   \* types: a list of applications for each type that has one
  was,     \* overridden_types
  todo,    \* applications not scanned, then overrides not applied
  step     \* "scan", "sort", "override", "written" or "raised"

vars == <<system, quirks, types, was, todo, step>>

None == <<>>

Init ==
  /\ system \in Systems /\ quirks \in Quirks
  /\ types = [t \in {} |-> None] /\ was = types
  /\ todo = DOMAIN system /\ step = "scan"

Scan(a) ==
  /\ step = "scan" /\ a \in todo /\ todo' = todo \ {a}
  /\ types' = IF a \in quirks.skip_apps THEN types
              ELSE [t \in DOMAIN types \cup system[a] |->
                      IF t \notin DOMAIN types THEN <<a>>
                      ELSE IF t \in system[a] THEN Append(types[t], a) ELSE types[t]]
  /\ UNCHANGED <<system, quirks, was, step>>

------------------------------------------------------------------------------
\* Mutant of Before: the core application is put before the incubating one.
Before_Swapped(a, b) == b \in DOMAIN quirks.incubating /\ quirks.incubating[b] = a

(* _cmp_incubating: negative exactly when a is to replace b.                *)
Before(a, b) == a \in DOMAIN quirks.incubating /\ quirks.incubating[a] = b

(* list.sort of a short list, with what is smaller given by Before: it      *)
(* keeps the run that the list begins with, reversed if it descends, and    *)
(* inserts what follows by binary search.                                   *)
Descends(s) == Len(s) > 1 /\ Before(s[2], s[1])

FirstRun(s) ==
  CHOOSE n \in 1 .. Len(s) :
    /\ \A i \in 2 .. n : Before(s[i], s[i - 1]) <=> Descends(s)
    /\ n < Len(s) => ~ (Before(s[n + 1], s[n]) <=> Descends(s))

Insert(s, a) ==
  LET range[n \in 0 .. Len(s)] ==     \* after n rounds of the search
        IF n = 0 THEN <<1, Len(s) + 1>>
        ELSE LET l == range[n - 1][1]
                 r == range[n - 1][2]
                 p == l + (r - l) \div 2
             IN  IF l >= r THEN range[n - 1] ELSE IF Before(a, s[p]) THEN <<l, p>> ELSE <<p + 1, r>>
  IN InsertAt(s, range[Len(s)][1], a)

SortIncubating(s) ==
  LET n == IF s = None THEN 0 ELSE FirstRun(s)
      run == SubSeq(s, 1, n)
      sorted[i \in 0 .. Len(s) - n] ==
        IF i = 0 THEN (IF Descends(s) THEN Reverse(run) ELSE run) ELSE Insert(sorted[i - 1], s[n + i])
  IN sorted[Len(s) - n]

(* apps.sort().                                                             *)
Alphabetical(s) ==
  LET kept[n \in 0 .. Len(Apps)] ==
        IF n = 0 THEN None
        ELSE IF \E i \in DOMAIN s : s[i] = Apps[n] THEN Append(kept[n - 1], Apps[n]) ELSE kept[n - 1]
  IN kept[Len(Apps)]

Sort ==
  /\ step = "scan" /\ todo = {}
  /\ types' = [t \in DOMAIN types |-> SortIncubating(Alphabetical(types[t]))]
  /\ step' = "override" /\ todo' = DOMAIN quirks.override
  /\ UNCHANGED <<system, quirks, was>>

------------------------------------------------------------------------------
(* An empty override takes the type out; the type has to be there.          *)
Override(t) ==
  /\ step = "override" /\ t \in todo /\ todo' = todo \ {t}
  /\ was' = [u \in DOMAIN was \cup {t} |->
               IF u # t THEN was[u] ELSE IF t \in DOMAIN types THEN types[t] ELSE None]
  /\ IF quirks.override[t] # <<>>
     THEN /\ types' = [u \in DOMAIN types \cup {t} |-> IF u = t THEN quirks.override[t] ELSE types[u]]
          /\ UNCHANGED step
     ELSE /\ types' = [u \in DOMAIN types \ {t} |-> types[u]]
          /\ step' = IF t \in DOMAIN types THEN step ELSE "raised"
  /\ UNCHANGED <<system, quirks>>

Write ==
  /\ step = "override" /\ todo = {} /\ step' = "written"
  /\ UNCHANGED <<system, quirks, types, was, todo>>

Next == (\E a \in Ids : Scan(a)) \/ Sort \/ (\E t \in Types : Override(t)) \/ Write

Spec == Init /\ [][Next]_vars

------------------------------------------------------------------------------
(* What is said of a type once the sorts are done: the list made by them,   *)
(* which the override that may have taken its place still records.          *)
Made(t) == IF t \in DOMAIN was THEN was[t] ELSE IF t \in DOMAIN types THEN types[t] ELSE None
Candidates(t) == {a \in DOMAIN system \ quirks.skip_apps : t \in system[a]}
Earlier(s, a, b) == \E i, j \in DOMAIN s : i < j /\ s[i] = a /\ s[j] = b
AreSorted == step \in {"override", "written"}

(* The variables keep their types, and no type is left with an empty list.  *)
TypeOK ==
  /\ system \in Systems /\ quirks \in Quirks
  /\ step \in {"scan", "override", "written", "raised"}
  /\ todo \subseteq Ids \cup Types /\ DOMAIN types \cup DOMAIN was \subseteq Types
  /\ \A t \in DOMAIN types : types[t] \in Seq(Ids) /\ types[t] # <<>>

(* quirks.toml:19: an incubating application is listed before the core      *)
(* application it replaces.  The sorts do that, whatever other pairs there  *)
(* are, but for two cases: the alphabet puts the core application first and *)
(* others of the type in between, or the core application replaces another  *)
(* one itself.                                                              *)
NeighbourFirst ==
  AreSorted => \A t \in Types : \A a \in Candidates(t) \cap DOMAIN quirks.incubating :
    LET b == quirks.incubating[a] IN
      /\ b \in Candidates(t) /\ a # b /\ b \notin DOMAIN quirks.incubating
      /\ ~ \E c \in Candidates(t) : Earlier(Apps, b, c) /\ Earlier(Apps, c, a)
      => Earlier(Made(t), a, b)

=============================================================================
