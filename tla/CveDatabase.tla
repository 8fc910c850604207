----------------------------- MODULE CveDatabase -----------------------------
(***************************************************************************)
(* update-local-cve-database.py: a script that brings a database of         *)
(* vulnerabilities in step with the feeds of a server, one feed per year    *)
(* and at last the feed of recent modifications.  The database is one       *)
(* transaction per run; the downloaded feeds are files beside it, which are *)
(* not part of the transaction.  The database keeps the etag of every feed, *)
(* so that a feed that did not change is read from its file.                *)
(*                                                                          *)
(* There is one entry per year, and its content is the number of times it   *)
(* was modified, 0 if there is no entry.  Each content names products of    *)
(* its own: the rows it has in product_vuln are the content itself.         *)
(***************************************************************************)
EXTENDS Naturals, Sequences, FiniteSets

CONSTANTS
  Years,      \* the feeds of the years
  Modified,   \* the feed of recent modifications
  Order,      \* the years in the order of range(2002, ...)
  Missing,    \* no file
  Truncated,  \* a file whose body is not complete
  MaxRev,     \* bound: modifications of an entry
  MaxFaults   \* bound: timeouts, errors and crashes

YearsAssumption ==
  /\ IsFiniteSet(Years) /\ Modified \notin Years
  /\ Order \in Seq(Years) /\ Years = {Order[i] : i \in 1 .. Len(Order)}
BoundsAssumption == MaxRev \in Nat /\ MaxFaults \in Nat

Feeds == Years \cup {Modified}

(* What the server has for a feed; etag 0 is a feed that is not there yet.  *)
Feed == [etag : Nat, has : [Years -> Nat]]

FilesAssumption == Missing \notin Feed /\ Truncated \notin Feed /\ Missing # Truncated

VARIABLES
  server,  \* the feeds of the server
  file,    \* the downloaded feeds
  db,      \* the committed tables: etags, cve and product_vuln
  tx,      \* the tables as the run sees them
  phase,   \* "off", or where the run stands with the feed it is at
  at,      \* how many feeds the run is through with
  got,     \* the version whose body is being read
  faults,  \* faults so far
  since,   \* what the server had when the run began
  late     \* whether the run has used a file for a feed that did not come

run == <<since, late>>
vars == <<server, file, db, tx, phase, at, got, faults, run>>

Tables == [etags : [Feeds -> Nat], cve : [Years -> Nat], vuln : [Years -> SUBSET Nat]]
NoEntries == [y \in Years |-> 0]
NoFeed == [etag |-> 0, has |-> NoEntries]

(* The feeds in the order in which the run updates them.                    *)
Updates == Append(Order, Modified)
feed == Updates[at + 1]

Truth(y) == IF server[Modified].has[y] > server[y].has[y]
            THEN server[Modified].has[y] ELSE server[y].has[y]

Init ==
  /\ server = [f \in Feeds |-> IF f = Modified THEN [etag |-> 1, has |-> NoEntries] ELSE NoFeed]
  /\ file = [f \in Feeds |-> Missing]
  /\ db = [etags |-> [f \in Feeds |-> 0], cve |-> NoEntries, vuln |-> [y \in Years |-> {}]]
  /\ tx = db /\ phase = "off" /\ at = 0 /\ got = NoFeed /\ faults = 0
  /\ since = NoEntries /\ late = FALSE

------------------------------------------------------------------------------
(* The server.  A modification appears in Modified first and in the feed of *)
(* its year later; Modified keeps it for eight days, longer than a run.     *)
Changed(f, y, rev) ==
  [server EXCEPT ![f] = [etag |-> @.etag + 1, has |-> [@.has EXCEPT ![y] = rev]]]

Serves == UNCHANGED <<file, db, tx, phase, at, got, faults, run>>

Modify(y) == Truth(y) < MaxRev /\ server' = Changed(Modified, y, Truth(y) + 1) /\ Serves

CatchUp(y) ==
  /\ server[y].etag = 0 \/ server[y].has[y] < Truth(y)
  /\ server' = Changed(y, y, Truth(y)) /\ Serves

Expire(y) ==
  /\ phase = "off" /\ server[Modified].has[y] # 0 /\ server[y].has[y] = Truth(y)
  /\ server' = Changed(Modified, y, 0) /\ Serves

------------------------------------------------------------------------------
(* The run.  A run that raises, is killed or ends closes the database: what *)
(* it did not commit is gone, what it wrote to files is not.                *)
Over(tables) ==
  /\ phase' = "off" /\ at' = 0 /\ tx' = tables /\ got' = NoFeed
  /\ since' = NoEntries /\ late' = FALSE

NextFeed == at' = at + 1 /\ phase' = "request"

Start ==
  /\ phase = "off"
  /\ phase' = "request" /\ since' = [y \in Years |-> Truth(y)]
  /\ UNCHANGED <<server, file, db, tx, at, got, faults, late>>

Requesting == phase = "request" /\ at < Len(Updates)

(* 304 is for a request with an etag only, and only when it is the feed's.  *)
NotModified ==
  /\ Requesting /\ tx.etags[feed] # 0 /\ tx.etags[feed] = server[feed].etag
  /\ phase' = "parse"
  /\ UNCHANGED <<server, file, db, tx, at, got, faults, run>>

(* 404: the feed is left out.                                               *)
NotFound ==
  /\ Requesting /\ server[feed].etag = 0 /\ NextFeed
  /\ UNCHANGED <<server, file, db, tx, got, faults, run>>

\* Mutant of Respond: every feed's etag is committed when it is known.
Respond_Commits ==
  /\ Requesting /\ server[feed].etag \notin {0, tx.etags[feed]}
  /\ got' = server[feed]
  /\ tx' = [tx EXCEPT !.etags[feed] = server[feed].etag]
  /\ db' = tx'
  /\ file' = [file EXCEPT ![feed] = Truncated]
  /\ phase' = "body"
  /\ UNCHANGED <<server, at, faults, run>>

(* 200: the etag goes into the transaction, the file is emptied.            *)
Respond ==
  /\ Requesting /\ server[feed].etag \notin {0, tx.etags[feed]}
  /\ got' = server[feed]
  /\ tx' = [tx EXCEPT !.etags[feed] = server[feed].etag]
  /\ file' = [file EXCEPT ![feed] = Truncated]
  /\ phase' = "body"
  /\ UNCHANGED <<server, db, at, faults, run>>

Read ==
  /\ phase = "body" /\ phase' = "parse"
  /\ file' = [file EXCEPT ![feed] = got] /\ got' = NoFeed
  /\ UNCHANGED <<server, db, tx, at, faults, run>>

(* A timeout before the response or in its body, of a request that was made *)
(* with an etag: the file is used as it is.                                 *)
Timeout ==
  /\ faults < MaxFaults /\ faults' = faults + 1
  /\ Requesting \/ phase = "body"
  /\ db.etags[feed] # 0
  /\ phase' = "parse" /\ got' = NoFeed /\ late' = TRUE
  /\ UNCHANGED <<server, file, db, tx, at, since>>

\* Mutant of Fail: a run that ends keeps the transaction for the next one.
Fail_Keeps ==
  /\ faults < MaxFaults /\ faults' = faults + 1
  /\ phase # "off" /\ Over(tx)
  /\ UNCHANGED <<server, file, db>>

(* Any other error of the request, a body that ends early, SIGKILL.         *)
Fail ==
  /\ faults < MaxFaults /\ faults' = faults + 1
  /\ phase # "off" /\ Over(db)
  /\ UNCHANGED <<server, file, db>>

\* Mutant of Replaced: INSERT OR IGNORE.
Replaced_Ignored(rows, f) == [y \in Years |-> IF rows[y] # 0 THEN rows[y] ELSE f.has[y]]

(* INSERT OR REPLACE of every entry of a feed.                              *)
Replaced(rows, f) == [y \in Years |-> IF f.has[y] # 0 THEN f.has[y] ELSE rows[y]]

(* In product_vuln it replaces a row by the same row only: what an older    *)
(* content of the entry named stays.                                        *)
Added(rows, f) == [y \in Years |-> rows[y] \cup ({f.has[y]} \ {0})]

(* A file that is missing or truncated raises before a row is written.      *)
Parse ==
  /\ phase = "parse"
  /\ IF file[feed] \in {Missing, Truncated}
     THEN Over(db)
     ELSE /\ tx' = [tx EXCEPT !.cve = Replaced(@, file[feed]), !.vuln = Added(@, file[feed])]
          /\ NextFeed /\ UNCHANGED <<got, run>>
  /\ UNCHANGED <<server, file, db, faults>>

Commit ==
  /\ phase = "request" /\ at = Len(Updates)
  /\ db' = tx /\ Over(tx)
  /\ UNCHANGED <<server, file, faults>>

Run == Start \/ NotModified \/ NotFound \/ Respond \/ Read \/ Parse \/ Commit

Next ==
  \/ \E y \in Years : Modify(y) \/ CatchUp(y) \/ Expire(y)
  \/ Run \/ Timeout \/ Fail

Spec == Init /\ [][Next]_vars

------------------------------------------------------------------------------
(* The variables keep their types; outside of a run nothing is pending.     *)
TypeOK ==
  /\ server \in [Feeds -> Feed]
  /\ file \in [Feeds -> Feed \cup {Missing, Truncated}]
  /\ db \in Tables /\ tx \in Tables
  /\ phase \in {"off", "request", "body", "parse"} /\ at \in 0 .. Len(Updates)
  /\ got \in Feed
  /\ faults \in 0 .. MaxFaults /\ since \in [Years -> Nat] /\ late \in BOOLEAN
  /\ phase \in {"body", "parse"} => at < Len(Updates)
  /\ phase = "off" => tx = db /\ at = 0

(* The etag that is committed for a feed never gets ahead of its file: if   *)
(* the server will answer 304 to it, the file is complete and is what the   *)
(* server has.  The file is written outside of the transaction, is emptied  *)
(* before it is filled, and the run may end anywhere.                       *)
NotModifiedIsUsable ==
  \A f \in Feeds : db.etags[f] # 0 =>
    \/ db.etags[f] < server[f].etag
    \/ file[f] = server[f]

(* A run that is committed brings every entry to at least what the server   *)
(* had when the run began, and the products it then names are there: the    *)
(* feed of modifications comes last, a run that ended anywhere before leaves*)
(* no etag without its file, and what is modified meanwhile is in one feed  *)
(* or the other.  Excepted are runs that used a cached file after a timeout,*)
(* which may even take an entry back.  Products that a modification took    *)
(* away are not removed (update-local-cve-database.py:145).                 *)
Commits == phase = "request" /\ phase' = "off" /\ UNCHANGED faults
BringsUpToDate ==
  Commits /\ ~ late =>
    \A y \in Years : db'.cve[y] >= since[y] /\ (db'.cve[y] # 0 => db'.cve[y] \in db'.vuln[y])
Fresh == [][BringsUpToDate]_vars

=============================================================================
