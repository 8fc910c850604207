----------------------------- MODULE CiJobsProofs -----------------------------
(***************************************************************************)
(* The three jobs of CiJobs for any feeds, elements, pipelines and pushes,  *)
(* whatever fails and in whatever order they act.                           *)
(***************************************************************************)
EXTENDS CiJobs, TLAPS

(* The etags of the run are newer than the committed ones, and the server's *)
(* are newer still.                                                         *)
EtagsGrow ==
  \A f \in Cve!Feeds : db.etags[f] <= tx.etags[f] /\ tx.etags[f] <= server[f].etag

(* A body that is being read is that of the etag in the transaction.        *)
Body ==
  phase = "body" =>
    /\ file[Cve!feed] = Truncated /\ got.etag = tx.etags[Cve!feed]
    /\ got.etag < server[Cve!feed].etag \/ got = server[Cve!feed]

(* The etags of the transaction have their files, but for the feed whose    *)
(* body was cut short, which ends the run when it is parsed.                *)
Pending ==
  \A f \in Cve!Feeds : tx.etags[f] # 0 =>
    \/ tx.etags[f] < server[f].etag
    \/ file[f] = server[f]
    \/ phase \in {"body", "parse"} /\ f = Cve!feed /\ file[f] = Truncated

CveInv == Cve!TypeOK /\ EtagsGrow /\ Body /\ Pending /\ Cve!NotModifiedIsUsable

(* Modified has the newest of each entry it has, and the feed of a year no  *)
(* entry of another.                                                        *)
ServerInv ==
  /\ server[Modified].etag # 0
  /\ \A y \in Years :
       /\ server[y].etag = 0 => server[y].has[y] = 0
       /\ server[Modified].has[y] = 0 \/ server[y].has[y] <= server[Modified].has[y]

Own(body, f) == \A y \in Years : f \notin {y, Modified} => body.has[y] = 0
Complete(f) == file[f] \notin {Missing, Truncated}

Owned ==
  /\ \A f \in Cve!Feeds : Own(server[f], f) /\ (Complete(f) => Own(file[f], f))
  /\ phase = "body" => Own(got, Cve!feed)

(* While a run lasts no entry gets older, and none leaves Modified.         *)
Rises ==
  phase # "off" =>
    \A y \in Years : since[y] <= server[IF server[Modified].has[y] # 0 THEN Modified ELSE y].has[y]

(* A run has the entry of a year it is through with, or Modified has it;    *)
(* and so it is with the body it reads.                                     *)
Comes(y) == since[y] <= tx.cve[y] \/ server[Modified].has[y] # 0
Brings(body) ==
  IF Cve!feed \in Years
  THEN since[Cve!feed] <= body.has[Cve!feed] \/ server[Modified].has[Cve!feed] # 0
  ELSE \A y \in Years : since[y] <= (IF body.has[y] # 0 THEN body.has[y] ELSE tx.cve[y])

Reaches ==
  phase # "off" /\ ~ late =>
    /\ \A i \in 1 .. at : Cve!Updates[i] \in Years => Comes(Cve!Updates[i])
    /\ at = Len(Cve!Updates) => \A y \in Years : since[y] <= tx.cve[y]
    /\ phase = "body" => Brings(got)
    /\ phase = "parse" /\ Complete(Cve!feed) => Brings(file[Cve!feed])

Named ==
  \A y \in Years :
    /\ tx.cve[y] # 0 => tx.cve[y] \in tx.vuln[y]
    /\ db.cve[y] # 0 => db.cve[y] \in db.vuln[y]

FreshInv == ServerInv /\ Owned /\ Rises /\ Reaches /\ Named

(* Pipelines and requests take refs forward, and not past the upstream.     *)
Forward(base, refs) == \A f \in Track!Tracked : base[f] <= refs[f] /\ refs[f] <= upstream[f]

TrackInv ==
  /\ Track!TypeOK
  /\ \A f \in Track!Tracked : master[f] <= upstream[f]
  /\ \A m \in requests : Forward(m.base, m.refs)
  /\ \A j \in Jobs : Forward(job[j].base, job[j].refs)

(* The job looks at a note that is there and has a difference to show, and  *)
(* a push has at most one note of its own, when its job is done.            *)
NoteInv ==
  /\ Note!TypeOK /\ Note!Told /\ notes \in Seq([stamp : Note!Diffs, resolved : BOOLEAN])
  /\ step \in {"visit", "save"} => Note!Diff # Same
  /\ step = "save" => turn <= count
  /\ step # "done" => Len(notes) < head

IInv ==
  /\ which = "cve" => CveInv /\ FreshInv
  /\ which = "track" => TrackInv
  /\ which = "note" => NoteInv

------------------------------------------------------------------------------
(* The database of vulnerabilities.                                         *)
LEMMA CveFeeds ==
  /\ Cve!Updates \in Seq(Cve!Feeds) /\ Len(Cve!Updates) \in Nat
  /\ Cve!TypeOK /\ at < Len(Cve!Updates) => Cve!feed \in Cve!Feeds /\ at + 1 \in 0 .. Len(Cve!Updates)
<1>1. Order \in Seq(Cve!Feeds)
  <2>1. Order \in Seq(Years) BY CveInputs DEF Cve!YearsAssumption
  <2> QED BY <2>1 DEF Cve!Feeds
<1>2. Cve!Updates \in Seq(Cve!Feeds) BY <1>1 DEF Cve!Updates, Cve!Feeds
<1>3. ASSUME Cve!TypeOK, at < Len(Cve!Updates)
      PROVE  Cve!feed \in Cve!Feeds /\ at + 1 \in 0 .. Len(Cve!Updates)
  <2>1. at + 1 \in 1 .. Len(Cve!Updates) BY <1>2, <1>3 DEF Cve!TypeOK
  <2> HIDE DEF Cve!Updates
  <2> QED BY <1>2, <2>1 DEF Cve!feed
<1> QED BY <1>2, <1>3

LEMMA TruthType == Cve!TypeOK => \A y \in Years : Cve!Truth(y) \in Nat
  BY DEF Cve!TypeOK, Cve!Truth, Cve!Feed, Cve!Feeds

(* Whatever the server changes, one feed gets the next etag.                *)
LEMMA ServerStep ==
  ASSUME Cve!TypeOK, NEW y \in Years, Cve!Modify(y) \/ Cve!CatchUp(y) \/ Cve!Expire(y)
  PROVE  /\ server' \in [Cve!Feeds -> Cve!Feed]
         /\ \A f \in Cve!Feeds : server'[f] = server[f] \/ server'[f].etag = server[f].etag + 1
         /\ UNCHANGED <<file, db, tx, phase, at, got, faults, since, late>>
<1>1. ASSUME NEW f \in Cve!Feeds, NEW rev \in Nat, server' = Cve!Changed(f, y, rev)
      PROVE  /\ server' \in [Cve!Feeds -> Cve!Feed]
             /\ \A g \in Cve!Feeds : server'[g] = server[g] \/ server'[g].etag = server[g].etag + 1
  <2> DEFINE new == [etag |-> server[f].etag + 1, has |-> [server[f].has EXCEPT ![y] = rev]]
  <2>1. server[f] \in Cve!Feed BY DEF Cve!TypeOK
  <2>2. new \in Cve!Feed /\ new.etag = server[f].etag + 1 BY <2>1 DEF Cve!Feed
  <2>3. server' = [server EXCEPT ![f] = new] BY <1>1 DEF Cve!Changed
  <2> HIDE DEF new
  <2> QED BY <2>2, <2>3 DEF Cve!TypeOK
<1>2. y \in Cve!Feeds /\ Modified \in Cve!Feeds BY DEF Cve!Feeds
<1>3. CASE Cve!Modify(y) BY <1>1, <1>2, <1>3, TruthType DEF Cve!Modify, Cve!Serves, Cve!run
<1>4. CASE Cve!CatchUp(y) BY <1>1, <1>2, <1>4, TruthType DEF Cve!CatchUp, Cve!Serves, Cve!run
<1>5. CASE Cve!Expire(y) BY <1>1, <1>2, <1>5 DEF Cve!Expire, Cve!Serves, Cve!run
<1> QED BY <1>3, <1>4, <1>5

LEMMA NoFeedType == Cve!NoFeed \in Cve!Feed
  BY DEF Cve!NoFeed, Cve!NoEntries, Cve!Feed

LEMMA CveInit == Cve!Init => CveInv
<1> SUFFICES ASSUME Cve!Init PROVE CveInv OBVIOUS
<1>1. server \in [Cve!Feeds -> Cve!Feed]
  BY NoFeedType DEF Cve!Init, Cve!Feed, Cve!NoEntries
<1>2. \A f \in Cve!Feeds : server[f].etag \in Nat BY <1>1 DEF Cve!Feed
<1>3. db \in Cve!Tables /\ \A f \in Cve!Feeds : db.etags[f] = 0
  BY DEF Cve!Init, Cve!NoEntries, Cve!Tables
<1>4. Cve!TypeOK
  <2>1. since \in [Years -> Nat] /\ late \in BOOLEAN BY DEF Cve!Init, Cve!NoEntries
  <2> QED BY <1>1, <1>3, <2>1, NoFeedType, CveFeeds, CveInputs DEF Cve!Init, Cve!TypeOK, Cve!BoundsAssumption
<1> QED BY <1>2, <1>3, <1>4 DEF Cve!Init, CveInv, EtagsGrow, Body, Pending, Cve!NotModifiedIsUsable

(* What holds after a run has ended, however far it came.                   *)
LEMMA OverStep ==
  ASSUME CveInv, phase' = "off" /\ at' = 0 /\ got' = Cve!NoFeed, since' = Cve!NoEntries /\ late' = FALSE, tx' = db', UNCHANGED <<server, file>>,
         db' \in {db, tx}, phase \in {"body", "parse"} => db' = db, faults' \in 0 .. MaxCveFaults
  PROVE  CveInv'
<1>1. Cve!TypeOK'
  <2>1. /\ db' \in Cve!Tables
        /\ server' \in [Cve!Feeds -> Cve!Feed] /\ file' \in [Cve!Feeds -> Cve!Feed \cup {Missing, Truncated}]
    BY DEF CveInv, Cve!TypeOK
  <2>2. at' \in 0 .. Len(Cve!Updates) /\ got' \in Cve!Feed /\ since' \in [Years -> Nat] BY NoFeedType, CveFeeds DEF Cve!NoEntries
  <2> QED BY <2>1, <2>2 DEF Cve!TypeOK
<1>2. EtagsGrow'
  <2>1. \A f \in Cve!Feeds : db.etags[f] \in Nat /\ tx.etags[f] \in Nat /\ server[f].etag \in Nat
    BY DEF CveInv, Cve!TypeOK, Cve!Tables, Cve!Feed
  <2> QED BY <2>1 DEF CveInv, EtagsGrow
<1>3. Cve!NotModifiedIsUsable'
  <2>1. CASE db' = db BY <2>1 DEF CveInv, Cve!NotModifiedIsUsable
  <2>2. CASE db' = tx /\ phase \notin {"body", "parse"}
    BY <2>2 DEF CveInv, Pending, Cve!NotModifiedIsUsable
  <2> QED BY <2>1, <2>2
<1>4. Pending' /\ Body' BY <1>3 DEF Pending, Body, Cve!NotModifiedIsUsable
<1> QED BY <1>1, <1>2, <1>3, <1>4 DEF CveInv

LEMMA CveStep == CveInv /\ Cve!Next => CveInv'
<1> SUFFICES ASSUME CveInv, Cve!Next PROVE CveInv' OBVIOUS
<1>i. Cve!TypeOK /\ EtagsGrow /\ Body /\ Pending /\ Cve!NotModifiedIsUsable BY DEF CveInv
<1>n. \A f \in Cve!Feeds : db.etags[f] \in Nat /\ tx.etags[f] \in Nat /\ server[f].etag \in Nat
  BY <1>i DEF Cve!TypeOK, Cve!Tables, Cve!Feed
<1>1. ASSUME NEW y \in Years, Cve!Modify(y) \/ Cve!CatchUp(y) \/ Cve!Expire(y) PROVE CveInv'
  <2>1. /\ server' \in [Cve!Feeds -> Cve!Feed]
        /\ \A f \in Cve!Feeds : server'[f] = server[f] \/ server'[f].etag = server[f].etag + 1
        /\ UNCHANGED <<file, db, tx, phase, at, got, faults, since, late>>
    BY <1>1, <1>i, ServerStep
  <2>2. Cve!TypeOK' BY <1>i, <2>1 DEF Cve!TypeOK
  <2>3. UNCHANGED Cve!feed BY <2>1 DEF Cve!feed
  <2>4. EtagsGrow' BY <1>i, <1>n, <2>1 DEF EtagsGrow
  <2>5. Body'
    <3>1. phase = "body" => Cve!feed \in Cve!Feeds BY <1>i, CveFeeds DEF Cve!TypeOK
    <3> QED BY <1>i, <1>n, <2>1, <2>3, <3>1 DEF Body
  <2>6. Pending' BY <1>i, <1>n, <2>1, <2>3, <2>4 DEF Pending, EtagsGrow
  <2>7. Cve!NotModifiedIsUsable' BY <1>i, <1>n, <2>1, <2>4 DEF Cve!NotModifiedIsUsable, EtagsGrow
  <2> QED BY <2>2, <2>4, <2>5, <2>6, <2>7 DEF CveInv
<1>2. CASE Cve!Start
  <2>1. Cve!TypeOK' BY <1>2, <1>i, TruthType DEF Cve!Start, Cve!TypeOK
  <2> QED
    BY <1>2, <1>i, <2>1 DEF Cve!Start, CveInv, EtagsGrow, Body, Pending, Cve!NotModifiedIsUsable
<1>3. CASE Cve!NotModified
  <2>1. Cve!TypeOK' BY <1>3, <1>i DEF Cve!NotModified, Cve!Requesting, Cve!run, Cve!TypeOK
  <2> QED BY <1>3, <1>i, <2>1
         DEF Cve!NotModified, Cve!Requesting, CveInv, EtagsGrow, Body, Pending, Cve!NotModifiedIsUsable
<1>4. CASE Cve!NotFound
  <2>1. at + 1 \in 0 .. Len(Cve!Updates) BY <1>4, <1>i, CveFeeds DEF Cve!NotFound, Cve!Requesting
  <2>2. Cve!TypeOK' BY <1>4, <1>i, <2>1 DEF Cve!NotFound, Cve!Requesting, Cve!NextFeed, Cve!run, Cve!TypeOK
  <2> QED
    BY <1>4, <1>i, <2>2 DEF Cve!NotFound, Cve!Requesting, Cve!NextFeed, CveInv, EtagsGrow, Body, Pending,
                                  Cve!NotModifiedIsUsable
<1>5. CASE Cve!Respond
  <2> DEFINE f == Cve!feed
  <2>1. /\ f \in Cve!Feeds /\ at < Len(Cve!Updates) /\ server[f] \in Cve!Feed /\ server[f].etag # tx.etags[f]
        /\ phase = "request" /\ phase' = "body" /\ got' = server[f]
        /\ UNCHANGED <<server, db, at, faults, since, late>>
    BY <1>5, <1>i, CveFeeds DEF Cve!Respond, Cve!Requesting, Cve!run, Cve!TypeOK
  <2>2. Cve!feed' = f BY <2>1 DEF Cve!feed
  <2>3. /\ tx' = [tx EXCEPT !.etags[f] = server[f].etag]
        /\ file' = [file EXCEPT ![f] = Truncated]
    BY <1>5 DEF Cve!Respond
  <2> HIDE DEF f
  <2>4. /\ tx' \in Cve!Tables
        /\ tx'.etags[f] = server[f].etag /\ \A g \in Cve!Feeds \ {f} : tx'.etags[g] = tx.etags[g]
    BY <1>i, <1>n, <2>1, <2>3 DEF Cve!TypeOK, Cve!Tables
  <2>5. file'[f] = Truncated /\ \A g \in Cve!Feeds \ {f} : file'[g] = file[g]
    BY <1>i, <2>1, <2>3 DEF Cve!TypeOK
  <2>6. Cve!TypeOK'
    <3>1. file' \in [Cve!Feeds -> Cve!Feed \cup {Missing, Truncated}] BY <1>i, <2>3 DEF Cve!TypeOK
    <3> QED BY <1>i, <2>1, <2>4, <3>1 DEF Cve!TypeOK
  <2>7. tx.etags[f] < server[f].etag BY <1>i, <1>n, <2>1 DEF EtagsGrow
  <2>8. EtagsGrow' BY <1>i, <1>n, <2>1, <2>4, <2>7 DEF EtagsGrow
  <2>9. Body' BY <2>1, <2>2, <2>4, <2>5 DEF Body
  <2>10. Pending' BY <1>i, <2>1, <2>2, <2>4, <2>5 DEF Pending
  <2>11. Cve!NotModifiedIsUsable'
    <3>1. db.etags[f] < server[f].etag BY <1>i, <1>n, <2>1, <2>7 DEF EtagsGrow
    <3> QED BY <1>i, <2>1, <2>5, <3>1 DEF Cve!NotModifiedIsUsable
  <2> QED BY <2>6, <2>8, <2>9, <2>10, <2>11 DEF CveInv
<1>6. CASE Cve!Read
  <2> DEFINE f == Cve!feed
  <2>1. /\ f \in Cve!Feeds /\ phase = "body" /\ phase' = "parse" /\ got' = Cve!NoFeed
        /\ file' = [file EXCEPT ![f] = got]
        /\ UNCHANGED <<server, db, tx, at, faults, since, late>>
    BY <1>6, <1>i, CveFeeds DEF Cve!Read, Cve!run, Cve!TypeOK
  <2>2. got.etag = tx.etags[f] /\ (got.etag < server[f].etag \/ got = server[f])
    BY <1>i, <2>1 DEF Body
  <2>3. Cve!feed' = f BY <2>1 DEF Cve!feed
  <2> HIDE DEF f
  <2>4. file'[f] = got /\ \A g \in Cve!Feeds \ {f} : file'[g] = file[g] BY <1>i, <2>1 DEF Cve!TypeOK
  <2>5. Cve!TypeOK' BY <1>i, <2>1, NoFeedType DEF Cve!TypeOK
  <2>6. Pending'
    <3>1. \A g \in Cve!Feeds \ {f} : tx.etags[g] # 0 => tx.etags[g] < server[g].etag \/ file[g] = server[g]
      BY <1>i, <2>3 DEF Pending, f
    <3> QED BY <2>1, <2>2, <2>4, <3>1 DEF Pending
  <2>7. Cve!NotModifiedIsUsable'
    <3>1. db.etags[f] < server[f].etag \/ got = server[f] BY <1>i, <1>n, <2>1, <2>2 DEF EtagsGrow
    <3> QED BY <1>i, <2>1, <2>4, <3>1 DEF Cve!NotModifiedIsUsable
  <2> QED BY <1>i, <2>1, <2>5, <2>6, <2>7 DEF CveInv, EtagsGrow, Body
<1>7. CASE Cve!Timeout
  <2>1. /\ phase \in {"request", "body"} /\ at < Len(Cve!Updates) /\ phase' = "parse" /\ got' = Cve!NoFeed
        /\ UNCHANGED <<server, file, db, tx, at, since>> /\ late' = TRUE /\ faults' \in 0 .. MaxCveFaults
    BY <1>7, <1>i, CveInputs DEF Cve!Timeout, Cve!Requesting, Cve!TypeOK, Cve!BoundsAssumption
  <2>2. Cve!TypeOK' BY <1>i, <2>1, NoFeedType DEF Cve!TypeOK
  <2>3. UNCHANGED Cve!feed BY <2>1 DEF Cve!feed
  <2> QED BY <1>i, <2>1, <2>2, <2>3 DEF CveInv, EtagsGrow, Body, Pending, Cve!NotModifiedIsUsable
<1>8. CASE Cve!Fail
  <2>1. faults' \in 0 .. MaxCveFaults
    BY <1>8, <1>i, CveInputs DEF Cve!Fail, Cve!TypeOK, Cve!BoundsAssumption
  <2> QED BY <1>8, <2>1, OverStep DEF Cve!Fail, Cve!Over
<1>9. CASE Cve!Parse /\ file[Cve!feed] \in {Missing, Truncated}
  <2>1. faults' \in 0 .. MaxCveFaults BY <1>9, <1>i DEF Cve!Parse, Cve!TypeOK
  <2> QED BY <1>9, <2>1, OverStep DEF Cve!Parse, Cve!Over
<1>10. CASE Cve!Parse /\ file[Cve!feed] \notin {Missing, Truncated}
  <2> DEFINE f == Cve!feed
  <2>1. /\ f \in Cve!Feeds /\ at < Len(Cve!Updates) /\ at + 1 \in 0 .. Len(Cve!Updates)
        /\ phase = "parse" /\ phase' = "request" /\ at' = at + 1
        /\ file[f] \in Cve!Feed /\ tx' = [tx EXCEPT !.cve = Cve!Replaced(@, file[f]), !.vuln = Cve!Added(@, file[f])]
        /\ UNCHANGED <<server, file, db, faults, got, since, late>>
    BY <1>10, <1>i, CveFeeds DEF Cve!Parse, Cve!NextFeed, Cve!run, Cve!TypeOK
  <2>2. Cve!Replaced(tx.cve, file[f]) \in [Years -> Nat] /\ Cve!Added(tx.vuln, file[f]) \in [Years -> SUBSET Nat]
    BY <1>i, <2>1 DEF Cve!Replaced, Cve!Added, Cve!TypeOK, Cve!Tables, Cve!Feed
  <2>3. tx' \in Cve!Tables /\ tx'.etags = tx.etags
    BY <1>i, <2>1, <2>2 DEF Cve!TypeOK, Cve!Tables
  <2>4. Cve!TypeOK' BY <1>i, <2>1, <2>3 DEF Cve!TypeOK
  <2>5. Pending' BY <1>i, <1>10, <2>1, <2>3 DEF Pending
  <2> QED BY <1>i, <2>1, <2>3, <2>4, <2>5 DEF CveInv, EtagsGrow, Body, Cve!NotModifiedIsUsable
<1>11. CASE Cve!Commit
  <2>1. faults' \in 0 .. MaxCveFaults BY <1>11, <1>i DEF Cve!Commit, Cve!TypeOK
  <2> QED BY <1>11, <2>1, OverStep DEF Cve!Commit, Cve!Over
<1> QED BY <1>1, <1>2, <1>3, <1>4, <1>5, <1>6, <1>7, <1>8, <1>9, <1>10, <1>11 DEF Cve!Next, Cve!Run

------------------------------------------------------------------------------
(* What a run of the database brings.                                       *)
LEMMA UpdatesFacts ==
  /\ Len(Order) \in Nat /\ Len(Cve!Updates) = Len(Order) + 1 /\ Modified \notin Years
  /\ Cve!Updates[Len(Order) + 1] = Modified
  /\ \A i \in 1 .. Len(Order) : Cve!Updates[i] \in Years
  /\ \A y \in Years : \E i \in 1 .. Len(Order) : Cve!Updates[i] = y
<1>1. Order \in Seq(Years) /\ Modified \notin Years /\ Years = {Order[i] : i \in 1 .. Len(Order)}
  BY CveInputs DEF Cve!YearsAssumption
<1>2. Len(Order) \in Nat /\ Len(Cve!Updates) = Len(Order) + 1 BY <1>1 DEF Cve!Updates
<1>3. Cve!Updates[Len(Order) + 1] = Modified BY <1>1 DEF Cve!Updates
<1>4. \A i \in 1 .. Len(Order) : Cve!Updates[i] = Order[i] BY <1>1 DEF Cve!Updates
<1> QED BY <1>1, <1>2, <1>3, <1>4

LEMMA FeedFacts ==
  ASSUME Cve!TypeOK, at < Len(Cve!Updates)
  PROVE  /\ at \in Nat /\ Cve!feed \in Years \cup {Modified}
         /\ Cve!feed = Modified <=> at = Len(Order)
         /\ Cve!feed \in Years <=> at # Len(Order)
<1>1. at \in 0 .. Len(Order) BY UpdatesFacts DEF Cve!TypeOK
<1>2. CASE at = Len(Order) BY <1>2, UpdatesFacts DEF Cve!feed
<1>3. CASE at # Len(Order)
  <2>1. at + 1 \in 1 .. Len(Order) BY <1>1, <1>3, UpdatesFacts
  <2> QED BY <1>1, <1>3, <2>1, UpdatesFacts DEF Cve!feed
<1> QED BY <1>2, <1>3, <1>1

LEMMA Numbers ==
  ASSUME Cve!TypeOK
  PROVE  \A y \in Years :
           /\ since[y] \in Nat /\ tx.cve[y] \in Nat /\ Cve!Truth(y) \in Nat
           /\ \A f \in Cve!Feeds : server[f].etag \in Nat /\ server[f].has[y] \in Nat
  BY TruthType DEF Cve!TypeOK, Cve!Tables, Cve!Feed

LEMMA FreshInit == Cve!Init => FreshInv
<1> SUFFICES ASSUME Cve!Init PROVE FreshInv OBVIOUS
<1>1. /\ server[Modified].etag = 1 /\ \A f \in Cve!Feeds, y \in Years : server[f].has[y] = 0
      /\ \A f \in Cve!Feeds : file[f] = Missing
      /\ phase = "off" /\ tx = db /\ \A y \in Years : db.cve[y] = 0
  BY DEF Cve!Init, Cve!NoFeed, Cve!NoEntries, Cve!Feeds
<1>2. Years \subseteq Cve!Feeds /\ Modified \in Cve!Feeds BY DEF Cve!Feeds
<1> QED BY <1>1, <1>2 DEF FreshInv, ServerInv, Owned, Own, Complete, Rises, Reaches, Named

(* The server while nothing else happens.                                   *)
LEMMA ChangedFeed ==
  ASSUME Cve!TypeOK, NEW f \in Cve!Feeds, NEW y \in Years, NEW rev \in Nat, server' = Cve!Changed(f, y, rev)
  PROVE  \A g \in Cve!Feeds :
           /\ server'[g].etag = IF g = f THEN server[g].etag + 1 ELSE server[g].etag
           /\ \A z \in Years : server'[g].has[z] = IF g = f /\ z = y THEN rev ELSE server[g].has[z]
<1> DEFINE new == [etag |-> server[f].etag + 1, has |-> [server[f].has EXCEPT ![y] = rev]]
<1>1. server[f].has \in [Years -> Nat] BY DEF Cve!TypeOK, Cve!Feed
<1>2. new.etag = server[f].etag + 1 /\ \A z \in Years : new.has[z] = IF z = y THEN rev ELSE server[f].has[z]
  BY <1>1
<1>3. server' = [server EXCEPT ![f] = new] BY DEF Cve!Changed
<1>4. server'[f] = new /\ \A g \in Cve!Feeds \ {f} : server'[g] = server[g] BY <1>3 DEF Cve!TypeOK
<1> HIDE DEF new
<1> QED BY <1>2, <1>4

LEMMA ServerKeeps ==
  ASSUME Cve!TypeOK, FreshInv, NEW y \in Years, Cve!Modify(y) \/ Cve!CatchUp(y) \/ Cve!Expire(y)
  PROVE  FreshInv'
<1>y. Years \subseteq Cve!Feeds /\ Modified \in Cve!Feeds /\ Modified \notin Years
  BY UpdatesFacts DEF Cve!Feeds
<1>n. /\ Cve!Truth(y) \in Nat /\ server[y].has[y] <= Cve!Truth(y) /\ server[Modified].has[y] <= Cve!Truth(y)
      /\ server[Modified].has[y] = 0 => Cve!Truth(y) = server[y].has[y]
      /\ server[Modified].has[y] # 0 => Cve!Truth(y) = server[Modified].has[y]
  BY Numbers, <1>y DEF Cve!Truth, FreshInv, ServerInv
<1>u. UNCHANGED <<file, db, tx, phase, at, got, since, late>> /\ Cve!feed' = Cve!feed
  BY DEF Cve!Modify, Cve!CatchUp, Cve!Expire, Cve!Serves, Cve!run, Cve!feed
<1> DEFINE Grows == \A z \in Years : /\ server[Modified].has[z] <= server'[Modified].has[z]
                                     /\ server[z].has[z] <= server'[z].has[z]
<1>1. /\ ServerInv' /\ (\A f \in Cve!Feeds : Own(server[f], f)')
      /\ phase # "off" => Grows
  <2>1. CASE Cve!Modify(y)
    <3>1. server' = Cve!Changed(Modified, y, Cve!Truth(y) + 1) /\ Cve!Truth(y) + 1 \in Nat
      BY <2>1, <1>n DEF Cve!Modify
    <3> QED BY <3>1, <1>y, <1>n, ChangedFeed, Numbers DEF FreshInv, ServerInv, Owned, Own
  <2>2. CASE Cve!CatchUp(y)
    <3>1. server' = Cve!Changed(y, y, Cve!Truth(y)) BY <2>2 DEF Cve!CatchUp
    <3> QED BY <3>1, <1>y, <1>n, ChangedFeed, Numbers DEF FreshInv, ServerInv, Owned, Own
  <2>3. CASE Cve!Expire(y)
    <3>1. server' = Cve!Changed(Modified, y, 0) /\ phase = "off" BY <2>3 DEF Cve!Expire
    <3> QED BY <3>1, <1>y, <1>n, ChangedFeed, Numbers DEF FreshInv, ServerInv, Owned, Own
  <2> QED BY <2>1, <2>2, <2>3
<1>2. Owned' BY <1>1, <1>u DEF FreshInv, Owned, Own, Complete
<1>t. \A z \in Years : server'[Modified].has[z] \in Nat /\ server'[z].has[z] \in Nat
  BY ServerStep, <1>y DEF Cve!Feed
<1>3. phase # "off" => \A z \in Years : server[Modified].has[z] # 0 => server'[Modified].has[z] # 0
  BY <1>1, <1>t, <1>y, Numbers
<1>4. Rises'
  <2> SUFFICES ASSUME phase # "off", NEW z \in Years
               PROVE  since[z] <= server'[IF server'[Modified].has[z] # 0 THEN Modified ELSE z].has[z]
    BY <1>u DEF Rises
  <2>1. since[z] <= server[IF server[Modified].has[z] # 0 THEN Modified ELSE z].has[z]
    BY DEF FreshInv, Rises
  <2>2. server'[Modified].has[z] = 0 \/ server'[z].has[z] <= server'[Modified].has[z] BY <1>1 DEF ServerInv
  <2>3. since[z] \in Nat /\ server[Modified].has[z] \in Nat /\ server[z].has[z] \in Nat BY Numbers, <1>y
  <2> QED BY <1>1, <1>3, <1>t, <2>1, <2>2, <2>3
<1>5. Reaches'
  <2>1. phase # "off" => \A z \in Years : Comes(z) => Comes(z)' BY <1>3, <1>u DEF Comes
  <2>2. ASSUME NEW body, NEW next, next = body, Brings(body), phase # "off"
        PROVE  Brings(body)'
    BY <2>2, <1>3, <1>u DEF Brings
  <2> QED BY <2>1, <1>3, <1>u DEF FreshInv, Reaches, Complete, Brings
<1> QED BY <1>1, <1>2, <1>4, <1>5, <1>u DEF FreshInv, Named

(* What the server has for the feed that is requested brings the run on.    *)
LEMMA ServerBrings ==
  ASSUME Cve!TypeOK, FreshInv, phase = "request", at < Len(Cve!Updates), ~ late
  PROVE  Brings(server[Cve!feed])
<1>y. Years \subseteq Cve!Feeds /\ Modified \in Cve!Feeds /\ Modified \notin Years
  BY UpdatesFacts DEF Cve!Feeds
<1>1. \A y \in Years : since[y] <= server[IF server[Modified].has[y] # 0 THEN Modified ELSE y].has[y]
  BY DEF FreshInv, Rises
<1>2. CASE Cve!feed \in Years BY <1>1, <1>2 DEF Brings
<1>3. CASE Cve!feed = Modified
  <2>1. at = Len(Order) /\ at \in Nat BY <1>3, FeedFacts
  <2>2. ASSUME NEW y \in Years, server[Modified].has[y] = 0 PROVE since[y] <= tx.cve[y]
    <3>1. PICK i \in 1 .. at : Cve!Updates[i] = y BY <2>1, UpdatesFacts
    <3>2. Comes(y) BY <3>1 DEF FreshInv, Reaches
    <3> QED BY <3>2, <2>2 DEF Comes
  <2>3. ASSUME NEW y \in Years, server[Modified].has[y] # 0
        PROVE  since[y] <= server[Modified].has[y]
    BY <1>1, <2>3
  <2> QED BY <1>3, <1>y, <2>2, <2>3 DEF Brings
<1> QED BY <1>2, <1>3, FeedFacts

LEMMA FreshOver ==
  ASSUME FreshInv, phase' = "off", UNCHANGED <<server, file>>, tx' = db', db' \in {db, tx}
  PROVE  FreshInv'
<1>1. ServerInv' BY DEF FreshInv, ServerInv
<1>2. Owned' BY DEF FreshInv, Owned, Own, Complete
<1>3. Named' BY DEF FreshInv, Named
<1> QED BY <1>1, <1>2, <1>3 DEF FreshInv, Rises, Reaches

LEMMA FreshStep == CveInv /\ FreshInv /\ Cve!Next => FreshInv'
<1> SUFFICES ASSUME CveInv, FreshInv, Cve!Next PROVE FreshInv' OBVIOUS
<1>i. Cve!TypeOK /\ Pending /\ ServerInv /\ Owned /\ Rises /\ Reaches /\ Named BY DEF CveInv, FreshInv
<1>y. Years \subseteq Cve!Feeds /\ Modified \in Cve!Feeds /\ Modified \notin Years
  BY UpdatesFacts DEF Cve!Feeds
<1>l. Len(Cve!Updates) = Len(Order) + 1 /\ Len(Order) \in Nat BY UpdatesFacts
<1>f. at < Len(Cve!Updates) => Cve!feed \in Cve!Feeds BY <1>i, CveFeeds
<1>1. ASSUME NEW y \in Years, Cve!Modify(y) \/ Cve!CatchUp(y) \/ Cve!Expire(y) PROVE FreshInv'
  BY <1>1, <1>i, ServerKeeps
<1>2. CASE Cve!Start
  <2>1. /\ phase = "off" /\ phase' = "request" /\ at = 0 /\ since' = [y \in Years |-> Cve!Truth(y)]
        /\ UNCHANGED <<server, file, db, tx, at, got, late>>
    BY <1>2, <1>i DEF Cve!Start, Cve!TypeOK
  <2>2. Rises'
    <3>1. \A y \in Years :
            /\ server[Modified].has[y] \in Nat /\ server[y].has[y] \in Nat
            /\ server[Modified].has[y] = 0 \/ server[y].has[y] <= server[Modified].has[y]
      BY <1>i, <1>y, Numbers DEF ServerInv
    <3> QED BY <2>1, <3>1 DEF Rises, Cve!Truth
  <2>3. Reaches' BY <2>1, <1>l DEF Reaches
  <2> QED BY <1>i, <2>1, <2>2, <2>3 DEF FreshInv, ServerInv, Owned, Own, Complete, Named
<1>3. CASE Cve!NotModified
  <2>1. /\ phase = "request" /\ phase' = "parse" /\ at < Len(Cve!Updates)
        /\ tx.etags[Cve!feed] # 0 /\ tx.etags[Cve!feed] = server[Cve!feed].etag
        /\ UNCHANGED <<server, file, db, tx, at, got, since, late>>
    BY <1>3 DEF Cve!NotModified, Cve!Requesting, Cve!run
  <2>2. Cve!feed' = Cve!feed BY <2>1 DEF Cve!feed
  <2>3. file[Cve!feed] = server[Cve!feed]
    BY <1>i, <1>f, <2>1, Numbers DEF Pending, Cve!TypeOK, Cve!Feed
  <2>4. ~ late => Brings(file[Cve!feed]) BY <1>i, <2>1, <2>3, ServerBrings DEF FreshInv
  <2>5. Reaches' BY <1>i, <2>1, <2>2, <2>4 DEF Reaches, Brings, Comes, Complete
  <2> QED BY <1>i, <2>1, <2>5 DEF FreshInv, ServerInv, Owned, Own, Complete, Rises, Named
<1>4. CASE Cve!NotFound
  <2>1. /\ phase = "request" /\ phase' = "request" /\ at < Len(Cve!Updates) /\ at' = at + 1
        /\ server[Cve!feed].etag = 0
        /\ UNCHANGED <<server, file, db, tx, got, since, late>>
    BY <1>4 DEF Cve!NotFound, Cve!Requesting, Cve!NextFeed, Cve!run
  <2>2. /\ at \in Nat /\ Cve!feed \in Years /\ at # Len(Order) /\ server[Cve!feed].has[Cve!feed] = 0
    BY <1>i, <2>1, FeedFacts DEF ServerInv
  <2>3. Comes(Cve!feed)
    BY <1>i, <1>y, <2>1, <2>2, Numbers DEF Rises, Comes
  <2>4. Reaches'
    <3>1. Cve!Updates[at + 1] = Cve!feed BY DEF Cve!feed
    <3> QED BY <1>i, <1>l, <2>1, <2>2, <2>3, <3>1 DEF Reaches, Comes
  <2> QED BY <1>i, <2>1, <2>4 DEF FreshInv, ServerInv, Owned, Own, Complete, Rises, Named
<1>5. CASE Cve!Respond
  <2>1. /\ phase = "request" /\ phase' = "body" /\ at < Len(Cve!Updates) /\ got' = server[Cve!feed]
        /\ tx' = [tx EXCEPT !.etags[Cve!feed] = server[Cve!feed].etag]
        /\ file' = [file EXCEPT ![Cve!feed] = Truncated]
        /\ UNCHANGED <<server, db, at, since, late>>
    BY <1>5 DEF Cve!Respond, Cve!Requesting, Cve!run
  <2>2. Cve!feed' = Cve!feed BY <2>1 DEF Cve!feed
  <2>3. tx'.cve = tx.cve /\ tx'.vuln = tx.vuln BY <1>i, <2>1 DEF Cve!TypeOK, Cve!Tables
  <2>4. \A g \in Cve!Feeds : Complete(g)' => file'[g] = file[g] /\ Complete(g)
    BY <1>i, <1>f, <2>1 DEF Complete, Cve!TypeOK
  <2>5. Owned' BY <1>i, <1>f, <2>1, <2>2, <2>4 DEF Owned, Own
  <2>6. ~ late => Brings(server[Cve!feed]) BY <1>i, <2>1, ServerBrings DEF FreshInv
  <2>7. Reaches' BY <1>i, <2>1, <2>2, <2>3, <2>6 DEF Reaches, Brings, Comes
  <2> QED BY <1>i, <2>1, <2>3, <2>5, <2>7 DEF FreshInv, ServerInv, Rises, Named
<1>6. CASE Cve!Read
  <2>1. /\ phase = "body" /\ phase' = "parse" /\ at < Len(Cve!Updates)
        /\ file' = [file EXCEPT ![Cve!feed] = got]
        /\ UNCHANGED <<server, db, tx, at, since, late>>
    BY <1>6, <1>i DEF Cve!Read, Cve!run, Cve!TypeOK
  <2>2. Cve!feed' = Cve!feed BY <2>1 DEF Cve!feed
  <2>3. file'[Cve!feed] = got /\ \A g \in Cve!Feeds \ {Cve!feed} : file'[g] = file[g]
    BY <1>i, <1>f, <2>1 DEF Cve!TypeOK
  <2>4. Owned' BY <1>i, <1>f, <2>1, <2>2, <2>3 DEF Owned, Own, Complete
  <2>5. Reaches' BY <1>i, <2>1, <2>2, <2>3 DEF Reaches, Brings, Comes
  <2> QED BY <1>i, <2>1, <2>4, <2>5 DEF FreshInv, ServerInv, Rises, Named
<1>7. CASE Cve!Timeout
  <2>1. phase # "off" /\ phase' = "parse" /\ late' = TRUE /\ UNCHANGED <<server, file, db, tx, at, since>>
    BY <1>7 DEF Cve!Timeout, Cve!Requesting
  <2> QED BY <1>i, <2>1 DEF FreshInv, ServerInv, Owned, Own, Complete, Rises, Reaches, Named
<1>8. CASE Cve!Fail BY <1>8, FreshOver DEF Cve!Fail, Cve!Over
<1>9. CASE Cve!Parse /\ file[Cve!feed] \in {Missing, Truncated} BY <1>9, FreshOver DEF Cve!Parse, Cve!Over
<1>10. CASE Cve!Parse /\ file[Cve!feed] \notin {Missing, Truncated}
  <2> DEFINE body == file[Cve!feed]
  <2>1. /\ phase = "parse" /\ phase' = "request" /\ at < Len(Cve!Updates) /\ at' = at + 1 /\ Complete(Cve!feed)
        /\ tx' = [tx EXCEPT !.cve = Cve!Replaced(@, body), !.vuln = Cve!Added(@, body)]
        /\ UNCHANGED <<server, file, db, got, since, late>>
    BY <1>10, <1>i DEF Cve!Parse, Cve!NextFeed, Cve!run, Cve!TypeOK, Complete
  <2>2. body \in Cve!Feed /\ Own(body, Cve!feed) /\ (~ late => Brings(body))
    BY <1>i, <1>f, <2>1 DEF Owned, Reaches, Cve!TypeOK, Complete
  <2> HIDE DEF body
  <2>3. /\ tx'.cve = Cve!Replaced(tx.cve, body) /\ tx'.vuln = Cve!Added(tx.vuln, body)
    BY <1>i, <2>1 DEF Cve!TypeOK, Cve!Tables
  <2>4. \A y \in Years : /\ tx'.cve[y] = IF body.has[y] # 0 THEN body.has[y] ELSE tx.cve[y]
                         /\ tx'.vuln[y] = tx.vuln[y] \cup ({body.has[y]} \ {0})
    BY <2>3 DEF Cve!Replaced, Cve!Added
  <2>5. Named' BY <1>i, <2>1, <2>4 DEF Named
  <2>6. at \in Nat /\ (Cve!feed \in Years \/ Cve!feed = Modified) /\ (Cve!feed = Modified <=> at = Len(Order))
    BY <1>i, <2>1, FeedFacts
  <2>7. ASSUME ~ late, Cve!feed = Modified, NEW y \in Years PROVE since[y] <= tx'.cve[y]
    BY <1>y, <2>2, <2>4, <2>7 DEF Brings
  <2>8. ASSUME ~ late, NEW i \in 1 .. at + 1, Cve!Updates[i] \in Years PROVE Comes(Cve!Updates[i])'
    <3> DEFINE z == Cve!Updates[i]
    <3> HIDE DEF z
    <3>1. z \in Years BY <2>8 DEF z
    <3>2. since[z] \in Nat /\ body.has[z] \in Nat BY <1>i, <2>2, <3>1, Numbers DEF Cve!Feed
    <3>3. CASE Cve!feed = Modified BY <2>1, <2>7, <2>8, <3>1, <3>3 DEF Comes, z
    <3>4. CASE Cve!feed = z
      BY <1>i, <2>1, <2>2, <2>4, <2>8, <3>1, <3>2, <3>4, Numbers DEF Comes, Brings, z
    <3>5. CASE Cve!feed \notin {z, Modified}
      <4>1. i \in 1 .. at BY <2>6, <3>5 DEF z, Cve!feed
      <4>2. Comes(z) BY <1>i, <2>1, <2>8, <4>1 DEF Reaches, z
      <4>3. body.has[z] = 0 BY <2>2, <3>1, <3>5 DEF Own
      <4> QED BY <2>1, <2>4, <3>1, <4>2, <4>3 DEF Comes, z
    <3> QED BY <3>3, <3>4, <3>5
  <2>9. Reaches' BY <1>l, <2>1, <2>6, <2>7, <2>8 DEF Reaches
  <2> QED BY <1>i, <2>1, <2>5, <2>9 DEF FreshInv, ServerInv, Owned, Own, Complete, Rises
<1>11. CASE Cve!Commit BY <1>11, FreshOver DEF Cve!Commit, Cve!Over
<1> QED BY <1>1, <1>2, <1>3, <1>4, <1>5, <1>6, <1>7, <1>8, <1>9, <1>10, <1>11 DEF Cve!Next, Cve!Run

(* Only Commit ends a run without a fault in front of a request.            *)
LEMMA RunsBring == CveInv /\ FreshInv /\ Cve!Next => Cve!BringsUpToDate
<1> SUFFICES ASSUME CveInv, FreshInv, Cve!Next, Cve!Commits, ~ late, NEW y \in Years
             PROVE  db'.cve[y] >= since[y] /\ (db'.cve[y] # 0 => db'.cve[y] \in db'.vuln[y])
  BY DEF Cve!BringsUpToDate
<1>1. Cve!Commit
  <2>1. phase = "request" /\ phase' = "off" /\ UNCHANGED faults /\ Cve!TypeOK BY DEF Cve!Commits, CveInv
  <2>2. faults \in Nat BY <2>1, CveInputs DEF Cve!TypeOK, Cve!BoundsAssumption
  <2>3. ~ \E z \in Years : Cve!Modify(z) \/ Cve!CatchUp(z) \/ Cve!Expire(z)
    BY <2>1 DEF Cve!Modify, Cve!CatchUp, Cve!Expire, Cve!Serves
  <2>4. ~ Cve!Timeout /\ ~ Cve!Fail BY <2>1, <2>2 DEF Cve!Timeout, Cve!Fail
  <2> QED BY <2>1, <2>3, <2>4 DEF Cve!Next, Cve!Run, Cve!Start, Cve!NotModified, Cve!NotFound, Cve!NextFeed,
                                  Cve!Respond, Cve!Read, Cve!Parse
<1>2. db' = tx /\ phase = "request" /\ at = Len(Cve!Updates) BY <1>1 DEF Cve!Commit
<1>3. since[y] <= tx.cve[y] BY <1>2 DEF FreshInv, Reaches
<1>4. since[y] \in Nat /\ tx.cve[y] \in Nat BY Numbers DEF CveInv
<1> QED BY <1>2, <1>3, <1>4 DEF FreshInv, Named

------------------------------------------------------------------------------
(* The bot that tracks refs.                                                *)
LEMMA TrackInit == Track!Init => TrackInv
<1> SUFFICES ASSUME Track!Init PROVE TrackInv OBVIOUS
<1>1. MaxRef \in Nat \ {0} /\ MaxFailures \in Nat /\ (CHOOSE m \in Minutes : TRUE) \in Minutes
  BY TrackInputs DEF Track!BoundsAssumption
<1>2. upstream \in Track!Refs /\ master = upstream /\ \A f \in Track!Tracked : upstream[f] = 1
  BY <1>1 DEF Track!Init, Track!Refs
<1>3. Track!TypeOK BY <1>1, <1>2 DEF Track!Init, Track!TypeOK, Track!Stages
<1> QED BY <1>2, <1>3 DEF Track!Init, TrackInv, Forward

LEMMA TrackStep == TrackInv /\ Track!Next => TrackInv'
<1> SUFFICES ASSUME TrackInv, Track!Next PROVE TrackInv' OBVIOUS
<1> USE TrackInputs DEF Track!BoundsAssumption
<1> DEFINE Job == [at : Track!Stages, branch : Minutes, base : Track!Refs, refs : Track!Refs]
<1>i. /\ upstream \in Track!Refs /\ master \in Track!Refs /\ requests \subseteq Track!Request
      /\ job \in [Jobs -> Job] /\ failures \in 0 .. MaxFailures
  BY DEF TrackInv, Track!TypeOK
<1>r. \A r \in Track!Refs, f \in Track!Tracked : r[f] \in 1 .. MaxRef /\ r[f] \in Nat
  BY DEF Track!Refs
<1> HIDE DEF Job
<1>j. \A p \in Job : p.base \in Track!Refs /\ p.refs \in Track!Refs /\ p.branch \in Minutes /\ p.at \in Track!Stages
  BY DEF Job
<1>m. \A m \in Track!Request : m.base \in Track!Refs /\ m.refs \in Track!Refs BY DEF Track!Request
<1>t. ASSUME upstream' \in Track!Refs, master' \in Track!Refs, requests' \subseteq Track!Request,
             job' \in [Jobs -> Job], failures' \in 0 .. MaxFailures
      PROVE  Track!TypeOK'
  BY <1>t DEF Track!TypeOK, Job
<1>1. ASSUME NEW f \in Track!Tracked, Track!Release(f) PROVE TrackInv'
  <2>1. upstream[f] + 1 \in 1 .. MaxRef BY <1>1, <1>i, <1>r DEF Track!Release
  <2>2. upstream' \in Track!Refs BY <1>1, <1>i, <2>1 DEF Track!Release, Track!Refs
  <2>3. \A g \in Track!Tracked : upstream[g] <= upstream'[g]
    BY <1>1, <1>i, <1>r DEF Track!Release, Track!Refs
  <2>4. UNCHANGED <<master, requests, job, failures>> BY <1>1 DEF Track!Release
  <2>5. ASSUME NEW base, NEW refs \in Track!Refs, Forward(base, refs) PROVE Forward(base, refs)'
    BY <1>i, <1>r, <2>2, <2>3, <2>5 DEF Forward
  <2>6. \A g \in Track!Tracked : master'[g] <= upstream'[g]
    BY <1>i, <1>r, <2>2, <2>3, <2>4 DEF TrackInv
  <2>7. \A m \in requests : Forward(m.base, m.refs)' BY <1>i, <1>m, <2>5 DEF TrackInv
  <2>8. \A j \in Jobs : Forward(job[j].base, job[j].refs)'
    <3>1. \A j \in Jobs : job[j].refs \in Track!Refs /\ Forward(job[j].base, job[j].refs)
      BY <1>i, <1>j DEF TrackInv
    <3> QED BY <2>3, <2>4, <3>1, <1>i, <1>r, <2>2 DEF Forward
  <2> QED BY <1>i, <1>t, <2>2, <2>4, <2>6, <2>7, <2>8 DEF TrackInv, Forward
<1>2. ASSUME NEW f \in Track!Tracked, Track!Change(f) PROVE TrackInv'
  <2>1. PICK r \in 1 .. upstream[f] : master' = [master EXCEPT ![f] = r] BY <1>2 DEF Track!Change
  <2>2. r \in 1 .. MaxRef /\ r <= upstream[f] BY <1>i, <1>r, <2>1
  <2>3. master' \in Track!Refs BY <1>i, <2>1, <2>2 DEF Track!Refs
  <2>4. \A g \in Track!Tracked : master'[g] <= upstream[g]
    BY <1>i, <2>1, <2>2 DEF TrackInv, Track!Refs
  <2>5. UNCHANGED <<upstream, requests, job>> /\ failures' \in 0 .. MaxFailures
    BY <1>2, <1>i DEF Track!Change
  <2> QED BY <1>i, <1>t, <2>3, <2>4, <2>5 DEF TrackInv, Forward
<1>3. ASSUME NEW m \in requests, Track!Merge(m) PROVE TrackInv'
  <2>1. m.base \in Track!Refs /\ m.refs \in Track!Refs /\ Forward(m.base, m.refs)
    BY <1>i, <1>m DEF TrackInv
  <2>2. /\ master' = [f \in Track!Tracked |-> IF m.refs[f] # m.base[f] THEN m.refs[f] ELSE master[f]]
        /\ requests' \subseteq requests /\ UNCHANGED <<upstream, job, failures>>
    BY <1>3 DEF Track!Merge
  <2>3. master' \in Track!Refs BY <1>i, <2>1, <2>2 DEF Track!Refs
  <2>4. \A g \in Track!Tracked : master'[g] <= upstream[g] BY <2>1, <2>2 DEF TrackInv, Forward
  <2> QED BY <1>i, <1>t, <2>2, <2>3, <2>4 DEF TrackInv, Forward
<1>4. ASSUME NEW m \in requests, Track!Close(m) PROVE TrackInv'
  <2>1. requests' \subseteq requests /\ UNCHANGED <<upstream, master, job>> /\ failures' \in 0 .. MaxFailures
    BY <1>4, <1>i DEF Track!Close
  <2> QED BY <1>i, <1>t, <2>1 DEF TrackInv, Forward
<1>5. ASSUME NEW j \in Jobs, NEW p \in Job, Forward(p.base, p.refs), job' = [job EXCEPT ![j] = p],
             UNCHANGED <<upstream, master>>, requests' \subseteq Track!Request,
             \A m \in requests' : Forward(m.base, m.refs), failures' \in 0 .. MaxFailures
      PROVE  TrackInv'
  <2>1. job' \in [Jobs -> Job] BY <1>5, <1>i
  <2>2. \A k \in Jobs : Forward(job'[k].base, job'[k].refs) BY <1>5, <1>i DEF TrackInv
  <2> QED BY <1>5, <1>i, <1>t, <2>1, <2>2 DEF TrackInv, Forward
<1>6. ASSUME NEW j \in Jobs
      PROVE  job[j] \in Job /\ Forward(job[j].base, job[j].refs)
  BY <1>i DEF TrackInv
<1>s. {"ended", "list", "track", "commit", "push"} = Track!Stages BY DEF Track!Stages
<1>7. ASSUME NEW j \in Jobs, Track!Begin(j) PROVE TrackInv'
  <2> DEFINE p == [job[j] EXCEPT !.at = "list", !.base = master, !.refs = master]
  <2>1. p \in Job /\ p.base = master /\ p.refs = master BY <1>i, <1>6, <1>s DEF Job
  <2>2. job' = [job EXCEPT ![j] = p] /\ UNCHANGED <<upstream, master, requests, failures>>
    BY <1>7 DEF Track!Begin
  <2> HIDE DEF p
  <2>3. Forward(p.base, p.refs) BY <1>i, <1>r, <2>1 DEF TrackInv, Forward
  <2> QED BY <1>5, <1>i, <2>1, <2>2, <2>3 DEF TrackInv
<1>8. ASSUME NEW j \in Jobs, Track!ListRequests(j) \/ Track!Fail(j) PROVE TrackInv'
  <2>1. PICK x \in Track!Stages : job' = [job EXCEPT ![j] = [job[j] EXCEPT !.at = x]]
    BY <1>8, <1>s DEF Track!ListRequests, Track!Fail
  <2> DEFINE p == [job[j] EXCEPT !.at = x]
  <2>2. p \in Job /\ p.base = job[j].base /\ p.refs = job[j].refs BY <1>6 DEF Job
  <2>3. UNCHANGED <<upstream, master, requests>> /\ failures' \in 0 .. MaxFailures
    BY <1>8, <1>i DEF Track!ListRequests, Track!Fail
  <2> HIDE DEF p
  <2> QED BY <1>5, <1>6, <1>i, <2>1, <2>2, <2>3 DEF p, TrackInv
<1>9. ASSUME NEW j \in Jobs, Track!Track(j) PROVE TrackInv'
  <2> DEFINE refs == [f \in Track!Tracked |-> IF f \in Track!Written THEN upstream[f] ELSE job[j].refs[f]]
  <2>1. PICK m \in Minutes : job' = [job EXCEPT ![j] = [job[j] EXCEPT !.at = "commit", !.branch = m, !.refs = refs]]
    BY <1>9 DEF Track!Track
  <2>2. refs \in Track!Refs BY <1>i, <1>6, <1>j DEF Track!Refs
  <2>3. Forward(job[j].base, refs)
    <3>1. job[j].base \in Track!Refs /\ job[j].refs \in Track!Refs BY <1>6, <1>j
    <3>2. \A f \in Track!Tracked : job[j].base[f] <= upstream[f]
      BY <1>6, <1>i, <1>r, <3>1 DEF Forward
    <3>3. \A f \in Track!Tracked : upstream[f] <= upstream[f] BY <1>i, <1>r
    <3> QED BY <1>6, <3>2, <3>3 DEF Forward
  <2> HIDE DEF refs
  <2> DEFINE p == [job[j] EXCEPT !.at = "commit", !.branch = m, !.refs = refs]
  <2>4. p \in Job /\ p.base = job[j].base /\ p.refs = refs BY <1>6, <1>s, <2>2 DEF Job
  <2>5. UNCHANGED <<upstream, master, requests, failures>> BY <1>9 DEF Track!Track
  <2>6. job' = [job EXCEPT ![j] = p] BY <2>1
  <2> HIDE DEF p
  <2> QED BY <1>5, <1>i, <2>3, <2>4, <2>5, <2>6 DEF TrackInv
<1>10. ASSUME NEW j \in Jobs, Track!Commit(j) PROVE TrackInv'
  <2> DEFINE refs == Track!Restore(j)
             x == IF refs = job[j].base THEN "ended" ELSE "push"
             p == [job[j] EXCEPT !.refs = refs, !.at = x]
  <2>1. job' = [job EXCEPT ![j] = p] /\ UNCHANGED <<upstream, master, requests, failures>>
    BY <1>10 DEF Track!Commit
  <2>2. job[j].base \in Track!Refs /\ job[j].refs \in Track!Refs BY <1>6, <1>j
  <2>3. refs \in Track!Refs BY <2>2 DEF Track!Restore, Track!Refs
  <2>4. Forward(job[j].base, refs)
    <3>1. \A f \in Track!Tracked : job[j].base[f] <= upstream[f] /\ job[j].base[f] <= job[j].base[f]
      BY <1>6, <1>i, <1>r, <2>2 DEF Forward
    <3> QED BY <1>6, <3>1 DEF Track!Restore, Forward
  <2>5. x \in Track!Stages BY <1>s
  <2> HIDE DEF refs, x
  <2>6. p \in Job /\ p.base = job[j].base /\ p.refs = refs BY <1>6, <2>3, <2>5 DEF Job
  <2> HIDE DEF p
  <2> QED BY <1>5, <1>i, <2>1, <2>4, <2>6 DEF TrackInv
<1>11. ASSUME NEW j \in Jobs, Track!Push(j) PROVE TrackInv'
  <2> DEFINE p == [job[j] EXCEPT !.at = "ended"]
             m == [branch |-> job[j].branch, base |-> job[j].base, refs |-> job[j].refs]
  <2>1. job' = [job EXCEPT ![j] = p] /\ requests' \subseteq requests \cup {m} /\ UNCHANGED <<upstream, master, failures>>
    BY <1>11 DEF Track!Push
  <2>2. p \in Job /\ p.base = job[j].base /\ p.refs = job[j].refs BY <1>6, <1>s DEF Job
  <2>3. m \in Track!Request /\ m.base = job[j].base /\ m.refs = job[j].refs
    BY <1>6, <1>j DEF Track!Request
  <2> HIDE DEF p, m
  <2>4. \A n \in requests' : Forward(n.base, n.refs) BY <1>6, <2>1, <2>3 DEF TrackInv
  <2> QED BY <1>5, <1>6, <1>i, <2>1, <2>2, <2>3, <2>4
<1> QED BY <1>1, <1>2, <1>3, <1>4, <1>7, <1>8, <1>9, <1>10, <1>11 DEF Track!Next, Track!Step

(* A request is merged where nothing changed under it.                      *)
LEMMA MergesForward == TrackInv /\ Track!Next => Track!MergeKeeps
<1> SUFFICES ASSUME TrackInv, Track!Next, NEW m \in requests, m \notin requests', master' # master,
                    NEW f \in Track!Tracked
             PROVE  master'[f] >= master[f]
  BY DEF Track!MergeKeeps
<1>1. master[f] \in Nat
  BY TrackInputs DEF TrackInv, Track!TypeOK, Track!Refs, Track!BoundsAssumption
<1>2. PICK n \in requests : Track!Merge(n)
  BY DEF Track!Next, Track!Release, Track!Change, Track!Close, Track!Begin, Track!Step, Track!ListRequests,
         Track!Track, Track!Commit, Track!Push, Track!Fail
<1>3. n.base[f] <= n.refs[f] BY DEF TrackInv, Forward
<1>4. n.refs[f] # n.base[f] => master[f] = n.base[f] BY <1>2 DEF Track!Merge, Track!Conflicts
<1>5. n.base[f] \in Nat /\ n.refs[f] \in Nat
  BY TrackInputs DEF TrackInv, Track!TypeOK, Track!Request, Track!Refs, Track!BoundsAssumption
<1> QED BY <1>1, <1>2, <1>3, <1>4, <1>5 DEF Track!Merge

------------------------------------------------------------------------------
(* The note about the list of media types.                                  *)
LEMMA DiffType ==
  Note!TypeOK => /\ Len(history) \in Nat /\ head \in 1 .. Len(history)
                 /\ Note!Diff \in Note!Diffs \cup {Same}
<1> SUFFICES ASSUME Note!TypeOK
             PROVE /\ Len(history) \in Nat /\ head \in 1 .. Len(history)
                   /\ Note!Diff \in Note!Diffs \cup {Same}
  OBVIOUS
<1>1. history \in Histories /\ head \in 1 .. Len(history) BY DEF Note!TypeOK
<1>2. history \in Seq(Note!Diffs \cup {Same}) BY <1>1, NoteInputs DEF Note!HistoriesAssumption
<1> QED BY <1>1, <1>2 DEF Note!Diff

LEMMA NoteInit == Note!Init => NoteInv
<1> SUFFICES ASSUME Note!Init PROVE NoteInv OBVIOUS
<1>1. history \in Histories /\ Len(history) \in Nat /\ Len(history) > 0
  BY NoteInputs DEF Note!Init, Note!HistoriesAssumption
<1>2. head = 1 /\ notes = <<>> /\ step = "building" /\ turn = 1 /\ count = 0 BY DEF Note!Init
<1>3. Len(notes) = 0 /\ DOMAIN notes = {} BY <1>2
<1>4. Note!TypeOK BY <1>1, <1>2, <1>3 DEF Note!TypeOK
<1> QED BY <1>2, <1>3, <1>4 DEF NoteInv, Note!Told

(* A note that is edited, resolved or reopened stays where it is.           *)
LEMMA NoteStep == NoteInv /\ Note!Next => NoteInv'
<1> SUFFICES ASSUME NoteInv, Note!Next PROVE NoteInv' OBVIOUS
<1> DEFINE Shown == [stamp : Note!Diffs, resolved : BOOLEAN]
<1>i. /\ Note!TypeOK /\ Note!Told /\ notes \in Seq(Shown)
      /\ step \in {"visit", "save"} => Note!Diff # Same
      /\ step = "save" => turn <= count
      /\ step # "done" => Len(notes) < head
  BY DEF NoteInv
<1>d. Len(history) \in Nat /\ head \in 1 .. Len(history) /\ Note!Diff \in Note!Diffs \cup {Same}
  BY <1>i, DiffType
<1>e. \A n \in Shown : /\ n.stamp \in Note!Diffs /\ n.resolved \in BOOLEAN
                       /\ \A d \in Note!Diffs : [n EXCEPT !.stamp = d] \in Shown
                       /\ \A b \in BOOLEAN : [n EXCEPT !.resolved = b] \in Shown
  OBVIOUS
<1>f. \A d \in Note!Diffs : Note!Note(d) \in Shown BY DEF Note!Note
<1>t. ASSUME history' \in Histories, head' \in 1 .. Len(history'), Len(notes') \in 0 .. head',
             notes' \in Seq(Shown), step' \in {"building", "visit", "save", "done", "failed"},
             turn' \in 1 .. Len(notes') + 1, count' \in 0 .. Len(notes')
      PROVE  Note!TypeOK'
  <2>1. \A i \in DOMAIN notes' : notes'[i] \in Shown
    <3> HIDE DEF Shown
    <3> QED BY <1>t
  <2> QED BY <1>t, <2>1 DEF Note!TypeOK
<1> HIDE DEF Shown
<1>l. Len(notes) \in Nat /\ DOMAIN notes = 1 .. Len(notes) BY <1>i
<1>1. CASE Note!Push
  <2>1. /\ history' = history /\ notes' = notes /\ head' = head + 1 /\ head' \in 1 .. Len(history)
        /\ step' = "building" /\ turn' = 1 /\ count' = 0
    BY <1>1, <1>d DEF Note!Push
  <2>2. Len(notes) < head' /\ Len(notes) \in 0 .. head' BY <1>i, <1>d, <2>1 DEF Note!TypeOK
  <2>3. Note!TypeOK' BY <1>i, <1>l, <1>t, <2>1, <2>2 DEF Note!TypeOK
  <2> QED BY <1>i, <2>1, <2>2, <2>3 DEF NoteInv, Note!Told, Shown
<1>2. CASE Note!Compare
  <2>1. UNCHANGED <<history, head, notes, turn>> /\ count' = Len(notes)
        /\ step' = (IF Note!Diff = Same THEN "done" ELSE "visit") /\ Note!Diff' = Note!Diff
    BY <1>2 DEF Note!Compare, Note!Diff
  <2>2. Note!TypeOK' BY <1>i, <1>l, <1>t, <2>1 DEF Note!TypeOK
  <2>3. step # "done" BY <1>2 DEF Note!Compare
  <2> QED BY <1>i, <2>1, <2>2, <2>3 DEF NoteInv, Note!Told, Shown
<1>3. CASE Note!Visit
  <2>1. UNCHANGED <<history, head, notes, count>> /\ step = "visit" /\ turn <= count /\ Note!Diff' = Note!Diff
        /\ \/ notes[turn].stamp = Note!Diff /\ step' = "done" /\ turn' = turn
           \/ step' = "save" /\ turn' = turn
           \/ step' = "visit" /\ turn' = turn + 1
    BY <1>3 DEF Note!Visit, Note!Diff
  <2>2. turn \in DOMAIN notes /\ turn' \in 1 .. Len(notes) + 1 BY <1>i, <1>l, <2>1 DEF Note!TypeOK
  <2>3. Note!TypeOK' BY <1>i, <1>t, <2>1, <2>2 DEF Note!TypeOK
  <2> QED BY <1>i, <2>1, <2>2, <2>3 DEF NoteInv, Note!Told, Shown
<1>4. CASE Note!Save
  <2>1. /\ UNCHANGED <<history, head, turn, count>> /\ step = "save" /\ step' = "done"
        /\ notes' = [notes EXCEPT ![turn] = [notes[turn] EXCEPT !.stamp = Note!Diff]] /\ Note!Diff' = Note!Diff
    BY <1>4 DEF Note!Save, Note!Diff
  <2>2. turn \in DOMAIN notes BY <1>i, <1>l, <2>1 DEF Note!TypeOK
  <2> DEFINE n == [notes[turn] EXCEPT !.stamp = Note!Diff]
  <2>3. n \in Shown /\ n.stamp = Note!Diff
    <3>1. Note!Diff \in Note!Diffs /\ notes[turn] \in Shown BY <1>d, <1>i, <2>1, <2>2
    <3> QED BY <1>e, <3>1 DEF Shown
  <2>4. notes' = [notes EXCEPT ![turn] = n] BY <2>1
  <2> HIDE DEF n
  <2>5. notes' \in Seq(Shown) /\ Len(notes') = Len(notes) /\ turn \in DOMAIN notes' /\ notes'[turn].stamp = Note!Diff
    BY <1>i, <2>2, <2>3, <2>4
  <2>6. Note!TypeOK' BY <1>i, <1>t, <2>1, <2>5 DEF Note!TypeOK
  <2> QED BY <2>1, <2>5, <2>6 DEF NoteInv, Note!Told, Shown
<1>5. CASE Note!Create
  <2>1. /\ UNCHANGED <<history, head, turn, count>> /\ step = "visit" /\ step' = "done"
        /\ notes' = Append(notes, Note!Note(Note!Diff)) /\ Note!Diff' = Note!Diff
    BY <1>5 DEF Note!Create, Note!Diff
  <2>2. Note!Note(Note!Diff) \in Shown /\ Note!Note(Note!Diff).stamp = Note!Diff
    BY <1>d, <1>f, <1>i, <2>1 DEF Note!Note
  <2>3. /\ notes' \in Seq(Shown) /\ Len(notes') = Len(notes) + 1 /\ Len(notes') \in DOMAIN notes'
        /\ notes'[Len(notes')].stamp = Note!Diff
    BY <1>i, <2>1, <2>2
  <2>4. Len(notes') \in 0 .. head BY <1>d, <1>i, <1>l, <2>1, <2>3
  <2>5. Note!TypeOK' BY <1>i, <1>l, <1>t, <2>1, <2>3, <2>4 DEF Note!TypeOK
  <2> QED BY <2>1, <2>3, <2>5 DEF NoteInv, Note!Told, Shown
<1>6. CASE Note!Fail \/ Note!Retry
  <2>1. UNCHANGED <<history, head, notes, count>> /\ step # "done" /\ step' \in {"failed", "building"}
        /\ turn' \in {1, turn}
    BY <1>6 DEF Note!Fail, Note!Retry
  <2>2. Note!TypeOK' BY <1>i, <1>l, <1>t, <2>1 DEF Note!TypeOK
  <2> QED BY <1>i, <2>1, <2>2 DEF NoteInv, Note!Told, Shown
<1>7. ASSUME NEW i \in DOMAIN notes, Note!Resolve(i) \/ Note!Reopen(i) PROVE NoteInv'
  <2>1. PICK b \in BOOLEAN : notes' = [notes EXCEPT ![i] = [notes[i] EXCEPT !.resolved = b]]
    BY <1>7 DEF Note!Resolve, Note!Reopen
  <2>2. UNCHANGED <<history, head, step, turn, count>> /\ Note!Diff' = Note!Diff
    BY <1>7 DEF Note!Resolve, Note!Reopen, Note!Diff
  <2> DEFINE n == [notes[i] EXCEPT !.resolved = b]
  <2>3. n \in Shown /\ n.stamp = notes[i].stamp
    <3>1. notes[i] \in Shown BY <1>i
    <3> QED BY <1>e, <3>1 DEF Shown
  <2>4. notes' = [notes EXCEPT ![i] = n] BY <2>1
  <2> HIDE DEF n
  <2>5. notes' \in Seq(Shown) /\ Len(notes') = Len(notes) /\ DOMAIN notes' = DOMAIN notes
        /\ \A k \in DOMAIN notes : notes'[k].stamp = notes[k].stamp
    BY <1>i, <2>3, <2>4
  <2>6. Note!TypeOK' BY <1>i, <1>t, <2>2, <2>5 DEF Note!TypeOK
  <2> QED BY <1>i, <2>2, <2>5, <2>6 DEF NoteInv, Note!Told, Shown
<1> QED BY <1>1, <1>2, <1>3, <1>4, <1>5, <1>6, <1>7 DEF Note!Next, Note!Job

------------------------------------------------------------------------------
(* A behaviour of the three is one of the job it runs.                      *)
LEMMA InitInv == Init => IInv
  BY CveInit, FreshInit, TrackInit, NoteInit DEF Init, IInv

LEMMA Stutter ==
  /\ CveInv /\ FreshInv /\ UNCHANGED cve => CveInv' /\ FreshInv'
  /\ TrackInv /\ UNCHANGED track => TrackInv'
  /\ NoteInv /\ UNCHANGED note => NoteInv'
<1>1. CveInv /\ UNCHANGED cve => CveInv'
  BY DEF cve, CveInv, Cve!TypeOK, EtagsGrow, Body, Pending, Cve!NotModifiedIsUsable, Cve!feed
<1>2. FreshInv /\ UNCHANGED cve => FreshInv'
  BY DEF cve, FreshInv, ServerInv, Owned, Own, Complete, Rises, Reaches, Brings, Comes, Named, Cve!feed
<1>3. TrackInv /\ UNCHANGED track => TrackInv'
  BY DEF track, TrackInv, Track!TypeOK, Forward
<1>4. NoteInv /\ UNCHANGED note => NoteInv'
  BY DEF note, NoteInv, Note!TypeOK, Note!Told, Note!Diff
<1> QED BY <1>1, <1>2, <1>3, <1>4

LEMMA StepInv == IInv /\ [Next]_vars => IInv'
<1> SUFFICES ASSUME IInv, [Next]_vars PROVE IInv' OBVIOUS
<1>1. CASE OfCve(Cve!Next) BY <1>1, CveStep, FreshStep DEF OfCve, IInv
<1>2. CASE OfTrack(Track!Next) BY <1>2, TrackStep DEF OfTrack, IInv
<1>3. CASE OfNote(Note!Next) BY <1>3, NoteStep DEF OfNote, IInv
<1>4. CASE UNCHANGED vars BY <1>4, Stutter DEF vars, IInv
<1> QED BY <1>1, <1>2, <1>3, <1>4 DEF Next

LEMMA IInvAlways == Spec => []IInv
  BY InitInv, StepInv, PTL DEF Spec

(* The variables of each job keep their types.                              *)
THEOREM JobTypes == Spec => []TypeOK
<1>1. IInv => TypeOK BY DEF IInv, TypeOK, CveInv, TrackInv, NoteInv
<1> QED BY <1>1, IInvAlways, PTL

(* update-local-cve-database.py: an etag the server will answer 304 to has  *)
(* its complete file, wherever runs end and whatever times out.             *)
THEOREM EtagsHaveFiles == Spec => []NotModifiedIsUsable
<1>1. IInv => NotModifiedIsUsable BY DEF IInv, CveInv, NotModifiedIsUsable
<1> QED BY <1>1, IInvAlways, PTL

(* update-local-cve-database.py: whatever was modified, expired, answered   *)
(* 304 or cut short before, a run that is committed without a timeout has   *)
(* every entry, and its products, as new as when the run began.             *)
THEOREM RunsAreFresh == Spec => Fresh
<1>1. IInv /\ [Next]_vars => [which = "cve" => Cve!BringsUpToDate]_vars
  <2> SUFFICES ASSUME IInv, Next, which = "cve" PROVE Cve!BringsUpToDate OBVIOUS
  <2>1. Cve!Next BY DEF Next, OfCve, OfTrack, OfNote
  <2> QED BY <2>1, RunsBring DEF IInv
<1> QED BY <1>1, IInvAlways, PTL DEF Spec, Fresh

(* update-refs.py and ci-bot-track-refs.sh: no merge of a request of the    *)
(* bot takes a ref back, however old it is and however many pipelines run.  *)
THEOREM RefsGoForward == Spec => NeverReverts
<1>1. IInv /\ [Next]_vars => [which = "track" => Track!MergeKeeps]_vars
  <2> SUFFICES ASSUME IInv, Next, which = "track" PROVE Track!MergeKeeps OBVIOUS
  <2>1. Track!Next BY DEF Next, OfCve, OfTrack, OfNote
  <2> QED BY <2>1, MergesForward DEF IInv
<1> QED BY <1>1, IInvAlways, PTL DEF Spec, NeverReverts

(* ci-bot-comment-mimeapps.py: once the job of the last push has ended, a   *)
(* note shows its difference, whatever failed and whatever reviewers did.   *)
THEOREM DifferenceIsTold == Spec => []Told
<1>1. IInv => Told BY DEF IInv, NoteInv, Told
<1> QED BY <1>1, IInvAlways, PTL

=============================================================================
