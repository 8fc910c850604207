-------------------------- MODULE InstallerAppProofs --------------------------
(***************************************************************************)
(* One installation per daemon, and pages that tell the truth, for any      *)
(* number of sessions, windows and daemons.                                 *)
(***************************************************************************)
EXTENDS InstallerApp, TLAPS

(* A daemon that is gone leaves no call behind, and no daemon is number 0.  *)
Gone ==
  /\ main = "down" => waiting = {} /\ \A w \in Windows : call[w].at = None
  /\ main # "down" => gen # 0

(* A daemon that is idle has sent no recipe to main, one that is busy has,  *)
(* and the reply that is on its way belongs to that recipe.                 *)
Sent ==
  /\ \A r \in accepted : r.gen <= gen
  /\ main = "idle" => \A r \in accepted : r.gen # gen
  /\ main = "busy" => \E r \in accepted : r.gen = gen
  /\ \A w \in Windows : call[w].at = "granted" =>
       \E r \in accepted : r.gen = gen /\ r.win = w

(* What a daemon came to is not known before it ends.                       *)
NotYet ==
  /\ \A g \in Gens : g > gen => outcome[g] = None
  /\ main \in {"idle", "busy"} => outcome[gen] = None

(* A signal carries the outcome of an installation that began, and is never *)
(* older than the page it will be shown on: a process that waits for a      *)
(* reply had no signal left when it called.                                 *)
Carries ==
  \A a \in Apps : \A i \in DOMAIN signals[a] :
    LET s == signals[a][i] IN
      /\ outcome[s.gen] = s.result
      /\ \E r \in accepted : r.gen = s.gen
      /\ app[a].pageGen <= s.gen
      /\ Blocked(a) => s.gen = gen

PageAge == \A a \in Apps : app[a].pageGen <= gen

IInv == TypeOK /\ Gone /\ Sent /\ OneInstallPerDaemon /\ NotYet /\ Carries /\ PageAge /\ PageTruth

------------------------------------------------------------------------------
LEMMA NoneIsNoOutcome == None \notin Outcome /\ "installing" \notin Outcome
  BY DEF None, Outcome

LEMMA CallType == \A c \in Call : [c EXCEPT !.at = "granted"] \in Call
  BY DEF Call

LEMMA PageType ==
  ASSUME NEW p \in Process, NEW x \in Outcome \cup {None, "installing"}, NEW g \in 0 .. MaxGens
  PROVE  /\ [p EXCEPT !.page = x] \in Process
         /\ [p EXCEPT !.page = x, !.pageGen = g] \in Process
  BY DEF Process

LEMMA LaunchType ==
  ASSUME NEW p \in Process, NEW w \in Windows, NEW mode \in BOOLEAN
  PROVE  [p EXCEPT !.running = TRUE, !.top = w, !.oem_mode = mode] \in Process
  BY DEF Process

LEMMA InitInv == Init => IInv
<1> SUFFICES ASSUME Init PROVE IInv OBVIOUS
<1>1. TypeOK
  BY AppOfAssumption, BoundAssumption DEF Init, TypeOK, Gens, Call, NoCall, Process, NotRunning, Closed, RecipeRecord
<1> QED
  BY <1>1 DEF Init, IInv, Gone, Sent, OneInstallPerDaemon, NotYet, Carries, PageAge, PageTruth, Gens,
              NoCall, NotRunning, None

(* Each step of a window, a process or the daemon keeps the types.          *)
LEMMA TypeStep == TypeOK /\ Gone /\ [Next]_vars => TypeOK'
<1> SUFFICES ASSUME TypeOK, Gone, [Next]_vars PROVE TypeOK' OBVIOUS
<1> USE AppOfAssumption, BoundAssumption DEF TypeOK, daemon, client
<1>1. ASSUME NEW w \in Windows, NEW oem \in Modes, Launch(w, oem) PROVE TypeOK'
  <2>1. gen' \in 0 .. MaxGens /\ main' \in {"idle", "busy", "ended"} BY <1>1 DEF Launch
  <2>2. win' \in [Windows -> [gen: 0 .. MaxGens, asked: BOOLEAN, page: BOOLEAN]] BY <1>1, <2>1 DEF Launch
  <2>3. app' \in [Apps -> Process]
    <3>1. oem \in BOOLEAN /\ AppOf[w] \in Apps OBVIOUS
    <3> DEFINE mode == IF app[AppOf[w]].running THEN app[AppOf[w]].oem_mode ELSE oem
    <3>2. app' = [app EXCEPT ![AppOf[w]] =
                    [app[AppOf[w]] EXCEPT !.running = TRUE, !.top = w, !.oem_mode = mode]]
      BY <1>1, <3>1 DEF Launch
    <3>3. mode \in BOOLEAN BY <3>1 DEF Process
    <3> HIDE DEF mode
    <3>4. [app[AppOf[w]] EXCEPT !.running = TRUE, !.top = w, !.oem_mode = mode] \in Process
      BY <3>1, <3>3, LaunchType
    <3> QED BY <3>1, <3>2, <3>4
  <2> QED BY <1>1, <2>1, <2>2, <2>3 DEF Launch
<1>2. ASSUME NEW a \in Apps, Quit(a) PROVE TypeOK'
  <2>1. app' \in [Apps -> Process] BY <1>2 DEF Quit, NotRunning, Process
  <2>2. win' \in [Windows -> [gen: 0 .. MaxGens, asked: BOOLEAN, page: BOOLEAN]] BY <1>2 DEF Quit, Closed
  <2>3. signals' \in [Apps -> Seq([gen: Gens, result: Outcome])]
    <3> DEFINE S == [gen: Gens, result: Outcome]
    <3>1. signals \in [Apps -> Seq(S)] OBVIOUS
    <3> HIDE DEF S
    <3>2. signals' \in [Apps -> Seq(S)] BY <1>2, <3>1 DEF Quit
    <3> QED BY <3>2 DEF S
  <2> QED BY <1>2, <2>1, <2>2, <2>3 DEF Quit
<1>3. ASSUME NEW w \in Windows, Press(w) PROVE TypeOK'
  <2>1. AppOf[w] \in Apps OBVIOUS
  <2>2. call' \in [Windows -> Call] BY <1>3, <2>1 DEF Press, Call, Process
  <2> QED BY <1>3, <2>2 DEF Press
<1>4. ASSUME NEW w \in Windows, GiveUp(w) PROVE TypeOK'
  BY <1>4 DEF GiveUp
<1>5. ASSUME NEW a \in Apps, Dispatch(a) PROVE TypeOK'
  <2>1. signals[a] \in Seq([gen: Gens, result: Outcome]) /\ signals[a] # <<>> BY <1>5 DEF Dispatch
  <2>2. Head(signals[a]).result \in Outcome /\ Tail(signals[a]) \in Seq([gen: Gens, result: Outcome])
    <3> DEFINE S == [gen: Gens, result: Outcome]
    <3> HIDE DEF S
    <3>1. signals[a] \in Seq(S) BY <2>1 DEF S
    <3>2. Head(signals[a]) \in S /\ Tail(signals[a]) \in Seq(S) BY <2>1, <3>1
    <3> QED BY <3>2 DEF S
  <2>3. app' \in [Apps -> Process]
    <3>1. CASE app[a].page = None BY <1>5, <3>1 DEF Dispatch
    <3>2. CASE app[a].page # None
      <4>1. app' = [app EXCEPT ![a] = [app[a] EXCEPT !.page = Head(signals[a]).result]]
        BY <1>5, <3>2 DEF Dispatch
      <4>2. [app[a] EXCEPT !.page = Head(signals[a]).result] \in Process BY <2>2, PageType
      <4> QED BY <4>1, <4>2
    <3> QED BY <3>1, <3>2
  <2> QED BY <1>5, <2>2, <2>3 DEF Dispatch
<1>6. ASSUME NEW w \in Windows, Serve(w) PROVE TypeOK'
  BY <1>6 DEF Serve, Call
<1>7. ASSUME NEW w \in Windows, Refuse(w) PROVE TypeOK'
  BY <1>7 DEF Refuse, Call, NoCall
<1>8. ASSUME NEW w \in Windows, Grant(w) PROVE TypeOK'
  <2>1. gen \in Gens BY <1>8 DEF Grant, Gone, Gens
  <2>2. call' \in [Windows -> Call]
    <3>1. call' = [call EXCEPT ![w] = [call[w] EXCEPT !.at = "granted"]] BY <1>8 DEF Grant
    <3>2. call[w] \in Call OBVIOUS
    <3>3. [call[w] EXCEPT !.at = "granted"] \in Call BY <3>2, CallType
    <3> QED BY <3>1, <3>3
  <2>3. accepted' \subseteq RecipeRecord BY <1>8, <2>1 DEF Grant, Call, RecipeRecord
  <2> QED BY <1>8, <2>2, <2>3 DEF Grant
<1>9. ASSUME NEW w \in Windows, Reply(w) PROVE TypeOK'
  <2>1. call' \in [Windows -> Call] BY <1>9 DEF Reply, Call, NoCall
  <2>2. app' \in [Apps -> Process]
    <3>1. AppOf[w] \in Apps OBVIOUS
    <3>2. [app[AppOf[w]] EXCEPT !.page = "installing", !.pageGen = gen] \in Process BY <3>1, PageType
    <3>3. \/ app' = app
          \/ app' = [app EXCEPT ![AppOf[w]] = [app[AppOf[w]] EXCEPT !.page = "installing", !.pageGen = gen]]
      BY <1>9, <3>1 DEF Reply
    <3> QED BY <3>2, <3>3
  <2>3. win' \in [Windows -> [gen: 0 .. MaxGens, asked: BOOLEAN, page: BOOLEAN]]
    <3> DEFINE t == app[AppOf[w]].top
    <3>1. [win EXCEPT ![t].page = TRUE] \in [Windows -> [gen: 0 .. MaxGens, asked: BOOLEAN, page: BOOLEAN]]
      OBVIOUS
    <3>2. win' = win \/ win' = [win EXCEPT ![t].page = TRUE] BY <1>9 DEF Reply
    <3> QED BY <3>1, <3>2
  <2> QED BY <1>9, <2>1, <2>2, <2>3 DEF Reply
<1>10. ASSUME NEW r \in Outcome, Report(r) PROVE TypeOK'
  <2>1. gen \in Gens BY <1>10 DEF Report, Gone, Gens
  <2>2. signals' \in [Apps -> Seq([gen: Gens, result: Outcome])]
    <3> DEFINE S == [gen: Gens, result: Outcome]
               s == [gen |-> gen, result |-> r]
    <3>1. signals \in [Apps -> Seq(S)] /\ s \in S BY <2>1
    <3>2. signals' = [a \in Apps |-> IF \E w \in WindowsOf(a) : win[w].gen = gen
                                       THEN Append(signals[a], s) ELSE signals[a]]
      BY <1>10 DEF Report
    <3> HIDE DEF S, s
    <3>3. signals' \in [Apps -> Seq(S)] BY <3>1, <3>2
    <3> QED BY <3>3 DEF S
  <2> QED BY <1>10, <2>2 DEF Report
<1>11. CASE Exit \/ Kill
  <2>1. call' = [w \in Windows |-> NoCall] /\ NoCall \in Call
    BY <1>11 DEF Exit, Kill, Leave, Call, NoCall
  <2>2. main' = "down" /\ serving' = None /\ waiting' = {}
        /\ UNCHANGED <<gen, accepted, outcome, win, app, signals>>
    BY <1>11 DEF Exit, Kill, Leave
  <2> QED BY <2>1, <2>2
<1>12. CASE UNCHANGED vars
  BY <1>12 DEF vars
<1> QED BY <1>1, <1>2, <1>3, <1>4, <1>5, <1>6, <1>7, <1>8, <1>9, <1>10, <1>11, <1>12 DEF Next

(* What the daemon remembers of its calls, whatever the windows do.         *)
LEMMA DaemonStep ==
  TypeOK /\ Gone /\ Sent /\ OneInstallPerDaemon /\ NotYet /\ [Next]_vars
    => (Gone /\ Sent /\ OneInstallPerDaemon /\ NotYet)'
<1> SUFFICES ASSUME TypeOK, Gone, Sent, OneInstallPerDaemon, NotYet, [Next]_vars
             PROVE (Gone /\ Sent /\ OneInstallPerDaemon /\ NotYet)'
  OBVIOUS
<1> USE BoundAssumption DEF Gone, Sent, OneInstallPerDaemon, NotYet, daemon, client, Gens
<1>1. ASSUME NEW w \in Windows, NEW oem \in Modes, Launch(w, oem)
      PROVE (Gone /\ Sent /\ OneInstallPerDaemon /\ NotYet)'
  <2>1. CASE main # "down" BY <1>1, <2>1 DEF Launch
  <2>2. CASE main = "down"
    <3>1. gen' = gen + 1 /\ main' = "idle" /\ gen' \in Gens BY <1>1, <2>2 DEF Launch, TypeOK
    <3>2. \A r \in accepted : r.gen \in Nat /\ r.gen < gen' BY <3>1 DEF TypeOK, RecipeRecord
    <3>3. \A v \in Windows : call[v].at # "granted" BY <2>2 DEF None
    <3>4. outcome[gen'] = None BY <3>1 DEF TypeOK
    <3> QED BY <1>1, <3>1, <3>2, <3>3, <3>4 DEF Launch, TypeOK
  <2> QED BY <2>1, <2>2
<1>2. ASSUME NEW w \in Windows, Press(w)
      PROVE (Gone /\ Sent /\ OneInstallPerDaemon /\ NotYet)'
  BY <1>2 DEF Press, TypeOK
<1>3. ASSUME NEW w \in Windows, Serve(w)
      PROVE (Gone /\ Sent /\ OneInstallPerDaemon /\ NotYet)'
  BY <1>3 DEF Serve, TypeOK, Call
<1>4. ASSUME NEW w \in Windows, Refuse(w)
      PROVE (Gone /\ Sent /\ OneInstallPerDaemon /\ NotYet)'
  BY <1>4 DEF Refuse, TypeOK, NoCall, None
<1>5. ASSUME NEW w \in Windows, Grant(w)
      PROVE (Gone /\ Sent /\ OneInstallPerDaemon /\ NotYet)'
  <2> DEFINE new == [gen |-> gen, win |-> w, oem |-> call[w].oem, asked |-> call[w].asked]
  <2>1. accepted' = accepted \cup {new} /\ new.gen = gen /\ new.win = w BY <1>5 DEF Grant
  <2> HIDE DEF new
  <2>2. \A r \in accepted : r.gen # gen BY <1>5 DEF Grant
  <2>3. OneInstallPerDaemon' BY <2>1, <2>2
  <2>4. call' = [call EXCEPT ![w].at = "granted"] BY <1>5 DEF Grant
  <2>5. \A v \in Windows : call'[v].at = "granted" =>
          \E r \in accepted' : r.gen = gen /\ r.win = v
    BY <2>1, <2>4 DEF TypeOK
  <2>6. gen' = gen /\ main' = "busy" /\ main = "idle" /\ UNCHANGED outcome BY <1>5 DEF Grant
  <2>7. Sent'
    <3>1. \A r \in accepted' : r.gen <= gen BY <2>1 DEF TypeOK
    <3> QED BY <2>1, <2>5, <2>6, <3>1
  <2> QED BY <2>3, <2>6, <2>7 DEF TypeOK
<1>6. ASSUME NEW w \in Windows, Reply(w)
      PROVE (Gone /\ Sent /\ OneInstallPerDaemon /\ NotYet)'
  BY <1>6 DEF Reply, TypeOK, NoCall, None
<1>7. ASSUME NEW r \in Outcome, Report(r)
      PROVE (Gone /\ Sent /\ OneInstallPerDaemon /\ NotYet)'
  BY <1>7 DEF Report, TypeOK
<1>8. CASE Exit \/ Kill
  BY <1>8 DEF Exit, Kill, Leave, TypeOK, NoCall, None
<1>9. ASSUME NEW a \in Apps, Quit(a) \/ Dispatch(a)
      PROVE (Gone /\ Sent /\ OneInstallPerDaemon /\ NotYet)'
  BY <1>9 DEF Quit, Dispatch
<1>10. ASSUME NEW w \in Windows, GiveUp(w)
      PROVE (Gone /\ Sent /\ OneInstallPerDaemon /\ NotYet)'
  BY <1>10 DEF GiveUp
<1>11. CASE UNCHANGED vars
  BY <1>11 DEF vars
<1> QED BY <1>1, <1>2, <1>3, <1>4, <1>5, <1>6, <1>7, <1>8, <1>9, <1>10, <1>11 DEF Next

------------------------------------------------------------------------------
(* The signals that wait for a process, and the pages it shows.             *)
LEMMA SignalStep ==
  TypeOK /\ Gone /\ Sent /\ NotYet /\ Carries /\ PageAge /\ [Next]_vars => (Carries /\ PageAge)'
<1> SUFFICES ASSUME TypeOK, Gone, Sent, NotYet, Carries, PageAge, [Next]_vars
             PROVE (Carries /\ PageAge)'
  OBVIOUS
<1> USE AppOfAssumption, BoundAssumption DEF daemon, client
<1>0. TypeOK' BY TypeStep
<1>1. ASSUME NEW w \in Windows, NEW oem \in Modes, Launch(w, oem) PROVE (Carries /\ PageAge)'
  <2>1. \A a \in Apps : app'[a].pageGen = app[a].pageGen
    BY <1>1 DEF Launch, TypeOK, Process
  <2>2. gen' \in Nat /\ gen' >= gen /\ UNCHANGED <<outcome, accepted, waiting, signals>>
    BY <1>1 DEF Launch, TypeOK
  <2>3. waiting # {} => gen' = gen BY <1>1 DEF Launch, Gone
  <2>4. \A a \in Apps : Blocked(a)' => Blocked(a) /\ gen' = gen BY <2>2, <2>3 DEF Blocked, WindowsOf
  <2>5. PageAge' BY <2>1, <2>2 DEF PageAge, TypeOK, Process
  <2>6. Carries' BY <2>1, <2>2, <2>4 DEF Carries
  <2> QED BY <2>5, <2>6
<1>2. ASSUME NEW b \in Apps, Quit(b) PROVE (Carries /\ PageAge)'
  <2>1. \A a \in Apps : app'[a].pageGen \in {0, app[a].pageGen}
    BY <1>2 DEF Quit, TypeOK, NotRunning
  <2>2. \A a \in Apps : signals'[a] \in {<<>>, signals[a]} BY <1>2 DEF Quit, TypeOK
  <2>3. \A g \in Gens : g >= 0 BY DEF Gens
  <2>4. UNCHANGED <<gen, outcome, accepted, waiting>> BY <1>2 DEF Quit
  <2>5. PageAge'
    <3>1. 0 <= gen BY DEF TypeOK
    <3> QED BY <2>1, <2>4, <3>1 DEF PageAge
  <2>6. ASSUME NEW a \in Apps, NEW i \in DOMAIN signals'[a]
        PROVE LET s == signals'[a][i] IN
                /\ outcome'[s.gen] = s.result
                /\ \E r \in accepted' : r.gen = s.gen
                /\ app'[a].pageGen <= s.gen
                /\ Blocked(a)' => s.gen = gen'
    <3>1. signals'[a] = signals[a] /\ i \in DOMAIN signals[a] BY <2>2, <2>6
    <3>2. \E r \in accepted : r.gen = signals[a][i].gen BY <3>1 DEF Carries
    <3>3. signals[a][i].gen \in Gens BY <3>2 DEF TypeOK, RecipeRecord
    <3>4. app'[a].pageGen <= signals[a][i].gen BY <2>1, <2>3, <3>1, <3>3 DEF Carries
    <3> QED BY <2>4, <3>1, <3>4 DEF Carries, Blocked, WindowsOf
  <2>7. Carries' BY <2>6 DEF Carries
  <2> QED BY <2>5, <2>7
<1>3. ASSUME NEW w \in Windows, Press(w) PROVE (Carries /\ PageAge)'
  <2>1. UNCHANGED <<gen, outcome, accepted, app, signals>> /\ waiting' = waiting \cup {w}
        /\ signals[AppOf[w]] = <<>>
    BY <1>3 DEF Press, Ready
  <2>2. \A a \in Apps : Blocked(a)' => Blocked(a) \/ signals[a] = <<>>
    BY <2>1 DEF Blocked, WindowsOf
  <2> QED BY <2>1, <2>2 DEF Carries, PageAge
<1>4. ASSUME NEW w \in Windows, GiveUp(w) PROVE (Carries /\ PageAge)'
  <2>1. \A a \in Apps : Blocked(a)' => Blocked(a) BY <1>4 DEF GiveUp, Blocked, WindowsOf
  <2> QED BY <1>4, <2>1 DEF GiveUp, Carries, PageAge
<1>5. ASSUME NEW b \in Apps, Dispatch(b) PROVE (Carries /\ PageAge)'
  <2>1. UNCHANGED <<gen, outcome, accepted, waiting>> BY <1>5 DEF Dispatch
  <2>2. \A a \in Apps : app'[a].pageGen = app[a].pageGen BY <1>5 DEF Dispatch, TypeOK, Process
  <2>3. \A a \in Apps : \A i \in DOMAIN signals'[a] :
          \E j \in DOMAIN signals[a] : signals'[a][i] = signals[a][j]
    <3> DEFINE S == [gen: Gens, result: Outcome]
    <3>1. signals \in [Apps -> Seq(S)] BY DEF TypeOK
    <3> HIDE DEF S
    <3>2. signals[b] \in Seq(S) /\ signals[b] # <<>> /\ signals' = [signals EXCEPT ![b] = Tail(@)]
      BY <1>5, <3>1 DEF Dispatch
    <3>3. \A i \in DOMAIN Tail(signals[b]) :
            i + 1 \in DOMAIN signals[b] /\ Tail(signals[b])[i] = signals[b][i + 1]
      BY <3>2
    <3> QED BY <3>1, <3>2, <3>3
  <2>4. PageAge' BY <2>1, <2>2 DEF PageAge
  <2>5. Carries' BY <2>1, <2>2, <2>3 DEF Carries, Blocked, WindowsOf
  <2> QED BY <2>4, <2>5
<1>6. ASSUME NEW w \in Windows, Serve(w) \/ Refuse(w) PROVE (Carries /\ PageAge)'
  <2>1. UNCHANGED <<gen, outcome, accepted, app, signals>> /\ waiting' \subseteq waiting
    BY <1>6 DEF Serve, Refuse
  <2>2. \A a \in Apps : Blocked(a)' => Blocked(a) BY <2>1 DEF Blocked, WindowsOf
  <2> QED BY <2>1, <2>2 DEF Carries, PageAge
<1>7. ASSUME NEW w \in Windows, Grant(w) PROVE (Carries /\ PageAge)'
  <2>1. UNCHANGED <<gen, outcome, waiting, app, signals>> /\ accepted \subseteq accepted'
    BY <1>7 DEF Grant
  <2> QED BY <2>1 DEF Carries, PageAge, Blocked, WindowsOf
<1>8. ASSUME NEW w \in Windows, Reply(w) PROVE (Carries /\ PageAge)'
  <2>1. UNCHANGED <<gen, outcome, accepted, signals>> /\ waiting' \subseteq waiting BY <1>8 DEF Reply
  <2>2. \A a \in Apps : Blocked(a)' => Blocked(a) BY <2>1 DEF Blocked, WindowsOf
  <2>3. \A a \in Apps : \/ app'[a].pageGen = app[a].pageGen
                        \/ Blocked(a) /\ app'[a].pageGen = gen
    <3>1. w \in waiting => Blocked(AppOf[w]) BY DEF Blocked, WindowsOf
    <3>2. CASE w \in waiting
      <4> DEFINE shown == [app[AppOf[w]] EXCEPT !.page = "installing", !.pageGen = gen]
      <4>1. app' = [app EXCEPT ![AppOf[w]] = shown] BY <1>8, <3>2 DEF Reply
      <4>2. AppOf[w] \in Apps /\ app \in [Apps -> Process] BY DEF TypeOK
      <4>3. shown.pageGen = gen BY <4>2 DEF Process
      <4> HIDE DEF shown
      <4> QED BY <3>1, <3>2, <4>1, <4>2, <4>3
    <3>3. CASE w \notin waiting
      <4>1. app' = app BY <1>8, <3>3 DEF Reply
      <4> QED BY <4>1
    <3> QED BY <3>2, <3>3
  <2>4. gen <= gen BY DEF TypeOK
  <2>5. PageAge' BY <2>1, <2>3, <2>4 DEF PageAge
  <2>6. Carries' BY <2>1, <2>2, <2>3, <2>4 DEF Carries
  <2> QED BY <2>5, <2>6
<1>9. ASSUME NEW r \in Outcome, Report(r) PROVE (Carries /\ PageAge)'
  <2> DEFINE S == [gen: Gens, result: Outcome]
             s == [gen |-> gen, result |-> r]
  <2>1. UNCHANGED <<gen, accepted, waiting, app>> BY <1>9 DEF Report
  <2>2. gen \in Gens /\ outcome' = [outcome EXCEPT ![gen] = r] /\ outcome[gen] = None
    BY <1>9 DEF Report, TypeOK, Gens, Gone, NotYet
  <2>3. \A a \in Apps : signals'[a] \in {signals[a], Append(signals[a], s)} BY <1>9 DEF Report
  <2>4. \E q \in accepted : q.gen = gen BY <1>9 DEF Report, Sent
  <2>5. signals \in [Apps -> Seq(S)] /\ s \in S /\ s.gen = gen /\ s.result = r BY <2>2 DEF TypeOK
  <2> HIDE DEF S, s
  <2>6. ASSUME NEW a \in Apps, NEW i \in DOMAIN signals'[a]
        PROVE (i \in DOMAIN signals[a] /\ signals'[a][i] = signals[a][i]) \/ signals'[a][i] = s
    <3>1. CASE signals'[a] = signals[a] BY <2>6, <3>1
    <3>2. CASE signals'[a] = Append(signals[a], s)
      <4>1. signals[a] \in Seq(S) BY <2>5
      <4>2. DOMAIN signals'[a] = DOMAIN signals[a] \cup {Len(signals[a]) + 1} BY <2>5, <3>2, <4>1
      <4>3. \A j \in DOMAIN signals[a] : signals'[a][j] = signals[a][j] BY <2>5, <3>2, <4>1
      <4>4. signals'[a][Len(signals[a]) + 1] = s BY <2>5, <3>2, <4>1
      <4> QED BY <2>6, <4>2, <4>3, <4>4
    <3> QED BY <2>3, <3>1, <3>2
  <2>7. ASSUME NEW a \in Apps, NEW i \in DOMAIN signals[a]
        PROVE signals[a][i].gen # gen
    <3>1. signals[a][i] \in S BY <2>5
    <3>2. signals[a][i].result \in Outcome BY <3>1 DEF S
    <3> QED BY <2>2, <3>2, NoneIsNoOutcome DEF Carries
  <2>8. Carries'
    <3> SUFFICES ASSUME NEW a \in Apps, NEW i \in DOMAIN signals'[a]
                 PROVE LET t == signals'[a][i] IN
                         /\ outcome'[t.gen] = t.result
                         /\ \E q \in accepted' : q.gen = t.gen
                         /\ app'[a].pageGen <= t.gen
                         /\ Blocked(a)' => t.gen = gen'
      BY DEF Carries
    <3>1. CASE signals'[a][i] = s
      BY <2>1, <2>2, <2>4, <2>5, <3>1 DEF PageAge, TypeOK
    <3>2. CASE i \in DOMAIN signals[a] /\ signals'[a][i] = signals[a][i]
      <4>1. signals[a][i].gen # gen /\ signals[a][i] \in S BY <2>5, <2>7, <3>2
      <4>2. outcome'[signals[a][i].gen] = outcome[signals[a][i].gen] BY <2>2, <4>1 DEF TypeOK, S
      <4> QED BY <2>1, <3>2, <4>2 DEF Carries, Blocked, WindowsOf
    <3> QED BY <2>6, <3>1, <3>2
  <2> QED BY <2>1, <2>8 DEF PageAge
<1>10. CASE Exit \/ Kill
  BY <1>10 DEF Exit, Kill, Leave, Carries, PageAge, Blocked
<1>11. CASE UNCHANGED vars
  BY <1>11 DEF vars, Carries, PageAge, Blocked, WindowsOf
<1> QED BY <1>1, <1>2, <1>3, <1>4, <1>5, <1>6, <1>7, <1>8, <1>9, <1>10, <1>11 DEF Next

LEMMA PageStep == IInv /\ [Next]_vars => PageTruth'
<1> SUFFICES ASSUME IInv, [Next]_vars, NEW a \in Apps, app'[a].page # None
             PROVE /\ \E r \in accepted' : r.gen = app'[a].pageGen /\ AppOf[r.win] = a
                   /\ app'[a].page \in Outcome =>
                        \E r \in accepted' : r.gen >= app'[a].pageGen /\ outcome'[r.gen] = app'[a].page
  BY DEF PageTruth
<1> USE AppOfAssumption DEF IInv, daemon, client
<1>1. CASE /\ accepted \subseteq accepted'
           /\ \A r \in accepted : outcome[r.gen] \in Outcome => outcome'[r.gen] = outcome[r.gen]
           /\ app'[a].page = app[a].page /\ app'[a].pageGen = app[a].pageGen
  BY <1>1 DEF PageTruth
<1>2. ASSUME NEW w \in Windows, NEW oem \in Modes, Launch(w, oem)
      PROVE app'[a].page = app[a].page /\ app'[a].pageGen = app[a].pageGen
  BY <1>2 DEF Launch, TypeOK, Process
<1>3. ASSUME NEW b \in Apps, Quit(b)
      PROVE app'[a] = app[a]
  BY <1>3 DEF Quit, TypeOK, NotRunning
<1>4. ASSUME NEW b \in Apps, Dispatch(b), app'[a] # app[a]
      PROVE /\ \E r \in accepted : r.gen = app'[a].pageGen /\ AppOf[r.win] = a
            /\ \E r \in accepted : r.gen >= app'[a].pageGen /\ outcome[r.gen] = app'[a].page
  <2>1. a = b /\ app[a].page # None /\ app'[a].page = Head(signals[a]).result
        /\ app'[a].pageGen = app[a].pageGen
    BY <1>4 DEF Dispatch, TypeOK, Process
  <2>2. 1 \in DOMAIN signals[a] /\ Head(signals[a]) = signals[a][1]
    <3>1. signals[a] \in Seq([gen: Gens, result: Outcome]) /\ signals[a] # <<>>
      BY <1>4, <2>1 DEF Dispatch, TypeOK
    <3> QED BY <3>1
  <2>3. PICK r \in accepted : r.gen = signals[a][1].gen BY <2>2 DEF Carries
  <2>4. r.gen >= app[a].pageGen /\ outcome[r.gen] = signals[a][1].result
    BY <2>2, <2>3 DEF Carries, TypeOK, RecipeRecord, Gens, Process
  <2> QED BY <2>1, <2>2, <2>4 DEF PageTruth
<1>5. ASSUME NEW w \in Windows, Reply(w), app'[a] # app[a]
      PROVE app'[a].page = "installing" /\ \E r \in accepted : r.gen = app'[a].pageGen /\ AppOf[r.win] = a
  <2>1. a = AppOf[w] /\ app'[a].page = "installing" /\ app'[a].pageGen = gen
    BY <1>5 DEF Reply, TypeOK, Process
  <2>2. \E r \in accepted : r.gen = gen /\ r.win = w BY <1>5 DEF Reply, Sent
  <2> QED BY <2>1, <2>2
<1>6. ASSUME NEW r \in Outcome, Report(r)
      PROVE \A q \in accepted : outcome[q.gen] \in Outcome => outcome'[q.gen] = outcome[q.gen]
  <2>1. outcome[gen] = None BY <1>6 DEF Report, NotYet
  <2> QED BY <1>6, <2>1, NoneIsNoOutcome DEF Report, TypeOK, RecipeRecord
<1>7. ASSUME NEW w \in Windows, NEW oem \in Modes, Launch(w, oem)
      PROVE UNCHANGED <<accepted, outcome>>
  BY <1>7 DEF Launch
<1>8. CASE \E w \in Windows : \E oem \in Modes : Launch(w, oem)
  BY <1>1, <1>2, <1>7, <1>8
<1>9. CASE \E b \in Apps : Quit(b)
  <2>1. UNCHANGED <<accepted, outcome>> BY <1>9 DEF Quit
  <2> QED BY <1>1, <1>3, <1>9, <2>1
<1>10. CASE \E b \in Apps : Dispatch(b)
  <2>1. UNCHANGED <<accepted, outcome>> BY <1>10 DEF Dispatch
  <2>2. CASE app'[a] = app[a] BY <1>1, <2>1, <2>2
  <2> QED BY <1>4, <1>10, <2>1, <2>2
<1>11. CASE \E w \in Windows : Reply(w)
  <2>1. UNCHANGED <<accepted, outcome>> BY <1>11 DEF Reply
  <2>2. CASE app'[a] = app[a] BY <1>1, <2>1, <2>2
  <2> QED BY <1>5, <1>11, <2>1, <2>2, NoneIsNoOutcome
<1>12. CASE \E r \in Outcome : Report(r)
  <2>1. UNCHANGED <<accepted, app>> BY <1>12 DEF Report
  <2> QED BY <1>1, <1>6, <1>12, <2>1
<1>13. CASE \E w \in Windows : Press(w) \/ GiveUp(w) \/ Serve(w) \/ Refuse(w)
  <2>1. UNCHANGED <<accepted, outcome, app>> BY <1>13 DEF Press, GiveUp, Serve, Refuse
  <2> QED BY <1>1, <2>1
<1>14. CASE \E w \in Windows : Grant(w)
  <2>1. accepted \subseteq accepted' /\ UNCHANGED <<outcome, app>> BY <1>14 DEF Grant
  <2> QED BY <1>1, <2>1
<1>15. CASE Exit \/ Kill \/ UNCHANGED vars
  <2>1. UNCHANGED <<accepted, outcome, app>> BY <1>15 DEF Exit, Kill, Leave, vars
  <2> QED BY <1>1, <2>1
<1> QED BY <1>8, <1>9, <1>10, <1>11, <1>12, <1>13, <1>14, <1>15 DEF Next

------------------------------------------------------------------------------
LEMMA IInvAlways == Spec => []IInv
<1>1. IInv /\ [Next]_vars => IInv'
  BY TypeStep, DaemonStep, SignalStep, PageStep DEF IInv
<1> QED BY InitInv, <1>1, PTL DEF Spec

(* The variables of the windows, the processes and the daemon keep their    *)
(* types (installer.py, main.rs:547-682).                                   *)
THEOREM InstallerTypes == Spec => []TypeOK
<1>1. IInv => TypeOK BY DEF IInv
<1> QED BY <1>1, IInvAlways, PTL

(* However many windows and sessions press Install, a daemon sends one      *)
(* recipe to main: the oneshot sender is taken once (main.rs:620-633).      *)
THEOREM OneRecipe == Spec => []OneInstallPerDaemon
<1>1. IInv => OneInstallPerDaemon BY DEF IInv
<1> QED BY <1>1, IInvAlways, PTL

(* A status page belongs to an accepted recipe of its process, and shows a  *)
(* result only when that installation or a later one came to it, although   *)
(* signals and replies cross (installer.py:272-292).                        *)
THEOREM PagesTellTheTruth == Spec => []PageTruth
<1>1. IInv => PageTruth BY DEF IInv
<1> QED BY <1>1, IInvAlways, PTL

=============================================================================
