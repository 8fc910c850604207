---------------------------- MODULE InstallerApp ----------------------------
(* The installer's windows and the daemon's Install method on the system    *)
(* bus: installer.py, and main.rs:547-682 with do_install reduced to its    *)
(* outcome.  Each user session runs at most one installer process (a        *)
(* GApplication); it may open several windows, and its main loop stands     *)
(* still while an Install call of one of them is outstanding.  The daemon   *)
(* answers one call at a time (&mut self), installs once and exits; the bus *)
(* starts the next one.  X_Y is a mutant of action X.                       *)
EXTENDS Naturals, Sequences

CONSTANTS
  Apps,      \* installer processes, one per session
  Windows,   \* windows that can be open at once
  AppOf,     \* the process a window belongs to
  MaxGens,   \* bound: daemons started during the session
  Modes,     \* how installer.py is launched: FALSE plain, TRUE with --oem-mode
  MayDie     \* the daemon may be killed before it reports

ASSUME AppOfAssumption == AppOf \in [Windows -> Apps]
ASSUME BoundAssumption == MaxGens \in Nat /\ Modes \subseteq BOOLEAN /\ MayDie \in BOOLEAN

VARIABLES
  gen,       \* number of the last daemon; stands for its unique bus name
  main,      \* that daemon: "down", "idle", "busy" or "ended"
  serving,   \* the window whose Install call holds the interface lock
  accepted,  \* recipes sent to main, with the mode the window was launched in
  outcome,   \* what the do_install of each daemon came to
  call,      \* the daemon's side of each window's Install call
  waiting,   \* windows whose process is blocked in that call
  win,       \* the windows: closed, or bound to a daemon
  app,       \* the processes: their mode, newest window and newest status page
  signals    \* per process, signals received and not yet dispatched

daemon == <<gen, main, serving, accepted, outcome>>
client == <<waiting, win, app, signals>>
vars   == <<daemon, call, client>>

None == "none"
Gens == 1 .. MaxGens
Outcome == {"finished", "failed"}

Closed == [gen |-> 0, asked |-> FALSE, page |-> FALSE]
NotRunning == [running |-> FALSE, oem_mode |-> FALSE, top |-> None,
               page |-> None, pageGen |-> 0]
NoCall == [at |-> None, oem |-> FALSE, asked |-> FALSE]

\* A recipe: the daemon and the window it was sent through, oem_install, and
\* whether the window was opened by a launch with --oem-mode.
RecipeRecord == [gen: Gens, win: Windows, oem: BOOLEAN, asked: BOOLEAN]

Call == [at: {None, "queued", "auth", "granted"}, oem: BOOLEAN, asked: BOOLEAN]
Process == [running: BOOLEAN, oem_mode: BOOLEAN, top: Windows \cup {None},
            page: Outcome \cup {None, "installing"}, pageGen: 0 .. MaxGens]

TypeOK ==
  /\ gen \in 0 .. MaxGens
  /\ main \in {"down", "idle", "busy", "ended"}
  /\ serving \in Windows \cup {None}
  /\ accepted \subseteq RecipeRecord
  /\ outcome \in [Gens -> Outcome \cup {None}]
  /\ call \in [Windows -> Call]
  /\ waiting \subseteq Windows
  /\ win \in [Windows -> [gen: 0 .. MaxGens, asked: BOOLEAN, page: BOOLEAN]]
  /\ app \in [Apps -> Process]
  /\ signals \in [Apps -> Seq([gen: Gens, result: Outcome])]

Init ==
  /\ gen = 0 /\ main = "down" /\ serving = None
  /\ accepted = {}
  /\ outcome = [g \in Gens |-> None]
  /\ call = [w \in Windows |-> NoCall]
  /\ waiting = {}
  /\ win = [w \in Windows |-> Closed]
  /\ app = [a \in Apps |-> NotRunning]
  /\ signals = [a \in Apps |-> <<>>]

-----------------------------------------------------------------------------
(* installer.py.                                                            *)

Open(w) == win[w].gen # 0
WindowsOf(a) == {w \in Windows : AppOf[w] = a}
Blocked(a) == waiting \cap WindowsOf(a) # {}

\* The main loop can take up a new event: no call is outstanding, and the
\* signals that arrived earlier were dispatched by earlier iterations.
Ready(a) == ~Blocked(a) /\ signals[a] = <<>>

\* installer.py is launched, with or without --oem-mode.  The first process
\* of the session keeps the option (handle_local_options runs in the process
\* that was launched); a later one only activates the first, which opens one
\* more window.  Installer() binds the window to the daemon that owns the
\* bus name, starting one if there is none.
Launch(w, oem) ==
  LET a == AppOf[w] IN
  /\ Ready(a) /\ ~Open(w)
  /\ \/ main # "down" /\ UNCHANGED <<gen, main>>
     \/ main = "down" /\ gen < MaxGens /\ gen' = gen + 1 /\ main' = "idle"
  /\ win' = [win EXCEPT ![w] = [gen |-> gen', asked |-> oem, page |-> FALSE]]
  /\ app' = [app EXCEPT ![a].running = TRUE, ![a].top = w,
                        ![a].oem_mode = IF app[a].running THEN @ ELSE oem]
  /\ UNCHANGED <<serving, accepted, outcome, call, waiting, signals>>

\* The process quits ("Try GNOME OS", or its last window is closed).
Quit(a) ==
  /\ app[a].running /\ ~Blocked(a)
  /\ app' = [app EXCEPT ![a] = NotRunning]
  /\ win' = [w \in Windows |-> IF AppOf[w] = a THEN Closed ELSE win[w]]
  /\ signals' = [signals EXCEPT ![a] = <<>>]
  /\ UNCHANGED <<daemon, call, waiting>>

\* doInstall, or onResponse after Format: Install is called on the daemon the
\* window is bound to.  A daemon that is gone gives an error, which leaves
\* the window as it is.
Press(w) ==
  /\ Open(w) /\ ~win[w].page /\ Ready(AppOf[w])
  /\ win[w].gen = gen /\ main # "down" /\ call[w] = NoCall
  /\ call' = [call EXCEPT ![w] = [at    |-> "queued",
                                  oem   |-> app[AppOf[w]].oem_mode,
                                  asked |-> win[w].asked]]
  /\ waiting' = waiting \cup {w}
  /\ UNCHANGED <<daemon, win, app, signals>>

\* dbus-python gives the blocking call up after its default timeout.
GiveUp(w) ==
  /\ w \in waiting
  /\ waiting' = waiting \ {w}
  /\ UNCHANGED <<daemon, call, win, app, signals>>

\* Mutant: signals are dispatched while a call is outstanding.
Dispatch_Nested(a) ==
  /\ signals[a] # <<>>
  /\ signals' = [signals EXCEPT ![a] = Tail(@)]
  /\ app' = IF app[a].page = None THEN app
            ELSE [app EXCEPT ![a].page = Head(signals[a]).result]
  /\ UNCHANGED <<daemon, call, waiting, win>>

\* Mutant: the handler shows the state of the daemon, not the result.
Dispatch_State(a) ==
  /\ ~Blocked(a) /\ signals[a] # <<>>
  /\ signals' = [signals EXCEPT ![a] = Tail(@)]
  /\ app' = IF app[a].page = None THEN app
            ELSE [app EXCEPT ![a].page = main]
  /\ UNCHANGED <<daemon, call, waiting, win>>

\* _on_finished and _on_error act on the newest status page, whichever
\* daemon's signal it is; without a page the handler fails.
Dispatch(a) ==
  /\ ~Blocked(a) /\ signals[a] # <<>>
  /\ signals' = [signals EXCEPT ![a] = Tail(@)]
  /\ app' = IF app[a].page = None THEN app
            ELSE [app EXCEPT ![a].page = Head(signals[a]).result]
  /\ UNCHANGED <<daemon, call, waiting, win>>

-----------------------------------------------------------------------------
(* The Install method.                                                      *)

\* zbus runs one Install at a time: polkit is asked while the lock is held.
Serve(w) ==
  /\ main # "down" /\ serving = None /\ call[w].at = "queued"
  /\ serving' = w
  /\ call' = [call EXCEPT ![w].at = "auth"]
  /\ UNCHANGED <<gen, main, accepted, outcome, client>>

\* Mutant: an error reply is taken for an empty key.
Refuse_Shown(w) ==
  /\ main # "down" /\ serving = w
  /\ serving' = None
  /\ call' = [call EXCEPT ![w] = NoCall]
  /\ app' = IF w \in waiting
              THEN [app EXCEPT ![AppOf[w]].page = "installing", ![AppOf[w]].pageGen = gen]
              ELSE app
  /\ waiting' = waiting \ {w}
  /\ UNCHANGED <<gen, main, accepted, outcome, win, signals>>

\* Polkit says no, or the oneshot sender was taken before: an error reply.
Refuse(w) ==
  /\ main # "down" /\ serving = w
  /\ serving' = None
  /\ call' = [call EXCEPT ![w] = NoCall]
  /\ waiting' = waiting \ {w}
  /\ UNCHANGED <<gen, main, accepted, outcome, win, app, signals>>

\* Mutant: the sender is used without being taken.
Grant_Again(w) ==
  /\ main \in {"idle", "busy"} /\ serving = w
  /\ main' = "busy" /\ serving' = None
  /\ accepted' = accepted \cup
       {[gen |-> gen, win |-> w, oem |-> call[w].oem, asked |-> call[w].asked]}
  /\ call' = [call EXCEPT ![w].at = "granted"]
  /\ UNCHANGED <<gen, outcome, client>>

\* Polkit says yes and the sender is still there: the recipe goes to main and
\* the key into the reply.
Grant(w) ==
  /\ main = "idle" /\ serving = w
  /\ main' = "busy" /\ serving' = None
  /\ accepted' = accepted \cup
       {[gen |-> gen, win |-> w, oem |-> call[w].oem, asked |-> call[w].asked]}
  /\ call' = [call EXCEPT ![w].at = "granted"]
  /\ UNCHANGED <<gen, outcome, client>>

\* The reply arrives: display_recovery removes the Install button of the
\* newest window and shows a new status page in it.
Reply(w) ==
  /\ main # "down" /\ call[w].at = "granted"
  /\ call' = [call EXCEPT ![w] = NoCall]
  /\ IF w \in waiting
       THEN /\ app' = [app EXCEPT ![AppOf[w]].page = "installing", ![AppOf[w]].pageGen = gen]
            /\ win' = [win EXCEPT ![app[AppOf[w]].top].page = TRUE]
       ELSE UNCHANGED <<app, win>>
  /\ waiting' = waiting \ {w}
  /\ UNCHANGED <<daemon, signals>>

-----------------------------------------------------------------------------
(* main.                                                                    *)

\* do_install has returned: the signal goes to every process bound to this
\* daemon.  object_server.interface() takes a read lock on the object: while
\* another Install call is with polkit, main waits.
Report(r) ==
  /\ main = "busy" /\ serving = None /\ main' = "ended"
  /\ outcome' = [outcome EXCEPT ![gen] = r]
  /\ signals' = [a \in Apps |->
       IF \E w \in WindowsOf(a) : win[w].gen = gen
         THEN Append(signals[a], [gen |-> gen, result |-> r]) ELSE signals[a]]
  /\ UNCHANGED <<gen, serving, accepted, call, waiting, win, app>>

\* The bus answers the open calls with NoReply.
Leave ==
  /\ main' = "down" /\ serving' = None
  /\ call' = [w \in Windows |-> NoCall]
  /\ waiting' = {}
  /\ UNCHANGED <<gen, accepted, outcome, win, app, signals>>

\* main returns after the signal.
Exit == main = "ended" /\ Leave

\* The process is killed.
Kill == MayDie /\ main # "down" /\ Leave

-----------------------------------------------------------------------------

Next ==
  \/ \E w \in Windows : \/ \E oem \in Modes : Launch(w, oem)
                        \/ Press(w) \/ GiveUp(w)
                        \/ Serve(w) \/ Refuse(w) \/ Grant(w) \/ Reply(w)
  \/ \E a \in Apps : Quit(a) \/ Dispatch(a)
  \/ \E r \in Outcome : Report(r)
  \/ Exit \/ Kill

Spec == Init /\ [][Next]_vars

\* The daemon reports when do_install has ended (Concluded of DoInstall) and
\* nothing holds the object, and returns from main, replies
\* are delivered, the bus library's timeout runs out, the main loop goes on.
\* Polkit need not answer, nobody need press anything.
Fairness ==
  /\ WF_vars(\E r \in Outcome : Report(r))
  /\ WF_vars(Exit)
  /\ \A w \in Windows : WF_vars(Serve(w)) /\ WF_vars(Reply(w)) /\ WF_vars(GiveUp(w))
  /\ \A a \in Apps : WF_vars(Dispatch(a))

FairSpec == Spec /\ Fairness

-----------------------------------------------------------------------------
(* Properties.                                                              *)

\* However many windows and sessions press Install, a daemon sends one recipe
\* to main; the others are told that it already started (main.rs:620-633).
OneInstallPerDaemon ==
  \A r, s \in accepted : r.gen = s.gen => r = s

\* A status page belongs to a recipe of its process that was accepted, and
\* shows a result only when that installation, or a later one whose page
\* never appeared, came to it (installer.py:272-292).
PageTruth ==
  \A a \in Apps : app[a].page # None =>
    /\ \E r \in accepted : r.gen = app[a].pageGen /\ AppOf[r.win] = a
    /\ app[a].page \in Outcome =>
         \E r \in accepted : r.gen >= app[a].pageGen /\ outcome[r.gen] = app[a].page

\* "Install in OEM mode" (installer.py:264): an installation asked for from a
\* window that was opened with --oem-mode, and no other, is an OEM one.
OemHonoured == \A r \in accepted : r.oem = r.asked

\* The installation of the page has no end to tell of: its daemon is gone.
Orphaned(a) ==
  outcome[app[a].pageGen] = None /\ (main = "down" \/ gen # app[a].pageGen)

\* A page that says "Installing..." changes, or its process quits: the signal
\* that ends the installation is not lost even when it is emitted before the
\* page exists (main.rs:176-190, installer.py:282-292).  The page stays in two
\* cases only: the daemon was killed, or Install calls of other windows hold
\* the object for ever, one with polkit or always another one
\* (main.rs:181, 572-596).
PageSettles ==
  \A a \in Apps :
    app[a].page = "installing" ~>
      app[a].page # "installing" \/ Orphaned(a) \/ []<>(serving # None)

=============================================================================
