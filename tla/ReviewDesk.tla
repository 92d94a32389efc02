------------------------------ MODULE ReviewDesk ------------------------------
(***************************************************************************)
(* The review tab of the dashboard, in several browsers at once, while a   *)
(* worker saves new predictions.  Streamlit runs the whole script again at *)
(* every click: the page is loaded anew through the cached routes before   *)
(* the click is acted on, and a widget whose options changed is a new one  *)
(* that has lost its choice.                                               *)
(***************************************************************************)
EXTENDS CachedRoutes, FiniteSetsExt

CONSTANTS
    Predicted,    \* [Row -> predicted_class]
    ShowsAll      \* the sessions that switched "show all predictions" on

VARIABLES
    at,           \* what the script of each session is at
    page,         \* what it drew last
    click,        \* the click it is running for
    saved         \* the correction it has just been told is saved

deskVars == <<at, page, click, saved>>
vars     == <<routeVars, deskVars>>

ASSUME DeskAssumption ==
    /\ Predicted \in [Row -> Class]
    /\ ShowsAll \subseteq Session

NoRows  == [p \in Row |-> "no row"]
NoClick == [mode |-> "none", class |-> "no row"]
NoSave  == [row |-> 0, class |-> "no row"]
Demo    == [mode |-> "demo", list |-> NoRows, doc |-> 0]

\* The documents the picker offers, newest first.
Pool(s, list) ==
    {p \in Row : /\ list[p] # "no row"
                 /\ s \in ShowsAll \/ (list[p] = "not corrected" /\ p \in Doubtful)}

CurrentClass(list, p) == IF list[p] = "not corrected" THEN Predicted[p] ELSE list[p]

DeskTypeOK ==
    /\ RoutesTypeOK
    /\ at \in [Session -> {"shown", "load", "patch"}]
    /\ \A s \in Session :
          /\ page[s] \in [mode : {"live", "demo"}, list : [Row -> Label], doc : 0 .. MaxRows]
          /\ page[s].doc # 0 => page[s].doc \in Pool(s, page[s].list)
          /\ click[s] \in [mode : {"none", "live", "demo"}, class : Label]
          /\ saved[s] \in [row : 0 .. MaxRows, class : Label]

Init ==
    /\ RoutesInit
    /\ at = [s \in Session |-> "shown"]
    /\ page = [s \in Session |-> Demo]
    /\ click = [s \in Session |-> NoClick]
    /\ saved = [s \in Session |-> NoSave]

-----------------------------------------------------------------------------
(* Clicks.                                                                 *)

\* Streamlit runs the script for click c.
Rerun(s, c) ==
    /\ at' = [at EXCEPT ![s] = "load"]
    /\ click' = [click EXCEPT ![s] = c]

\* A click anywhere else on the page.
Refresh(s) ==
    /\ at[s] = "shown"
    /\ Rerun(s, NoClick)
    /\ UNCHANGED <<routeVars, page, saved>>

Choose(s, p) ==
    /\ at[s] = "shown"
    /\ page[s].doc # 0
    /\ p \in Pool(s, page[s].list) \ {page[s].doc}
    /\ page' = [page EXCEPT ![s].doc = p]
    /\ Rerun(s, NoClick)
    /\ UNCHANGED <<routeVars, saved>>

\* reviewer_blocked disables the button.
Blocked(s, p) == RoleOf[s] = "reviewer" /\ p \notin Doubtful

Save(s, class) ==
    /\ at[s] = "shown"
    /\ patches < MaxPatches
    /\ page[s].mode = "demo" \/ (page[s].doc # 0 /\ ~Blocked(s, page[s].doc))
    /\ patches' = patches + 1
    /\ Rerun(s, [mode |-> page[s].mode, class |-> class])
    /\ UNCHANGED <<dbVars, cache, call, online, route, failures, outrun, page, saved>>

-----------------------------------------------------------------------------
(* One run of the script.                                                  *)

\* load_live_dashboard.  Of its GETs only the recent predictions matter to this
\* tab; those of the other tabs count as requests of a client.
SendGet(s) ==
    /\ at[s] = "load"
    /\ Lookup(s, PREDICTIONS_RECENT_KEY)
    /\ UNCHANGED deskVars

\* Mutant of Redrawn: the choice survives whatever the options are now.
RedrawnOnChoice(s, list) ==
    LET options == Pool(s, list)
        same    == page[s].doc # 0
    IN  [mode |-> "live", list |-> list,
         doc  |-> IF same THEN page[s].doc ELSE IF options = {} THEN 0 ELSE Max(options)]

\* The page for a new list: the document stays chosen while the options do, and
\* so does the class while the document chosen still shows the same one.
Redrawn(s, list) ==
    LET options == Pool(s, list)
        same    == page[s].doc # 0 /\ options = Pool(s, page[s].list)
    IN  [mode |-> "live", list |-> list,
         doc  |-> IF same THEN page[s].doc ELSE IF options = {} THEN 0 ELSE Max(options)]

Kept(s, new) ==
    IF CurrentClass(new.list, new.doc) = CurrentClass(page[s].list, page[s].doc)
    THEN click[s].class
    ELSE CurrentClass(new.list, new.doc)

Returned(s, how) == call[s].at = how /\ call' = [call EXCEPT ![s] = NoCall]

\* The button of the demo has another label, so its clicks are lost on a live
\* page, as are those on a form that is not drawn any more.
Submits(s, new) == click[s].mode = "live" /\ new.doc # 0

Loaded(s) ==
    LET new == Redrawn(s, call[s].got) IN
    /\ at[s] = "load"
    /\ Returned(s, "answered")
    /\ page' = [page EXCEPT ![s] = new]
    /\ \/ /\ Submits(s, new)
          /\ at' = [at EXCEPT ![s] = "patch"]
          /\ click' = [click EXCEPT ![s].class = Kept(s, new)]
       \/ /\ ~Submits(s, new)
          /\ at' = [at EXCEPT ![s] = "shown"]
          /\ click' = [click EXCEPT ![s] = NoClick]
    /\ saved' = [saved EXCEPT ![s] = NoSave]
    /\ UNCHANGED <<dbVars, cache, bounds, outrun>>

\* A failed load draws the demo, whose own button changes nothing but the demo,
\* and runs the script again.
FellBack(s) ==
    /\ at[s] = "load"
    /\ Returned(s, "failed")
    /\ at' = [at EXCEPT ![s] = IF click[s].mode = "demo" THEN "load" ELSE "shown"]
    /\ page' = [page EXCEPT ![s] = Demo]
    /\ click' = [click EXCEPT ![s] = NoClick]
    /\ saved' = [saved EXCEPT ![s] = NoSave]
    /\ UNCHANGED <<dbVars, cache, bounds, outrun>>

SendPatch(s) ==
    /\ at[s] = "patch"
    /\ Relabel(s, page[s].doc, click[s].class) \/ Refuse(s, page[s].doc)
    /\ UNCHANGED <<bounds, deskVars>>

\* Mutant of PatchSaved: the click is not used up by the rerun.
PatchSavedAndKept(s) ==
    /\ at[s] = "patch"
    /\ Returned(s, "answered")
    /\ Rerun(s, click[s])
    /\ saved' = [saved EXCEPT ![s] = [row |-> page[s].doc, class |-> click[s].class]]
    /\ UNCHANGED <<dbVars, cache, bounds, outrun, page>>

\* "Saved", and st.rerun.
PatchSaved(s) ==
    /\ at[s] = "patch"
    /\ Returned(s, "answered")
    /\ Rerun(s, NoClick)
    /\ saved' = [saved EXCEPT ![s] = [row |-> page[s].doc, class |-> click[s].class]]
    /\ UNCHANGED <<dbVars, cache, bounds, outrun, page>>

PatchRefused(s) ==
    /\ at[s] = "patch"
    /\ Returned(s, "failed")
    /\ at' = [at EXCEPT ![s] = "shown"]
    /\ click' = [click EXCEPT ![s] = NoClick]
    /\ UNCHANGED <<dbVars, cache, bounds, outrun, page, saved>>

ScriptStep(s) ==
    \/ SendGet(s) \/ Loaded(s) \/ FellBack(s)
    \/ SendPatch(s) \/ PatchSaved(s) \/ PatchRefused(s)
    \/ CallStep(s) /\ UNCHANGED deskVars

Next ==
    \/ \E s \in Session \cap online : \/ Refresh(s) \/ ScriptStep(s)
                                      \/ \E p \in Row : Choose(s, p)
                                      \/ \E class \in Class : Save(s, class)
    \/ \E w \in Worker \cap online : (WorkerStep(w) \/ CallStep(w)) /\ UNCHANGED deskVars
    \/ \E c \in Client \cap online : (ClientStep(c) \/ CallStep(c)) /\ UNCHANGED deskVars
    \/ \E c \in Caller : FailCall(c) /\ UNCHANGED deskVars
    \/ \E k \in Key : Expire(k) /\ UNCHANGED deskVars

\* A script that has started runs on, and a call too.
Fairness ==
    /\ \A s \in Session : WF_vars(ScriptStep(s))
    /\ \A c \in Client \cup Worker : WF_vars(CallStep(c) /\ UNCHANGED deskVars)

Spec == Init /\ [][Next]_vars /\ Fairness

-----------------------------------------------------------------------------
(* What a reviewer can rely on.                                            *)

\* Who has just been told "Saved" never gets a cached list with the label the
\* document had before, unless someone else corrected the document after it or
\* a fill outran the delete: the keys are deleted before the answer to the
\* PATCH.  The list may leave the document out, as it is cached for any limit.
OwnCorrectionIsServed ==
    [][\A s \in Session :
          (at[s] = "load" /\ saved[s] # NoSave /\ Hit(s, PREDICTIONS_RECENT_KEY)) =>
              LET p == saved[s].row IN
              \/ call'[s].got[p] \in {saved[s].class, "no row"}
              \/ corrector[p] # s
              \/ PREDICTIONS_RECENT_KEY \in outrun]_vars

\* RUNBOOK.md: ?limit=n shows the last n predictions.  Refuted by an entry that
\* was filled for another limit and is up to date.
LimitIsServed ==
    [][\A s \in Session :
          Hit(s, PREDICTIONS_RECENT_KEY) /\ ~Stale(PREDICTIONS_RECENT_KEY) =>
              call'[s].got = Answer(PREDICTIONS_RECENT_KEY, DashboardWindow)]_vars

\* Every click ends with a page, whatever fails: no chain of reruns goes on by
\* itself.
ClicksAreAnswered == \A s \in Session : at[s] # "shown" ~> at[s] = "shown"
=============================================================================
