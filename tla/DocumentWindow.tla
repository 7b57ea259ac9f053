--------------------------- MODULE DocumentWindow ---------------------------
(***************************************************************************)
(* The document windows: their tabs, the document each shows, the loads    *)
(* and saves they wait for, what they ask before they close a tab or a     *)
(* window, and quitting.  All of it runs on the main thread, but a load, a *)
(* save and a sheet end some time after the handler that started them, and *)
(* until then the user, and mate, may go on.                               *)
(*                                                                         *)
(* A handler calls others and they change windows and documents in turn,   *)
(* so that the operators below take a state [win, doc] and return the next *)
(* one.  Tabs are numbered from 1; 0 stands for NSNotFound.                *)
(***************************************************************************)
EXTENDS Naturals, FiniteSets, SequencesExt

CONSTANTS
  Docs,         \* the OakDocuments
  Untitled,     \* those of them that are made without a path
  Windows,      \* the DocumentWindowControllers there may be
  Jobs,         \* chains of saves and the questions before them
  NoDoc,
  NoWindow,
  MaxEdits,     \* bound: edits of the user
  MaxRequests   \* bound: requests of the user and of other programs

ASSUME DocumentWindowAssumption ==
  /\ Untitled \subseteq Docs /\ NoDoc \notin Docs /\ NoWindow \notin Windows
  /\ IsFiniteSet(Docs) /\ IsFiniteSet(Windows) /\ IsFiniteSet(Jobs)
  /\ MaxEdits \in Nat /\ MaxRequests \in Nat

VARIABLES
  win,        \* of each window: its tabs, the selected one and what its view shows
  doc,        \* of each document: openCount, is it loaded, who waits for that, is it edited?
  job,        \* saves under way, and sheets, with what is to be done after them
  app,        \* is the application running, or asked to terminate?
  kept,       \* documents whose changes the session saved on quitting has
  agreed,     \* history: documents just saved, or whose changes the user agreed to lose
  stale,      \* history: windows that changed while a close of theirs was waiting
  discarded,  \* history: did he choose not to save in the alert for several windows?
  edits, requests  \* counters of the bounds

vars == <<win, doc, job, app, kept, agreed, stale, discarded, edits, requests>>

Shut   == [state |-> "none", tabs |-> <<>>, index |-> 0, shown |-> NoDoc]
Closed(d) == [count |-> 0, loaded |-> FALSE, waiting |-> <<>>, edited |-> FALSE,
              path |-> d \notin Untitled]
NoJob  == [stage |-> "free", window |-> NoWindow, rest |-> <<>>, tabs |-> {}, then |-> "nothing"]

Init ==
  /\ win = [w \in Windows |-> Shut] /\ doc = [d \in Docs |-> Closed(d)]
  /\ job = [j \in Jobs |-> NoJob]
  /\ app = "running" /\ kept = {} /\ agreed = {} /\ stale = {} /\ discarded = FALSE
  /\ edits = 0 /\ requests = 0

Now      == [win |-> win, doc |-> doc]
Become(s) == win' = s.win /\ doc' = s.doc

-----------------------------------------------------------------------------
Times(seq, d) == Cardinality({i \in DOMAIN seq : seq[i] = d})

(* The elements of seq in the set, in their order. *)
Keep(seq, set) ==
  LET picked[n \in 0..Len(seq)] ==
        IF n = 0 THEN <<>>
        ELSE IF seq[n] \in set THEN Append(picked[n - 1], seq[n]) ELSE picked[n - 1]
  IN picked[Len(seq)]

(* open and close of a document: what nobody holds any more is as it was     *)
(* before it was loaded.                                                     *)
OpenDocument(s, d)  == [s EXCEPT !.doc[d].count = @ + 1]
Released(r, d) ==
  LET n == r.count - 1 IN IF n = 0 THEN Closed(d) ELSE [r EXCEPT !.count = n]
CloseDocument(s, d) == [s EXCEPT !.doc[d] = Released(@, d)]

OpenAll(s, docs) ==
  LET after[n \in 0..Len(docs)] ==
        IF n = 0 THEN s ELSE OpenDocument(after[n - 1], docs[n])
  IN after[Len(docs)]

CloseAll(s, docs) ==
  LET after[n \in 0..Len(docs)] ==
        IF n = 0 THEN s ELSE CloseDocument(after[n - 1], docs[n])
  IN after[Len(docs)]

OpenClose(s, opened, closed) == CloseAll(OpenAll(s, opened), closed)

(* A slip: the old tabs are closed before the new ones are opened. *)
SetDocumentsClosingFirst(s, w, tabs) ==
  [OpenClose(OpenClose(s, <<>>, s.win[w].tabs), tabs, <<>>) EXCEPT !.win[w].tabs = tabs]

SetDocuments(s, w, tabs) ==
  [OpenClose(s, tabs, s.win[w].tabs) EXCEPT !.win[w].tabs = tabs]

SetIndex(s, w, i) == [s EXCEPT !.win[w].index = i]

(* A slip: the view does not open the document. *)
SetSelectedWithoutOpen(s, w, d) ==
  LET old == s.win[w].shown
  IN IF old = d THEN s
     ELSE [OpenClose(s, <<>>, IF old = NoDoc THEN <<>> ELSE <<old>>) EXCEPT !.win[w].shown = d]

(* setSelectedDocument:, and setDocument: of the view. *)
SetSelected(s, w, d) ==
  LET old == s.win[w].shown
  IN IF old = d THEN s
     ELSE [OpenClose(s, <<d>>, IF old = NoDoc THEN <<>> ELSE <<old>>)
             EXCEPT !.win[w].shown = d]

(* A slip: the load has no hold of the document. *)
OpenAndSelectWithoutHold(s, w, d) ==
  IF s.doc[d].loaded THEN SetSelected(s, w, d)
  ELSE [s EXCEPT !.doc[d].waiting = Append(@, w)]

(* openAndSelectDocument:activate:, and its completion handler if it is loaded. *)
OpenAndSelect(s, w, d) ==
  IF s.doc[d].loaded THEN SetSelected(s, w, d)
  ELSE [s EXCEPT !.doc[d].count = @ + 1, !.doc[d].waiting = Append(@, w)]

IndexOf(seq, d) == IF \E i \in DOMAIN seq : seq[i] = d
                   THEN CHOOSE i \in DOMAIN seq : seq[i] = d /\ \A k \in 1..(i-1) : seq[k] # d
                   ELSE 0

(* insertDocuments:atIndex:selecting:andClosing:, with tabs being reordered. *)
Insert(s, w, new, at, selected, closing) ==
  LET old    == s.win[w].tabs
      n      == IF at > Len(old) THEN Len(old) ELSE at
      stay   == Docs \ (closing \cup {new})
      tabs   == Keep(SubSeq(old, 1, n), stay) \o <<new>> \o Keep(SubSeq(old, n + 1, Len(old)), stay)
  IN SetIndex(SetDocuments(s, w, tabs), w, IndexOf(tabs, selected))

Unused(s)      == {d \in Untitled : s.doc[d].count = 0}
NewDocuments(s) == IF Unused(s) = {} THEN <<>> ELSE <<CHOOSE d \in Unused(s) : TRUE>>
IsDisposable(s, d) == s.doc[d].loaded /\ ~s.doc[d].path /\ ~s.doc[d].edited
Disposable(s, w) ==
  LET i == s.win[w].index
  IN IF i \in DOMAIN s.win[w].tabs /\ IsDisposable(s, s.win[w].tabs[i])
     THEN {s.win[w].tabs[i]} ELSE {}

(* closeTabsAtIndexes:askToSaveChanges:createDocumentIfEmpty:activate:, when *)
(* it does not have to ask.  The tab that is selected next is the last one   *)
(* that stays, up to the one that was selected.                              *)
CloseTabs(s, w, indexes, createIfEmpty) ==
  LET old      == s.win[w].tabs
      selected == old[s.win[w].index]
      gone     == {old[i] : i \in indexes}
      stay     == Docs \ gone
      last     == CHOOSE i \in DOMAIN old : old[i] = selected /\ \A k \in DOMAIN old : old[k] = selected => k <= i
      stays    == Len(Keep(SubSeq(old, 1, last), stay))
      next     == IF stays = 0 THEN 1 ELSE stays
      rest     == Keep(old, stay)
      tabs     == IF rest = <<>> /\ createIfEmpty THEN NewDocuments(s) ELSE rest
      closed   == SetIndex(SetDocuments(s, w, tabs), w, next)
  IN IF indexes = {} \/ old = <<>> THEN s
     ELSE IF tabs # <<>> /\ tabs[next] # selected THEN OpenAndSelect(closed, w, tabs[next])
     ELSE closed

(* It raises NSRangeException if there are no such tabs, or none is selected. *)
Raises(s, w, indexes) ==
  /\ indexes # {} /\ s.win[w].tabs # <<>>
  /\ ~(indexes \cup {s.win[w].index} \subseteq DOMAIN s.win[w].tabs)

(* windowWillClose:; the view lets go of its document when it is deallocated. *)
CloseWindow(s, w) == [SetDocuments(s, w, <<>>) EXCEPT !.win[w].state = "closed"]

-----------------------------------------------------------------------------
EditedIn(s, tabs) == Keep(tabs, {d \in Docs : s.doc[d].edited})

(* showCloseWarningUIForDocuments:completionHandler: shows the document.    *)
ShowWarned(s, w, docs) ==
  IF Len(docs) = 1 /\ s.win[w].shown # docs[1]
  THEN OpenAndSelect(SetIndex(s, w, IndexOf(s.win[w].tabs, docs[1])), w, docs[1])
  ELSE s

Ask(s, j, w, docs, tabs, then) ==
  /\ job[j].stage = "free" /\ j = CHOOSE i \in Jobs : job[i].stage = "free"
  /\ job' = [job EXCEPT ![j] = [stage |-> "sheet", window |-> w, rest |-> docs,
                                tabs |-> tabs, then |-> then]]
  /\ Become(ShowWarned(s, w, docs))

(* What was to be done after the documents were saved, or the user said that *)
(* they need not be.                                                         *)
After(s, j, ok) ==
  LET w == job[j].window IN
  CASE job[j].then = "tabs" ->
         CloseTabs(s, w, IF ok THEN job[j].tabs
                         ELSE {i \in job[j].tabs \cap DOMAIN s.win[w].tabs :
                                 ~s.doc[s.win[w].tabs[i]].edited}, TRUE)
    [] job[j].then = "window" /\ ok /\ s.win[w].state = "open" -> CloseWindow(s, w)
    [] OTHER -> s

Fails(s, j) == job[j].then = "tabs" /\ Raises(s, job[j].window, job[j].tabs)

(* The documents of tabs in open windows, of which the session has a backup. *)
InTabs(s)      == {d \in Docs : \E w \in Windows : Times(s.win[w].tabs, d) > 0}

(* A slip: only what is shown is backed up. *)
SaveSessionOfShown(s) ==
  {d \in InTabs(s) : s.doc[d].edited /\ \E w \in Windows : s.win[w].shown = d}

SaveSession(s) == {d \in InTabs(s) : s.doc[d].loaded /\ s.doc[d].edited}

(* A slip: who asked is told of a success only. *)
FinishIfSaved(s, j, ok, done) ==
  /\ job' = [job EXCEPT ![j] = NoJob]
  /\ Become(IF Fails(s, j) THEN s ELSE OpenClose(After(s, j, ok), <<>>, done))
  /\ IF job[j].then = "quit" /\ ok
     THEN app' = "quit" /\ kept' = SaveSession(s)
     ELSE UNCHANGED <<app, kept>>

(* A chain of saves has come to its end; done is the document whose save was *)
(* the last, which that save holds until the handler returns, if it does.    *)
Finish(s, j, ok, done) ==
  /\ job' = [job EXCEPT ![j] = NoJob]
  /\ Become(IF Fails(s, j) THEN s ELSE OpenClose(After(s, j, ok), <<>>, done))
  /\ IF job[j].then = "quit"
     THEN /\ app' = IF ok THEN "quit" ELSE "running"
          /\ kept' = IF ok THEN SaveSession(s) ELSE kept
     ELSE UNCHANGED <<app, kept>>

(* saveDocumentsUsingEnumerator:completionHandler:, with these still to save. *)
SaveNext(s, j, rest, done) ==
  IF rest # <<>> /\ s.doc[Head(rest)].loaded
  THEN /\ job' = [job EXCEPT ![j].stage = "saving", ![j].rest = rest]
       /\ Become(OpenClose(s, <<Head(rest)>>, done))
       /\ UNCHANGED <<app, kept>>
  ELSE Finish(s, j, rest = <<>>, done)

-----------------------------------------------------------------------------
(* What the histories record of a step in which these were typed in and those *)
(* were saved, or the user agreed to lose their changes.                      *)
Record(typed, agrees) ==
  /\ agreed' = ({d \in agreed : doc[d].edited} \cup agrees) \ typed
  /\ stale'  = {w \in Windows :
       /\ \E j \in Jobs : job'[j].window = w /\ job'[j].then \in {"tabs", "window"}
       /\ \/ w \in stale \/ win'[w].tabs # win[w].tabs
          \/ \E d \in typed : Times(win[w].tabs, d) > 0}

Open(w)    == win[w].state = "open"
Running    == app = "running"
HasSheet(w) == \E j \in Jobs : job[j].window = w /\ job[j].stage = "sheet"
Free(w)    == Running /\ Open(w) /\ ~HasSheet(w)

Request ==
  /\ requests < MaxRequests /\ requests' = requests + 1
  /\ Record({}, {}) /\ UNCHANGED <<app, kept, discarded, edits>>

NewWindow == CHOOSE w \in Windows : win[w].state = "none"
Make(w)   == [Now EXCEPT !.win[w].state = "open"]
AfterSelected(w) == IF win[w].index = 0 THEN Len(win[w].tabs) ELSE win[w].index

(* showDocument:andSelect:inProject:bringToFront:, in a window that is there *)
(* or a new one; mate does not wait for a sheet.                             *)
ShowDocument(w, d) ==
  /\ Running /\ (Open(w) \/ (win[w].state = "none" /\ w = NewWindow))
  /\ d \notin Untitled
  /\ LET s == Insert(Make(w), w, d, AfterSelected(w), d, Disposable(Now, w))
     IN Become(OpenAndSelect(s, w, d))
  /\ UNCHANGED job /\ Request

NewDocumentInTab(w) ==
  /\ Running /\ (Free(w) \/ (win[w].state = "none" /\ w = NewWindow)) /\ Unused(Now) # {}
  /\ LET d == CHOOSE u \in Unused(Now) : TRUE
     IN Become(OpenAndSelect(Insert(Make(w), w, d, AfterSelected(w), d, {}), w, d))
  /\ UNCHANGED job /\ Request

SelectTab(w, i) ==
  /\ Free(w) /\ i \in DOMAIN win[w].tabs /\ (i # win[w].index \/ win[w].shown # win[w].tabs[i])
  /\ Become(OpenAndSelect(SetIndex(Now, w, i), w, win[w].tabs[i]))
  /\ UNCHANGED job /\ Request

(* The tabs at the indexes are closed now, or once the user was asked.      *)
PerformCloseTabs(w, indexes) ==
  /\ Free(w) /\ indexes # {} /\ indexes \subseteq DOMAIN win[w].tabs
  /\ LET at   == Keep([i \in DOMAIN win[w].tabs |-> i], indexes)
         docs == EditedIn(Now, [i \in DOMAIN at |-> win[w].tabs[at[i]]])
     IN IF docs # <<>>
        THEN \E j \in Jobs : Ask(Now, j, w, docs, indexes, "tabs")
        ELSE /\ ~Raises(Now, w, indexes) /\ Unused(Now) # {}
             /\ Become(CloseTabs(Now, w, indexes, TRUE)) /\ UNCHANGED job
  /\ Request

WindowShouldClose(w) ==
  /\ Free(w)
  /\ LET docs == EditedIn(Now, win[w].tabs)
     IN IF docs # <<>>
        THEN \E j \in Jobs : Ask(Now, j, w, docs, {}, "window")
        ELSE Become(CloseWindow(Now, w)) /\ UNCHANGED job
  /\ Request

TearOff(w, i) ==
  /\ Free(w) /\ i \in DOMAIN win[w].tabs /\ Len(win[w].tabs) > 1
  /\ \E v \in Windows : win[v].state = "none"
  /\ LET d == win[w].tabs[i]
         s == OpenAndSelect(SetIndex(SetDocuments(Make(NewWindow), NewWindow, <<d>>), NewWindow, 1),
                            NewWindow, d)
     IN /\ Unused(Now) # {}
        /\ Become(IF Raises(s, w, {i}) THEN s ELSE CloseTabs(s, w, {i}, TRUE))
  /\ UNCHANGED job /\ Request

(* performDropOfTabItem:atIndex:operation:, of a tab of another window.      *)
Drop(v, i, w, fileBrowser) ==
  /\ Free(v) /\ Free(w) /\ v # w /\ i \in DOMAIN win[v].tabs
  /\ LET d == win[v].tabs[i]
         s == Insert(Now, w, d, Len(win[w].tabs), win[w].shown, {d})
         k == IndexOf(win[v].tabs, d)
         t == IF fileBrowser \/ Len(win[v].tabs) > 1 THEN CloseTabs(s, v, {k}, TRUE)
              ELSE CloseWindow(s, v)
     IN /\ Unused(Now) # {}
        /\ Become(IF Raises(s, v, {k}) THEN s
                  ELSE IF k = win[v].index
                  THEN OpenAndSelect(SetIndex(t, w, IndexOf(t.win[w].tabs, d)), w, d)
                  ELSE t)
  /\ UNCHANGED job /\ Request

(* The tabs of the windows are appended, and then these are closed.          *)
Merge(s, w, order) ==
  LET joined[n \in 0..Len(order)] ==
        IF n = 0 THEN s.win[w].tabs ELSE joined[n - 1] \o s.win[order[n]].tabs
      closed[n \in 0..Len(order)] ==
        IF n = 0 THEN SetDocuments(s, w, joined[Len(order)])
        ELSE CloseWindow(closed[n - 1], order[n])
  IN closed[Len(order)]

MergeAllWindows(w) ==
  /\ Free(w)
  /\ LET others == {v \in Windows \ {w} : Open(v)}
     IN /\ others # {} /\ ~\E v \in others : HasSheet(v)
        /\ Become(Merge(Now, w, SetToSeq(others)))
  /\ UNCHANGED job /\ Request

Type(w) ==
  /\ Free(w) /\ win[w].shown # NoDoc /\ edits < MaxEdits /\ edits' = edits + 1
  /\ doc' = [doc EXCEPT ![win[w].shown].edited = TRUE]
  /\ UNCHANGED <<win, job, app, kept, discarded, requests>>
  /\ Record({win[w].shown}, {})

(* saveDocument: and saveAllDocuments:. *)
Save(w, docs) ==
  /\ Free(w) /\ docs # <<>>
  /\ \E j \in Jobs :
       /\ job[j].stage = "free" /\ j = CHOOSE i \in Jobs : job[i].stage = "free"
       /\ job' = [job EXCEPT ![j] = [stage |-> "saving", window |-> w, rest |-> docs,
                                     tabs |-> {}, then |-> "nothing"]]
  /\ Become(OpenClose(Now, <<Head(docs)>>, <<>>))
  /\ Request

-----------------------------------------------------------------------------
Answer(j, answer) ==
  /\ job[j].stage = "sheet" /\ (job[j].then = "tabs" => Unused(Now) # {})
  /\ IF answer = "save" THEN SaveNext(Now, j, job[j].rest, <<>>)
     ELSE Finish(Now, j, answer = "don't save", <<>>)
  /\ UNCHANGED <<discarded, edits, requests>>
  /\ Record({}, IF answer = "don't save" THEN ToSet(job[j].rest) ELSE {})

(* A document that is saved has a path, if it is still loaded then.         *)
SaveEnds(j, success) ==
  /\ job[j].stage = "saving" /\ (job[j].then = "tabs" => Unused(Now) # {})
  /\ LET d == Head(job[j].rest)
         s == IF success /\ doc[d].loaded
              THEN [Now EXCEPT !.doc[d].edited = FALSE, !.doc[d].path = TRUE] ELSE Now
     IN IF success THEN SaveNext(s, j, Tail(job[j].rest), <<d>>) ELSE Finish(s, j, FALSE, <<d>>)
  /\ UNCHANGED <<discarded, edits, requests>>
  /\ Record({}, IF success THEN {Head(job[j].rest)} ELSE {})

(* The completion handlers of openAndSelectDocument:activate:.              *)
LoadSucceeds(d) ==
  LET order == doc[d].waiting
      opened[n \in 0..Len(order)] ==
        IF n = 0 THEN [Now EXCEPT !.doc[d].loaded = TRUE, !.doc[d].waiting = <<>>]
        ELSE OpenClose(SetSelected(opened[n - 1], order[n], d), <<>>, <<d>>)
  IN opened[Len(order)]

(* didLoadContent:attributes:encoding: closes the document once, and then    *)
(* each handler closes the tab, and a window without tabs, which it leaves   *)
(* if no file browser is shown.                                              *)
CloseFailed(s, w, d, browser) ==
  LET i == IndexOf(s.win[w].tabs, d)
      t == IF i # 0 /\ ~Raises(s, w, {i}) THEN CloseTabs(s, w, {i}, browser) ELSE s
  IN IF t.win[w].tabs = <<>> /\ t.win[w].state = "open" THEN CloseWindow(t, w) ELSE t

LoadFails(d, browsers) ==
  LET order == doc[d].waiting
      failed[n \in 0..Len(order)] ==
        IF n = 0 THEN OpenClose([Now EXCEPT !.doc[d].waiting = <<>>], <<>>, <<d>>)
        ELSE CloseFailed(failed[n - 1], order[n], d, order[n] \in browsers)
  IN failed[Len(order)]

LoadEnds(d) ==
  /\ doc[d].waiting # <<>>
  /\ \/ Become(LoadSucceeds(d))
     \/ \E browsers \in SUBSET ToSet(doc[d].waiting) :
          /\ d \notin Untitled /\ Cardinality(Unused(Now)) >= Cardinality(browsers)
          /\ Become(LoadFails(d, browsers))
  /\ UNCHANGED <<job, app, kept, discarded, edits, requests>>
  /\ Record({}, {})

(* A closed window goes once no save and no load has a block that retains it. *)
Dealloc(w) ==
  /\ win[w].state = "closed" /\ ~\E j \in Jobs : job[j].window = w
  /\ ~\E d \in Docs : Times(doc[d].waiting, w) > 0
  /\ Become([OpenClose(Now, <<>>, IF win[w].shown = NoDoc THEN <<>> ELSE <<win[w].shown>>)
               EXCEPT !.win[w] = Shut])
  /\ UNCHANGED <<job, app, kept, discarded, edits, requests>>
  /\ Record({}, {})

(* applicationShouldTerminate:; what has no path is kept in the session.    *)
NeedsSaving(w) == Keep(win[w].tabs, {d \in Docs : doc[d].edited /\ doc[d].path})
Needing == {w \in Windows : NeedsSaving(w) # <<>>}

Terminate ==
  /\ Running /\ ~\E w \in Windows : HasSheet(w)
  /\ CASE Needing = {} ->
            /\ app' = "quit" /\ kept' = SaveSession(Now)
            /\ UNCHANGED <<win, doc, job>>
       [] Cardinality(Needing) = 1 ->
            /\ \E w \in Needing, j \in Jobs : Ask(Now, j, w, NeedsSaving(w), {}, "quit")
            /\ app' = "terminating" /\ UNCHANGED kept
       [] OTHER -> FALSE
  /\ UNCHANGED <<discarded, edits, requests>>
  /\ Record({}, {})

(* With several windows an alert asks for all of them.                       *)
TerminateSeveral(answer) ==
  /\ Running /\ ~\E w \in Windows : HasSheet(w)
  /\ Cardinality(Needing) > 1
  /\ LET docs == SetToSeq(UNION {ToSet(NeedsSaving(w)) : w \in Needing})
     IN /\ IF answer = "save"
           THEN /\ \E j \in Jobs :
                     /\ job[j].stage = "free"
                     /\ job' = [job EXCEPT ![j] =
                          [stage |-> "saving", window |-> CHOOSE w \in Needing : TRUE,
                           rest |-> docs, tabs |-> {}, then |-> "quit"]]
                /\ Become(OpenClose(Now, <<Head(docs)>>, <<>>))
                /\ app' = "terminating" /\ UNCHANGED discarded
           ELSE app' = "quit" /\ discarded' = TRUE /\ UNCHANGED <<win, doc, job>>
        /\ Record({}, IF answer = "save" THEN {} ELSE ToSet(docs))
  /\ UNCHANGED <<kept, edits, requests>>

Next ==
  /\ app # "quit"
  /\ \/ \E w \in Windows :
          \/ \E d \in Docs : ShowDocument(w, d)
          \/ \E i \in DOMAIN win[w].tabs : SelectTab(w, i) \/ TearOff(w, i)
          \/ \E indexes \in SUBSET DOMAIN win[w].tabs : PerformCloseTabs(w, indexes)
          \/ \E v \in Windows : \E i \in DOMAIN win[v].tabs, fileBrowser \in BOOLEAN :
               Drop(v, i, w, fileBrowser)
          \/ \E docs \in {<<win[w].shown>>, EditedIn(Now, win[w].tabs)} :
               win[w].shown # NoDoc /\ Save(w, docs)
          \/ NewDocumentInTab(w) \/ WindowShouldClose(w) \/ MergeAllWindows(w)
          \/ Type(w) \/ Dealloc(w)
     \/ \E j \in Jobs :
          \/ \E answer \in {"save", "cancel", "don't save"} : Answer(j, answer)
          \/ \E success \in BOOLEAN : SaveEnds(j, success)
     \/ \E d \in Docs : LoadEnds(d)
     \/ Terminate
     \/ \E answer \in {"save", "don't save"} : TerminateSeveral(answer)

Spec == Init /\ [][Next]_vars

(* Saves end; the user need not do anything.                                 *)
FairSpec ==
  Spec /\ \A j \in Jobs : WF_vars(app # "quit" /\ \E success \in BOOLEAN : SaveEnds(j, success))

-----------------------------------------------------------------------------
Holds(d) ==
  Cardinality(UNION {{w} \X {i \in DOMAIN win[w].tabs : win[w].tabs[i] = d} : w \in Windows})
  + Cardinality({w \in Windows : win[w].shown = d})
  + Len(doc[d].waiting)
  + Cardinality({j \in Jobs : job[j].stage = "saving" /\ Head(job[j].rest) = d})

(* The types of the state. *)
TypeOK ==
  /\ win \in [Windows -> [state : {"none", "open", "closed"}, tabs : Seq(Docs), index : Nat,
                          shown : Docs \cup {NoDoc}]]
  /\ doc \in [Docs -> [count : Nat, loaded : BOOLEAN, waiting : Seq(Windows),
                       edited : BOOLEAN, path : BOOLEAN]]
  /\ job \in [Jobs -> [stage : {"free", "sheet", "saving"}, window : Windows \cup {NoWindow},
                       rest : Seq(Docs), tabs : SUBSET Nat,
                       then : {"nothing", "tabs", "window", "quit"}]]
  /\ app \in {"running", "terminating", "quit"} /\ kept \subseteq Docs /\ agreed \subseteq Docs
  /\ stale \subseteq Windows /\ discarded \in BOOLEAN
  /\ edits \in 0..MaxEdits /\ requests \in 0..MaxRequests

(* Whatever is in a tab or shown, waited for or being saved holds its        *)
(* document, so that no close of another window or tab takes its text away;  *)
(* and what is shown or edited is loaded (DocumentWindowController.mm:1115,  *)
(* OakDocument.mm:1028).                                                     *)
InUseIsHeld ==
  \A d \in Docs :
    /\ doc[d].count >= Holds(d)
    /\ (doc[d].edited \/ \E w \in Windows : win[w].shown = d) => doc[d].loaded

(* Changes are lost only if the user said that they may be, unless the tabs  *)
(* or a text changed while a close was waiting, or the document was shown    *)
(* after its tab had been closed (DocumentWindowController.mm:380-433,       *)
(* DocumentWindowController+CloseUI.mm:31-91).                               *)
LostIsAgreed ==
  [][\A d \in Docs : (doc[d].edited /\ ~doc'[d].loaded) =>
       \/ d \in agreed'
       \/ \E w \in stale : Times(win[w].tabs, d) > 0
       \/ d \notin InTabs(Now)]_vars

(* "TextMate will no longer ask you to save untitled documents when you      *)
(* quit, as these will be restored next time you launch it" (Changes.md:1119):*)
(* what is edited in a tab when the application quits is in the session or   *)
(* the user agreed to lose it; not so after "Don't Save" for several windows.*)
QuitKeepsChanges ==
  app = "quit" => \A d \in InTabs(Now) : doc[d].edited => d \in agreed \cup kept \/ discarded

(* The application answers when it is asked to terminate, unless the user    *)
(* does not (DocumentWindowController.mm:549-598).                           *)
TerminateIsAnswered ==
  [](app = "terminating" => <>(app # "terminating" \/ \E j \in Jobs : job[j].stage = "sheet"))
=============================================================================
