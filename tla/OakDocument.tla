---------------------------- MODULE OakDocument ----------------------------
(***************************************************************************)
(* OakDocument (Frameworks/document): one document with a path, from the   *)
(* tab that opens it to the close that gives it up.  Its text is loaded    *)
(* and saved by worker threads that report back to the main thread, is     *)
(* backed up by timers, and is reloaded or merged when another program     *)
(* writes the file.  Every action that is not a worker's or another        *)
(* program's is a call on the main thread and runs to its end, except that *)
(* importDocumentChanges waits in a nested run loop: workers' replies and  *)
(* file system events are still delivered there, key and mouse events are  *)
(* not.  The main queue does not drain inside a block it is running, so a  *)
(* wait begun by a file system event holds the others back.                *)
(*                                                                         *)
(* A text is the set of its lines: what diff3 does to two sets of changes  *)
(* that do not touch the same lines is then done line by line.  Something  *)
(* that may be absent (the file, the backup, the snapshot) is a set with   *)
(* at most one element.                                                    *)
(***************************************************************************)
EXTENDS Integers, Sequences, FiniteSets

CONSTANTS
  MyLines,      \* lines the user adds and removes
  TheirLines,   \* lines other programs add to the file and remove from it
  FirstText,    \* what the file holds at first
  SaveIds,      \* saves that may be under way together
  Allow,        \* what may happen in the environment:
                \*   "typing"   editing while a save is under way
                \*   "macros"   undo groups that stay open while events arrive
                \*   "leaving"  switching to another application during a macro
                \*   "deleting" other programs delete the file
                \*   "joining"  asking again for a document that is being loaded
                \*   "errors"   a load or a save fails
                \*   "attributes" a save fails after the file has been written
                \*   "import errors"  reading the changed file fails
  MaxRevision,  \* bound: revisions in the life of one buffer
  MaxExternal,  \* bound: writes by other programs
  MaxHolds,     \* bound: holds on a document that is asked for again
  MaxCrashes    \* bound: crashes

Text == SUBSET (MyLines \cup TheirLines)

ASSUME DocumentAssumption ==
  /\ MyLines \cap TheirLines = {}
  /\ FirstText \in Text /\ IsFiniteSet(SaveIds)
  /\ Allow \subseteq {"typing", "macros", "leaving", "deleting", "joining", "errors",
                     "attributes", "import errors"}
  /\ {MaxRevision, MaxExternal, MaxHolds, MaxCrashes} \subseteq Nat

VARIABLES
  doc,        \* the OakDocument and the files it owns, see Documents
  tab, view,  \* is the document in a tab bar, in the text view?
  load,       \* _loadCompletionHandlers and the read they wait for
  saves,      \* per save: how far it is and the text it writes
  imports,    \* the waits of importDocumentChanges, innermost last
  replies,    \* which of them have been read and not shown, oldest first
  group,      \* the text view's undo group: "closed", "open" or "changed"
  active,     \* NSApp.isActive
  wake,       \* is there an observer for NSApplicationDidBecomeActive?
  disk,       \* the text of the file
  base,       \* history: the text last read from or written to the file
  missed,     \* history: was the file written while nobody observed it?
  written,    \* how often other programs wrote it
  crashes

ui      == <<tab, view>>
app     == <<group, active, wake>>
waits   == <<imports, replies>>
outside == <<disk, base, written>>
vars == <<doc, tab, view, load, saves, imports, replies, group, active, wake, disk,
          base, missed, written, crashes>>

Optional(S) == {{}} \cup {{x} : x \in S}
The(S)      == CHOOSE x \in S : TRUE
Content(f)  == IF f = {} THEN {} ELSE The(f)   \* a missing file reads as ""

Backups == [text : Text, modified : BOOLEAN]

Documents ==
  [openCount      : Nat,
   loaded         : BOOLEAN,
   text           : Text,            \* _buffer, there while loaded
   revision       : Nat \cup {-1},
   saved          : Nat \cup {-1},   \* _savedRevision
   backupRevision : Nat,
   backup         : Optional(Backups),  \* the file at _backupPath
   snapshot       : Optional(Text),
   onDisk         : BOOLEAN,
   observing      : BOOLEAN,         \* _observeFileSystem
   events         : SUBSET {"write", "delete"},  \* not delivered yet
   needsImport    : BOOLEAN,         \* _needsImportDocumentChanges
   timer          : BOOLEAN,         \* _backupTimer
   session        : BOOLEAN]         \* scheduleSessionBackup's timer

-----------------------------------------------------------------------------
(* What the methods do to the document. *)

Edited(d) == d.revision # d.saved /\ (d.onDisk \/ ~(d.loaded /\ d.text = {}))

(* Setting revision, savedRevision or onDisk notifies the observers of       *)
(* documentEdited, and the window schedules a session backup.                *)
Notified(d) == [d EXCEPT !.session = TRUE]

RemoveBackupFile(d) == [d EXCEPT !.backup = {}]   \* a slip: the timer runs on

RemoveBackup(d) == [d EXCEPT !.timer = FALSE, !.backup = {}]

BackupWorthKeeping(d) ==
  d.loaded /\ IF d.onDisk THEN d.saved # d.revision ELSE d.text # {}

(* Slips that the properties must notice, here and below: each stands in   *)
(* for the definition that follows it.                                     *)
SaveBackupOnce(d) ==          \* the revision of the backup is not compared
  CASE BackupWorthKeeping(d) /\ d.backup = {} ->
         [d EXCEPT !.backup = {[text |-> d.text, modified |-> Edited(d)]},
                   !.backupRevision = d.revision]
    [] ~BackupWorthKeeping(d) /\ d.backup # {} ->
         [d EXCEPT !.timer = FALSE, !.backup = {}]
    [] OTHER -> d

SaveBackup(d) ==
  CASE BackupWorthKeeping(d) /\ (d.backup = {} \/ d.backupRevision # d.revision) ->
         [d EXCEPT !.backup = {[text |-> d.text, modified |-> Edited(d)]},
                   !.backupRevision = d.revision]
    [] ~BackupWorthKeeping(d) /\ d.backup # {} -> RemoveBackup(d)
    [] OTHER -> d

SetObserving(d, flag) ==
  IF d.observing = flag THEN d ELSE [d EXCEPT !.observing = flag, !.events = {}]

DeleteBuffer(d) == [d EXCEPT !.loaded = FALSE, !.text = {}, !.snapshot = {}]

Close(d) ==
  LET less == [d EXCEPT !.openCount = @ - 1]
  IN IF less.openCount # 0 THEN less
     ELSE DeleteBuffer(RemoveBackup(Notified(
            [SetObserving(less, FALSE) EXCEPT !.revision = d.saved])))

MarkSavedOnly(d) ==           \* the snapshot is not taken
  Notified([d EXCEPT !.saved = d.revision])

MarkSaved(d) ==
  Notified([d EXCEPT !.saved = d.revision, !.snapshot = {d.text}])

(* did_replace: the text is new and the backup timer starts again. *)
BufferReplaced(d, t) == Notified([d EXCEPT !.text = t, !.timer = TRUE])

BumpRevision(d) == Notified([d EXCEPT !.revision = @ + 1])

Loaded(d, t) ==
  SetObserving(
    BufferReplaced([d EXCEPT !.loaded = TRUE, !.revision = 1, !.saved = 1,
                             !.backupRevision = 1, !.onDisk = disk # {},
                             !.snapshot = {t}], t), TRUE)

CanLoadBackup(d) == ~d.loaded /\ d.backup # {}

LoadBackupAsSaved(d) ==       \* _savedRevision and the snapshot are not set back
  Loaded(d, The(d.backup).text)

LoadBackup(d) ==
  LET now == Loaded(d, The(d.backup).text)
  IN IF Edited(d) THEN [now EXCEPT !.snapshot = {}, !.saved = now.revision - 1] ELSE now

-----------------------------------------------------------------------------
NoLoad == [handlers |-> 0, stage |-> "none", text |-> {}]
NoSave == [stage |-> "none", text |-> {}]

Closed == [openCount |-> 0, loaded |-> FALSE, text |-> {}, revision |-> 0,
           saved |-> 0, backupRevision |-> 0, backup |-> {}, snapshot |-> {},
           onDisk |-> TRUE, observing |-> FALSE, events |-> {},
           needsImport |-> FALSE, timer |-> FALSE, session |-> FALSE]

Init ==
  /\ doc = Closed
  /\ tab = FALSE /\ view = FALSE
  /\ load = NoLoad
  /\ saves = [i \in SaveIds |-> NoSave]
  /\ imports = <<>> /\ replies = <<>>
  /\ group = "closed" /\ active = TRUE /\ wake = FALSE
  /\ disk = {FirstText} /\ base = FirstText
  /\ missed = FALSE /\ written = 0 /\ crashes = 0

Saving == \E i \in SaveIds : saves[i].stage # "none"

(* The user can act on the window: no nested run loop is in the way.        *)
UserCanActAtAnyTime ==        \* the nested run loop delivers key presses too
  active /\ group = "closed"

UserCanAct == active /\ imports = <<>> /\ group = "closed"

(* History, a part of every action: once the file has been written while    *)
(* nobody observed it, until the text is that of the file again.            *)
History ==
  missed' = /\ base' # Content(disk')
            /\ missed \/ ~doc.observing \/ ~doc'.observing

Min1(b) == IF b THEN 1 ELSE 0

(* setDocuments: a tab holds the document and asks for backups. *)
OpenTab ==
  /\ UserCanAct /\ ~tab
  /\ tab' = TRUE
  /\ doc' = Notified([doc EXCEPT !.openCount = @ + 1])
  /\ UNCHANGED <<view, load, saves, waits, app, outside, crashes>>
  /\ History

(* openAndSelectDocument: loadModal, and when it succeeds the text view     *)
(* takes a hold of its own before the one of the load is given up.          *)
SelectTab ==
  /\ UserCanAct /\ tab /\ ~view
  /\ LET opened == [doc EXCEPT !.openCount = @ + 1] IN
     \/ /\ doc.loaded
        /\ doc' = opened
        /\ view' = TRUE
        /\ UNCHANGED load
     \/ /\ ~doc.loaded /\ load.handlers # 0
        /\ "joining" \in Allow /\ doc.openCount < MaxHolds
        /\ doc' = opened
        /\ load' = [load EXCEPT !.handlers = @ + 1]
        /\ UNCHANGED view
     \/ /\ load.handlers = 0 /\ CanLoadBackup(doc)
        /\ doc' = LoadBackup(opened)
        /\ view' = TRUE
        /\ UNCHANGED load
     \/ /\ ~doc.loaded /\ load.handlers = 0 /\ ~CanLoadBackup(doc)
        /\ doc' = opened
        /\ load' = [NoLoad EXCEPT !.handlers = 1, !.stage = "reading"]
        /\ UNCHANGED view
  /\ UNCHANGED <<tab, saves, waits, app, outside, crashes>>
  /\ History

(* The worker reads the file. *)
LoadRead ==
  /\ load.stage = "reading"
  /\ \/ load' = [load EXCEPT !.stage = "read", !.text = Content(disk)]
     \/ "errors" \in Allow /\ load' = [load EXCEPT !.stage = "failed"]
  /\ UNCHANGED <<doc, ui, saves, waits, app, outside, crashes>>
  /\ History

(* The text is there: every handler shows the document. *)
LoadDone ==
  /\ load.stage = "read"
  /\ doc' = [Loaded(doc, load.text) EXCEPT
               !.openCount = @ + Min1(~view) - load.handlers]
  /\ view' = TRUE
  /\ base' = load.text
  /\ load' = NoLoad
  /\ UNCHANGED <<tab, saves, waits, app, disk, written, crashes>>
  /\ History

(* didLoadContent closes once, then the first handler closes the tab. *)
LoadFailedClosingTwice ==     \* whether there is a tab is not asked
  /\ load.stage = "failed"
  /\ doc' = Close(Close(doc))
  /\ tab' = FALSE
  /\ load' = NoLoad
  /\ UNCHANGED <<view, saves, waits, app, outside, crashes>>
  /\ History

LoadFailed ==
  /\ load.stage = "failed"
  /\ doc' = IF tab THEN Close(Close(doc)) ELSE Close(doc)
  /\ tab' = FALSE
  /\ load' = NoLoad
  /\ UNCHANGED <<view, saves, waits, app, outside, crashes>>
  /\ History

SelectOtherTab ==
  /\ UserCanAct /\ view
  /\ view' = FALSE
  /\ doc' = Close(doc)
  /\ UNCHANGED <<tab, load, saves, waits, app, outside, crashes>>
  /\ History

(* Closing the tab, after the user was asked about changes. *)
CloseTab ==
  /\ UserCanAct /\ tab
  /\ tab' = FALSE /\ view' = FALSE
  /\ doc' = IF view THEN Close(Close(doc)) ELSE Close(doc)
  /\ UNCHANGED <<load, saves, waits, app, outside, crashes>>
  /\ History

-----------------------------------------------------------------------------
(* Editing.  A key press opens and closes an undo group in one event; a     *)
(* macro that runs a shell command keeps it open while events are           *)
(* delivered (OakTextView.mm:1888 and :4330).                               *)

CanEdit == doc.loaded /\ view /\ doc.revision < MaxRevision
           /\ (Saving => "typing" \in Allow)

Toggled(t, lines) == {(t \ {l}) \cup ({l} \ t) : l \in lines}

Import(d) == [d EXCEPT !.needsImport = FALSE]

(* A wait begins.  inQueue: it is a block of the main queue that waits;     *)
(* resumes: the import whose reload goes on when this one has ended, or 0.  *)
Waits(stack, inQueue, resumes) ==
  Append(stack, [stage |-> "reading", text |-> {}, inQueue |-> inQueue,
                 resumes |-> resumes])

(* endUndoGrouping, for a group that changed the text or did not. *)
EndGroupDropsImport(d, changed) ==  \* the flag is cleared and nothing imported
  /\ doc' = Import(IF changed THEN BumpRevision(d) ELSE d)
  /\ UNCHANGED imports

EndGroup(d, changed) ==
  LET now == IF changed THEN BumpRevision(d) ELSE d IN
  /\ doc' = Import(now)
  /\ imports' = IF now.needsImport THEN Waits(imports, FALSE, 0) ELSE imports

Edit ==
  /\ UserCanAct /\ CanEdit
  /\ \E t \in Toggled(doc.text, MyLines) : EndGroup(BufferReplaced(doc, t), TRUE)
  /\ UNCHANGED <<replies, ui, load, saves, app, outside, crashes>>
  /\ History

BeginMacro ==
  /\ "macros" \in Allow
  /\ UserCanAct /\ CanEdit
  /\ \/ group' = "open" /\ UNCHANGED doc
     \/ /\ group' = "changed"
        /\ \E t \in Toggled(doc.text, MyLines) : doc' = BufferReplaced(doc, t)
  /\ UNCHANGED <<ui, load, saves, waits, active, wake, outside, crashes>>
  /\ History

EndMacro ==
  /\ group # "closed" /\ imports = <<>>
  /\ EndGroup(doc, group = "changed")
  /\ group' = "closed"
  /\ UNCHANGED <<replies, ui, load, saves, active, wake, outside, crashes>>
  /\ History

-----------------------------------------------------------------------------
(* Backups. *)

BackupTimerFires ==
  /\ doc.timer
  /\ doc' = SaveBackup([doc EXCEPT !.timer = FALSE])
  /\ UNCHANGED <<ui, load, saves, waits, app, outside, crashes>>
  /\ History

(* saveSession: an edited document that is in a tab writes its backup. *)
SessionTimerFires ==
  /\ doc.session
  /\ LET fired == [doc EXCEPT !.session = FALSE]
     IN doc' = IF tab /\ doc.loaded /\ Edited(doc) THEN SaveBackup(fired) ELSE fired
  /\ UNCHANGED <<ui, load, saves, waits, app, outside, crashes>>
  /\ History

-----------------------------------------------------------------------------
(* Saving: the content is copied when the save starts. *)

StartSaveWithoutOpen(i) ==    \* the save takes no hold of the document
  /\ UserCanAct /\ tab /\ saves[i].stage = "none"
  /\ LET ready == IF Edited(doc) /\ CanLoadBackup(doc) THEN LoadBackup(doc) ELSE doc IN
     /\ ready.loaded
     /\ doc' = SetObserving(ready, FALSE)
     /\ saves' = [saves EXCEPT ![i] = [stage |-> "writing", text |-> ready.text]]
  /\ UNCHANGED <<ui, load, waits, app, outside, crashes>>
  /\ History

StartSave(i) ==
  /\ UserCanAct /\ tab /\ saves[i].stage = "none"
  /\ LET ready == IF Edited(doc) /\ CanLoadBackup(doc) THEN LoadBackup(doc) ELSE doc IN
     /\ ready.loaded
     /\ doc' = [SetObserving(ready, FALSE) EXCEPT !.openCount = @ + 1]
     /\ saves' = [saves EXCEPT ![i] = [stage |-> "writing", text |-> ready.text]]
  /\ UNCHANGED <<ui, load, waits, app, outside, crashes>>
  /\ History

Noticed(d, event) == IF d.observing THEN [d EXCEPT !.events = @ \cup {event}] ELSE d

(* The worker writes the file, or fails to and leaves it as it was, or      *)
(* fails after it has written it, setting the attributes (save.cc:141).     *)
WriteSave(i) ==
  /\ saves[i].stage = "writing"
  /\ \/ /\ disk' = {saves[i].text} /\ base' = saves[i].text
        /\ saves' = [saves EXCEPT ![i].stage = "written"]
        /\ doc' = Noticed(doc, "write")
     \/ /\ "errors" \in Allow
        /\ saves' = [saves EXCEPT ![i].stage = "failed"]
        /\ UNCHANGED <<doc, disk, base>>
     \/ /\ "attributes" \in Allow
        /\ disk' = {saves[i].text} /\ base' = saves[i].text
        /\ saves' = [saves EXCEPT ![i].stage = "failed"]
        /\ doc' = Noticed(doc, "write")
  /\ UNCHANGED <<ui, load, waits, app, written, crashes>>
  /\ History

DidSave(i) ==
  /\ saves[i].stage \in {"written", "failed"}
  /\ LET d == IF saves[i].stage = "written" /\ doc.loaded
              THEN RemoveBackup(MarkSaved([doc EXCEPT !.onDisk = TRUE]))
              ELSE doc
     IN doc' = Close(SetObserving(d, d.loaded))
  /\ saves' = [saves EXCEPT ![i] = NoSave]
  /\ UNCHANGED <<ui, load, waits, app, outside, crashes>>
  /\ History

-----------------------------------------------------------------------------
(* Other programs change the file. *)

ExternalWrite ==
  /\ written < MaxExternal
  /\ written' = written + 1
  /\ \E t \in Toggled(Content(disk), TheirLines) : disk' = {t}
  /\ doc' = Noticed(doc, "write")
  /\ UNCHANGED <<ui, load, saves, waits, app, base, crashes>>
  /\ History

ExternalDelete ==
  /\ "deleting" \in Allow
  /\ written < MaxExternal /\ disk # {}
  /\ written' = written + 1
  /\ disk' = {}
  /\ doc' = Noticed(doc, "delete")
  /\ UNCHANGED <<ui, load, saves, waits, app, base, crashes>>
  /\ History

QueueIsFree == \A i \in 1..Len(imports) : ~imports[i].inQueue

Seen(event) ==
  Notified([doc EXCEPT !.events = @ \ {event}, !.onDisk = disk # {}])

FileDeleted ==
  /\ QueueIsFree /\ "delete" \in doc.events
  /\ doc' = Seen("delete")
  /\ UNCHANGED <<ui, load, saves, waits, app, outside, crashes>>
  /\ History

(* setNeedsImportDocumentChanges: YES *)
FileWritten ==
  /\ QueueIsFree /\ "write" \in doc.events
  /\ IF ~doc.needsImport /\ group = "closed" /\ active
     THEN /\ doc' = Seen("write")
          /\ imports' = Waits(imports, TRUE, 0)
          /\ UNCHANGED wake
     ELSE /\ doc' = [Seen("write") EXCEPT !.needsImport = TRUE]
          /\ wake' = (wake \/ (~doc.needsImport /\ group = "closed"))
          /\ UNCHANGED imports
  /\ UNCHANGED <<replies, ui, load, saves, group, active, outside, crashes>>
  /\ History

Deactivate ==
  /\ active /\ imports = <<>>
  /\ group # "closed" => "leaving" \in Allow
  /\ active' = FALSE
  /\ UNCHANGED <<doc, ui, load, saves, waits, group, wake, outside, crashes>>
  /\ History

Activate ==
  /\ ~active /\ imports = <<>>
  /\ active' = TRUE /\ wake' = FALSE
  /\ IF wake /\ doc.loaded
     THEN doc' = Import(doc) /\ imports' = Waits(imports, FALSE, 0)
     ELSE UNCHANGED <<doc, imports>>
  /\ UNCHANGED <<replies, ui, load, saves, group, outside, crashes>>
  /\ History

-----------------------------------------------------------------------------
(* importDocumentChanges, after it started to read. *)

ImportRead(i) ==
  /\ imports[i].stage = "reading"
  /\ \/ /\ imports' = [imports EXCEPT ![i].stage = "read", ![i].text = Content(disk)]
        /\ replies' = Append(replies, i)
     \/ /\ "import errors" \in Allow  \* show_error does not stop the run loop
        /\ imports' = [imports EXCEPT ![i].stage = "unread"]
        /\ UNCHANGED replies
  /\ UNCHANGED <<doc, ui, load, saves, app, outside, crashes>>
  /\ History

(* diff3: a line stays when both texts have it or the one that has it added *)
(* it to the original.                                                      *)
MergeWithoutOriginal(original, mine, yours) == mine \cup yours  \* a slip

Merge(original, mine, yours) ==
  {l \in mine \cup yours : l \in mine \cap yours \/ l \notin original}

(* What is left once the new text is in the buffer: to set _savedRevision.  *)
ReloadEnds(d, kind) ==
  CASE kind = "replaced" -> MarkSaved(d)
    [] kind = "theirs"   -> Notified([d EXCEPT !.saved = d.revision])
    [] kind = "merged"   -> Notified([d EXCEPT !.saved = -1])

(* endUndoGrouping begins another import when one is needed, and that one   *)
(* comes first.                                                             *)
Reload(i, d, kind) ==
  IF d.needsImport /\ group = "closed"
  THEN /\ doc' = Import(d)
       /\ imports' = Waits([imports EXCEPT ![i].stage = kind], FALSE, i)
  ELSE /\ doc' = ReloadEnds(d, kind)
       /\ imports' = [imports EXCEPT ![i].stage = "shown"]

(* The run loop takes the workers' replies in turn, whichever wait it is in. *)
ImportShow ==
  /\ replies # <<>>
  /\ replies' = Tail(replies)
  /\ LET i     == Head(replies)
         yours == imports[i].text
         mine  == doc.text IN
     \/ /\ ~doc.loaded  \* the early return does not stop the run loop
        /\ imports' = [imports EXCEPT ![i].stage = "stuck"]
        /\ UNCHANGED <<doc, base>>
     \/ /\ doc.loaded /\ yours = mine
        /\ doc' = MarkSaved(doc)
        /\ imports' = [imports EXCEPT ![i].stage = "shown"]
        /\ base' = yours
     \/ /\ doc.loaded /\ yours # mine /\ ~Edited(doc)
        /\ Reload(i, BumpRevision(BufferReplaced(doc, yours)), "replaced")
        /\ base' = yours
     \/ /\ doc.loaded /\ yours # mine /\ Edited(doc) /\ doc.snapshot # {}
        /\ LET merged == Merge(The(doc.snapshot), mine, yours)
           IN Reload(i, BumpRevision(BufferReplaced([doc EXCEPT !.snapshot = {yours}],
                                                    merged)),
                     IF merged = yours THEN "theirs" ELSE "merged")
        /\ base' = yours
     \/ /\ doc.loaded /\ yours # mine /\ Edited(doc) /\ doc.snapshot = {}
        /\ imports' = [imports EXCEPT ![i].stage = "shown"]
        /\ UNCHANGED <<doc, base>>
  /\ UNCHANGED <<ui, load, saves, app, disk, written, crashes>>
  /\ History

(* The run loop of the innermost wait has been stopped. *)
ImportReturn ==
  /\ imports # <<>>
  /\ LET n == Len(imports)
         r == imports[n].resumes
         rest == SubSeq(imports, 1, n - 1) IN
     /\ imports[n].stage = "shown"
     /\ IF r = 0
        THEN imports' = rest /\ UNCHANGED doc
        ELSE /\ imports' = [rest EXCEPT ![r].stage = "shown"]
             /\ doc' = ReloadEnds(doc, imports[r].stage)
  /\ UNCHANGED <<replies, ui, load, saves, app, outside, crashes>>
  /\ History

-----------------------------------------------------------------------------
(* The program dies and is started again.  The session names the document   *)
(* when it has a backup, so it is in a tab again, not yet loaded.           *)
Crash ==
  /\ crashes < MaxCrashes
  /\ crashes' = crashes + 1
  /\ doc' = [Closed EXCEPT
               !.backup    = doc.backup,
               !.openCount = Min1(doc.backup # {}),
               !.onDisk    = disk # {},
               !.saved     = IF \E b \in doc.backup : b.modified THEN -1 ELSE 0]
  /\ tab' = (doc.backup # {}) /\ view' = FALSE
  /\ load' = NoLoad
  /\ saves' = [i \in SaveIds |-> NoSave]
  /\ imports' = <<>> /\ replies' = <<>>
  /\ group' = "closed" /\ active' = TRUE /\ wake' = FALSE
  /\ UNCHANGED outside
  /\ History

Next ==
  \/ OpenTab \/ SelectTab \/ SelectOtherTab \/ CloseTab
  \/ LoadRead \/ LoadDone \/ LoadFailed
  \/ Edit \/ BeginMacro \/ EndMacro
  \/ BackupTimerFires \/ SessionTimerFires
  \/ \E i \in SaveIds : StartSave(i) \/ WriteSave(i) \/ DidSave(i)
  \/ ExternalWrite \/ ExternalDelete \/ FileWritten \/ FileDeleted
  \/ Activate \/ Deactivate
  \/ \E i \in 1..Len(imports) : ImportRead(i)
  \/ ImportShow \/ ImportReturn
  \/ Crash

Spec == Init /\ [][Next]_vars

(* Workers answer, the main thread takes what is in its queues, timers fire *)
(* and a macro's command ends.  Nobody has to type, switch applications,    *)
(* save or close.                                                           *)
FairSpec ==
  /\ Spec
  /\ WF_vars(LoadRead)
  /\ WF_vars(LoadDone \/ LoadFailed)
  /\ \A i \in SaveIds : /\ WF_vars(WriteSave(i))
                       /\ WF_vars(DidSave(i))
  /\ WF_vars(FileWritten) /\ WF_vars(FileDeleted)
  /\ WF_vars(EndMacro)
  /\ WF_vars(BackupTimerFires) /\ WF_vars(SessionTimerFires)
  /\ WF_vars(\E i \in 1..Len(imports) : ImportRead(i))
  /\ WF_vars(ImportShow) /\ WF_vars(ImportReturn)

-----------------------------------------------------------------------------
(* Properties. *)

(* The types of the state. *)
TypeOK ==
  /\ doc \in Documents
  /\ tab \in BOOLEAN /\ view \in BOOLEAN
  /\ load \in [handlers : Nat, stage : {"none", "reading", "read", "failed"}, text : Text]
  /\ saves \in [SaveIds -> [stage : {"none", "writing", "written", "failed"}, text : Text]]
  /\ imports \in Seq([stage : {"reading", "read", "replaced", "theirs", "merged",
                              "shown", "stuck", "unread"},
                      text : Text, inQueue : BOOLEAN, resumes : Nat])
  /\ replies \in Seq(1..Len(imports))
  /\ group \in {"closed", "open", "changed"}
  /\ active \in BOOLEAN /\ wake \in BOOLEAN
  /\ disk \in Optional(Text) /\ base \in Text /\ missed \in BOOLEAN
  /\ written \in Nat /\ crashes \in Nat

Reloading ==
  \E i \in 1..Len(imports) : imports[i].stage \in {"replaced", "theirs", "merged"}

(* A document that is not marked as edited holds what was last read from or *)
(* written to its file, through saves, reloads, merges and crashes.         *)
CleanMeansOnDisk ==
  doc.loaded /\ doc.revision = doc.saved /\ group # "changed" /\ ~Reloading
    => doc.text = base

(* The snapshot that the next merge takes for the common ancestor           *)
(* (OakDocument.mm:1653) is what was last exchanged with the file.          *)
SnapshotIsBase == doc.loaded /\ ~Saving /\ ~Reloading => doc.snapshot \subseteq {base}

(* "As there is full session restore, it is safe to relaunch even with      *)
(* unsaved changes" (README.md:58): once the timers have fired the changes  *)
(* are in the backup, and it says that they are changes.                    *)
ChangesAreBackedUp ==
  doc.loaded /\ tab /\ Edited(doc) /\ ~doc.timer /\ ~doc.session /\ group = "closed"
    => \E b \in doc.backup : b.text = doc.text /\ b.modified

(* The same said of the text and not of the edited flag: what the user      *)
(* added that is not in the file is in the backup.                          *)
NothingTypedIsLost ==
  doc.loaded /\ tab /\ ~Saving /\ imports = <<>> /\ group = "closed"
      /\ ~doc.timer /\ ~doc.session
    => (doc.text \ Content(disk)) \cap MyLines \subseteq UNION {b.text : b \in doc.backup}

(* Importing another program's changes undoes none of the user's: what was  *)
(* added since the last exchange with the file stays, what was removed does *)
(* not come back.                                                           *)
ImportKeepsEdits ==
  [][ imports # <<>> /\ doc.loaded /\ doc'.loaded /\ doc'.text # doc.text =>
        /\ doc.text \ base \subseteq doc'.text
        /\ (base \ doc.text) \cap doc'.text = {} ]_vars

(* Whatever fails or comes late, the text view and a save never work on a   *)
(* document whose buffer is gone: each has a hold of its own (close,        *)
(* OakDocument.mm:1028).                                                    *)
InUseIsLoaded ==
  /\ view \/ Saving => doc.loaded
  /\ doc.openCount >= Min1(tab) + Min1(view) + load.handlers

(* A document that nobody holds leaves nothing behind that the next load    *)
(* would take for unsaved changes.                                          *)
ClosedLeavesNoBackup == doc.openCount = 0 => doc.backup = {} /\ ~doc.timer

(* A change by another program that was noticed is on its way to the text,  *)
(* or there is no common ancestor to merge it with (OakDocument.mm:1672);   *)
(* and an import that was put off has something that makes it: the end of   *)
(* the undo group or the application becoming active.                       *)
ChangesAreOnTheirWay ==
  /\ doc.loaded /\ ~missed /\ disk # {} /\ base # The(disk) =>
       \/ "write" \in doc.events \/ doc.needsImport
       \/ \E i \in 1..Len(imports) :
            \/ imports[i].stage = "reading"
            \/ imports[i].stage = "read" /\ imports[i].text = The(disk)
       \/ doc.snapshot = {}
  /\ doc.loaded /\ doc.needsImport => group # "closed" \/ wake

(* importDocumentChanges returns and the main thread does not hang, unless  *)
(* the changed file cannot be read (OakDocument.mm:1624).                   *)
WaitsEnd ==
  imports # <<>> ~> imports = <<>> \/ \E i \in 1..Len(imports) : imports[i].stage = "unread"

(* Changes reach the backup, or stop being changes.                         *)
BackupCatchesUp ==
  doc.loaded /\ tab /\ Edited(doc) ~>
    ~(doc.loaded /\ tab /\ Edited(doc)) \/ \E b \in doc.backup : b.text = doc.text
=============================================================================
