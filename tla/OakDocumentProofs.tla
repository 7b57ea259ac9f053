------------------------- MODULE OakDocumentProofs -------------------------
(***************************************************************************)
(* Theorems about OakDocument, for every set of lines and of saves, every  *)
(* environment (Allow) unless a theorem says otherwise, and every bound.   *)
(*                                                                         *)
(*   ImportsOK  the stack of nested waits: a reply is of a wait that has   *)
(*              read and is answered once, and a reload that goes on when  *)
(*              the wait above it returns is still below it                *)
(*   Kept       the document's parts agree with each other (DocOK), the    *)
(*              other variables have their types (OthersOK), and the open  *)
(*              count covers all who hold the document (Held)              *)
(*   BackedUp   the backup, unless a timer is to renew it, has the text    *)
(*              and says that it has changes                               *)
(*   Orderly    waits do not nest; a put-off import has what makes it, and *)
(*              the file is observed unless it is being saved              *)
(*   OnItsWay   what is in the file is read, will be, or is the last reply *)
(*   Exchanged  an unchanged text, a save and the snapshot are what was    *)
(*              last exchanged with the file                               *)
(*                                                                         *)
(* Each is preserved by every action together with those before it.        *)
(***************************************************************************)
EXTENDS OakDocument, SequenceTheorems, FiniteSetTheorems, TLAPS

-----------------------------------------------------------------------------
(* What the methods do to a document. *)

Fields == DOMAIN Closed

OnlyChanges(fields, d, e) == \A f \in Fields \ fields : e[f] = d[f]

LEMMA TheOnly == ASSUME NEW x PROVE The({x}) = x
BY DEF The

LEMMA OptionalParts ==
  ASSUME NEW S, NEW f \in Optional(S)
  PROVE  f = {} \/ (The(f) \in S /\ f = {The(f)})
BY TheOnly DEF Optional

LEMMA ContentType == ASSUME NEW f \in Optional(Text) PROVE Content(f) \in Text
BY OptionalParts DEF Content, Text

LEMMA ClosedType == Closed \in Documents
BY DEF Closed, Documents, Optional, Text

LEMMA NotifiedDoc ==
  ASSUME NEW d \in Documents
  PROVE  LET e == Notified(d) IN
         e \in Documents /\ OnlyChanges({"session"}, d, e) /\ e.session
BY DEF Notified, Documents, OnlyChanges, Fields, Closed

LEMMA RemoveBackupDoc ==
  ASSUME NEW d \in Documents
  PROVE  LET e == RemoveBackup(d) IN
         /\ e \in Documents /\ OnlyChanges({"timer", "backup"}, d, e)
         /\ ~e.timer /\ e.backup = {}
BY DEF RemoveBackup, Documents, OnlyChanges, Fields, Closed, Optional

LEMMA SetObservingDoc ==
  ASSUME NEW d \in Documents, NEW flag \in BOOLEAN
  PROVE  LET e == SetObserving(d, flag) IN
         /\ e \in Documents /\ OnlyChanges({"observing", "events"}, d, e)
         /\ e.observing = flag
         /\ e.events = IF d.observing = flag THEN d.events ELSE {}
BY DEF SetObserving, Documents, OnlyChanges, Fields, Closed

LEMMA BufferReplacedDoc ==
  ASSUME NEW d \in Documents, NEW t \in Text
  PROVE  LET e == BufferReplaced(d, t) IN
         /\ e \in Documents /\ OnlyChanges({"text", "timer", "session"}, d, e)
         /\ e.text = t /\ e.timer /\ e.session
BY DEF BufferReplaced, Notified, Documents, OnlyChanges, Fields, Closed

LEMMA BumpRevisionDoc ==
  ASSUME NEW d \in Documents
  PROVE  LET e == BumpRevision(d) IN
         /\ e \in Documents /\ OnlyChanges({"revision", "session"}, d, e)
         /\ e.revision = d.revision + 1 /\ e.session
<1> DEFINE r == d.revision + 1
           m == [d EXCEPT !.revision = r]
<1>1. r \in Nat
  BY DEF Documents
<1>2. BumpRevision(d) = Notified(m)
  BY DEF BumpRevision
<1> SUFFICES LET e == BumpRevision(d) IN
             /\ e \in Documents /\ OnlyChanges({"revision", "session"}, d, e)
             /\ e.revision = r /\ e.session
  OBVIOUS
<1> HIDE DEF r
<1>3. m \in Documents /\ OnlyChanges({"revision"}, d, m) /\ m.revision = r
  BY <1>1 DEF Documents, OnlyChanges, Fields, Closed
<1> HIDE DEF m
<1> QED BY <1>2, <1>3, NotifiedDoc DEF OnlyChanges, Fields, Closed

LEMMA ImportDoc ==
  ASSUME NEW d \in Documents
  PROVE  LET e == Import(d) IN
         e \in Documents /\ OnlyChanges({"needsImport"}, d, e) /\ ~e.needsImport
BY DEF Import, Documents, OnlyChanges, Fields, Closed

LEMMA OpenedDoc ==
  ASSUME NEW d \in Documents
  PROVE  LET e == [d EXCEPT !.openCount = @ + 1] IN
         /\ e \in Documents /\ OnlyChanges({"openCount"}, d, e)
         /\ e.openCount = d.openCount + 1
<1> DEFINE n == d.openCount + 1
<1>1. n \in Nat
  BY DEF Documents
<1>2. [d EXCEPT !.openCount = @ + 1] = [d EXCEPT !.openCount = n]
  BY DEF Documents
<1> SUFFICES LET e == [d EXCEPT !.openCount = n] IN
             e \in Documents /\ OnlyChanges({"openCount"}, d, e) /\ e.openCount = n
  BY <1>2
<1> HIDE DEF n
<1> QED BY <1>1 DEF Documents, OnlyChanges, Fields, Closed

LEMMA MarkSavedDoc ==
  ASSUME NEW d \in Documents
  PROVE  LET e == MarkSaved(d) IN
         /\ e \in Documents /\ OnlyChanges({"saved", "snapshot", "session"}, d, e)
         /\ e.saved = d.revision /\ e.snapshot = {d.text} /\ e.session
<1> DEFINE m == [d EXCEPT !.saved = d.revision, !.snapshot = {d.text}]
<1>1. m \in Documents
  BY DEF Documents, Optional
<1>2. /\ OnlyChanges({"saved", "snapshot"}, d, m)
      /\ m.saved = d.revision /\ m.snapshot = {d.text}
  BY DEF Documents, OnlyChanges, Fields, Closed
<1>3. MarkSaved(d) = Notified(m)
  BY DEF MarkSaved
<1> HIDE DEF m
<1> QED BY <1>1, <1>2, <1>3, NotifiedDoc DEF OnlyChanges, Fields, Closed

LEMMA NoticedDoc ==
  ASSUME NEW d \in Documents, NEW event \in {"write", "delete"}
  PROVE  LET e == Noticed(d, event) IN
         /\ e \in Documents /\ OnlyChanges({"events"}, d, e)
         /\ e.events = IF d.observing THEN d.events \cup {event} ELSE d.events
BY DEF Noticed, Documents, OnlyChanges, Fields, Closed

LEMMA SeenDoc ==
  ASSUME doc \in Documents, NEW event \in {"write", "delete"}
  PROVE  LET e == Seen(event) IN
         /\ e \in Documents /\ OnlyChanges({"events", "onDisk", "session"}, doc, e)
         /\ e.events = doc.events \ {event} /\ e.onDisk = (disk # {}) /\ e.session
BY DEF Seen, Notified, Documents, OnlyChanges, Fields, Closed

LEMMA LoadedDoc ==
  ASSUME NEW d \in Documents, NEW t \in Text
  PROVE  LET e == Loaded(d, t) IN
         /\ e \in Documents
         /\ e.openCount = d.openCount /\ e.backup = d.backup
         /\ e.needsImport = d.needsImport
         /\ e.loaded /\ e.revision = 1 /\ e.saved = 1 /\ e.backupRevision = 1
         /\ e.onDisk = (disk # {}) /\ e.text = t /\ e.snapshot = {t}
         /\ e.timer /\ e.session
         /\ e.observing /\ e.events = IF d.observing THEN d.events ELSE {}
<1> DEFINE m == [d EXCEPT !.loaded = TRUE, !.revision = 1, !.saved = 1,
                          !.backupRevision = 1, !.onDisk = disk # {}, !.snapshot = {t}]
<1>1. m \in Documents
  BY DEF Documents, Optional
<1>2. /\ OnlyChanges({"loaded", "revision", "saved", "backupRevision", "onDisk",
                      "snapshot"}, d, m)
      /\ m.loaded /\ m.revision = 1 /\ m.saved = 1 /\ m.backupRevision = 1
      /\ m.onDisk = (disk # {}) /\ m.snapshot = {t}
  BY DEF Documents, OnlyChanges, Fields, Closed
<1>3. Loaded(d, t) = SetObserving(BufferReplaced(m, t), TRUE)
  BY DEF Loaded
<1> HIDE DEF m
<1> DEFINE b == BufferReplaced(m, t)
<1>4. /\ b \in Documents /\ OnlyChanges({"text", "timer", "session"}, m, b)
      /\ b.text = t /\ b.timer /\ b.session
  BY <1>1, BufferReplacedDoc
<1> HIDE DEF b
<1>5. LET e == SetObserving(b, TRUE) IN
      /\ e \in Documents /\ OnlyChanges({"observing", "events"}, b, e)
      /\ e.observing = TRUE
      /\ e.events = IF b.observing = TRUE THEN b.events ELSE {}
  BY <1>4, SetObservingDoc
<1>6. d.observing \in BOOLEAN
  BY DEF Documents
<1>7. Loaded(d, t) = SetObserving(b, TRUE)
  BY <1>3 DEF b
<1> DEFINE e == SetObserving(b, TRUE)
<1>8. /\ e.openCount = b.openCount /\ e.backup = b.backup /\ e.needsImport = b.needsImport
      /\ e.loaded = b.loaded /\ e.revision = b.revision /\ e.saved = b.saved
      /\ e.backupRevision = b.backupRevision /\ e.onDisk = b.onDisk
      /\ e.text = b.text /\ e.snapshot = b.snapshot
      /\ e.timer = b.timer /\ e.session = b.session
  BY <1>5 DEF OnlyChanges, Fields, Closed
<1>9. /\ b.openCount = m.openCount /\ b.backup = m.backup /\ b.needsImport = m.needsImport
      /\ b.loaded = m.loaded /\ b.revision = m.revision /\ b.saved = m.saved
      /\ b.backupRevision = m.backupRevision /\ b.onDisk = m.onDisk
      /\ b.snapshot = m.snapshot /\ b.observing = m.observing /\ b.events = m.events
  BY <1>4 DEF OnlyChanges, Fields, Closed
<1>10. /\ m.openCount = d.openCount /\ m.backup = d.backup /\ m.needsImport = d.needsImport
       /\ m.observing = d.observing /\ m.events = d.events
  BY <1>2 DEF OnlyChanges, Fields, Closed
<1>11. /\ e \in Documents /\ e.observing /\ e.events = IF d.observing THEN d.events ELSE {}
  BY <1>5, <1>6, <1>9, <1>10
<1> HIDE DEF e
<1> QED BY <1>2, <1>4, <1>7, <1>8, <1>9, <1>10, <1>11 DEF e

(* A document that could be brought back from its backup. *)
LEMMA LoadBackupDoc ==
  ASSUME NEW d \in Documents, CanLoadBackup(d)
  PROVE  LET e == LoadBackup(d)
             t == The(d.backup).text IN
         /\ e \in Documents /\ t \in Text
         /\ e.openCount = d.openCount /\ e.backup = d.backup
         /\ e.needsImport = d.needsImport
         /\ e.loaded /\ e.revision = 1 /\ e.backupRevision = 1
         /\ e.onDisk = (disk # {}) /\ e.text = t
         /\ e.timer /\ e.session
         /\ e.observing /\ e.events = IF d.observing THEN d.events ELSE {}
         /\ e.saved = (IF Edited(d) THEN 0 ELSE 1)
         /\ e.snapshot = IF Edited(d) THEN {} ELSE {t}
<1> DEFINE t == The(d.backup).text
           now == Loaded(d, t)
<1>1. The(d.backup) \in Backups /\ t \in Text
  BY OptionalParts DEF CanLoadBackup, Documents, Backups
<1>2. LoadBackup(d) = IF Edited(d) THEN [now EXCEPT !.snapshot = {}, !.saved = now.revision - 1]
                      ELSE now
  BY DEF LoadBackup
<1> HIDE DEF t
<1>3. /\ now \in Documents
      /\ now.openCount = d.openCount /\ now.backup = d.backup
      /\ now.needsImport = d.needsImport
      /\ now.loaded /\ now.revision = 1 /\ now.saved = 1 /\ now.backupRevision = 1
      /\ now.onDisk = (disk # {}) /\ now.text = t /\ now.snapshot = {t}
      /\ now.timer /\ now.session
      /\ now.observing /\ now.events = IF d.observing THEN d.events ELSE {}
  BY <1>1, LoadedDoc
<1> HIDE DEF now
<1> SUFFICES LET e == LoadBackup(d) IN
         /\ e \in Documents /\ t \in Text
         /\ e.openCount = d.openCount /\ e.backup = d.backup
         /\ e.needsImport = d.needsImport
         /\ e.loaded /\ e.revision = 1 /\ e.backupRevision = 1
         /\ e.onDisk = (disk # {}) /\ e.text = t
         /\ e.timer /\ e.session
         /\ e.observing /\ e.events = IF d.observing THEN d.events ELSE {}
         /\ e.saved = (IF Edited(d) THEN 0 ELSE 1)
         /\ e.snapshot = IF Edited(d) THEN {} ELSE {t}
  BY DEF t
<1>4. CASE ~Edited(d)
  BY <1>1, <1>2, <1>3, <1>4
<1>5. CASE Edited(d)
  <2> DEFINE e == [now EXCEPT !.snapshot = {}, !.saved = 0]
  <2>1. now.revision - 1 = 0
    BY <1>3
  <2>2. e \in Documents
    BY <1>3 DEF Documents, Optional
  <2>3. OnlyChanges({"snapshot", "saved"}, now, e) /\ e.snapshot = {} /\ e.saved = 0
    BY <1>3 DEF Documents, OnlyChanges, Fields, Closed
  <2>4. LoadBackup(d) = e
    BY <1>2, <1>5, <2>1
  <2> HIDE DEF e
  <2> QED BY <1>1, <1>3, <1>5, <2>2, <2>3, <2>4 DEF OnlyChanges, Fields, Closed
<1> QED BY <1>4, <1>5

(* One hold is given up.  The buffer goes with the last. *)
LEMMA CloseDoc ==
  ASSUME NEW d \in Documents, d.openCount > 0
  PROVE  LET e == Close(d) IN
         /\ e \in Documents
         /\ e.openCount = d.openCount - 1 /\ e.needsImport = d.needsImport
         /\ e.onDisk = d.onDisk
         /\ d.openCount > 1 => OnlyChanges({"openCount"}, d, e)
         /\ d.openCount = 1 =>
              /\ ~e.loaded /\ e.backup = {} /\ ~e.timer
              /\ ~e.observing /\ e.events = (IF d.observing THEN {} ELSE d.events)
<1> DEFINE less == [d EXCEPT !.openCount = @ - 1]
<1>0. d.openCount \in Nat /\ d.openCount - 1 \in Nat
  BY DEF Documents
<1>1. less \in Documents /\ OnlyChanges({"openCount"}, d, less) /\ less.openCount = d.openCount - 1
  BY <1>0 DEF Documents, OnlyChanges, Fields, Closed
<1>2. Close(d) = IF less.openCount # 0 THEN less
                 ELSE DeleteBuffer(RemoveBackup(Notified(
                        [SetObserving(less, FALSE) EXCEPT !.revision = d.saved])))
  BY DEF Close
<1> HIDE DEF less
<1>3. CASE d.openCount > 1
  BY <1>0, <1>1, <1>2, <1>3 DEF OnlyChanges, Fields, Closed
<1>4. CASE d.openCount = 1
  <2> DEFINE a == SetObserving(less, FALSE)
             b == [a EXCEPT !.revision = d.saved]
             c == RemoveBackup(Notified(b))
  <2>1. /\ a \in Documents /\ OnlyChanges({"observing", "events"}, less, a)
        /\ a.observing = FALSE
        /\ a.events = IF less.observing = FALSE THEN less.events ELSE {}
    BY <1>1, SetObservingDoc
  <2> HIDE DEF a
  <2>2. b \in Documents /\ OnlyChanges({"revision"}, a, b)
    BY <2>1 DEF Documents, OnlyChanges, Fields, Closed
  <2> HIDE DEF b
  <2>3. Notified(b) \in Documents /\ OnlyChanges({"session"}, b, Notified(b))
    BY <2>2, NotifiedDoc
  <2>4. /\ c \in Documents /\ OnlyChanges({"timer", "backup"}, Notified(b), c)
        /\ ~c.timer /\ c.backup = {}
    BY <2>3, RemoveBackupDoc
  <2> HIDE DEF c
  <2> DEFINE e == DeleteBuffer(c)
  <2>5. e \in Documents /\ OnlyChanges({"loaded", "text", "snapshot"}, c, e) /\ ~e.loaded
    BY <2>4 DEF DeleteBuffer, Documents, OnlyChanges, Fields, Closed, Optional, Text
  <2> HIDE DEF e
  <2>6. Close(d) = e
    BY <1>1, <1>2, <1>4 DEF a, b, c, e
  <2>7. d.observing \in BOOLEAN
    BY DEF Documents
  <2> QED BY <1>0, <1>1, <1>4, <2>1, <2>2, <2>3, <2>4, <2>5, <2>6, <2>7 DEF OnlyChanges, Fields, Closed
<1> QED BY <1>0, <1>3, <1>4

(* The backup is written, removed or left as it is. *)
LEMMA SaveBackupDoc ==
  ASSUME NEW d \in Documents, d.loaded => d.revision \in Nat
  PROVE  LET e == SaveBackup(d) IN
         /\ e \in Documents
         /\ OnlyChanges({"timer", "backup", "backupRevision"}, d, e)
         /\ e.timer => d.timer
         /\ \/ /\ BackupWorthKeeping(d) /\ e.backupRevision = d.revision
               /\ e.backup = {[text |-> d.text, modified |-> Edited(d)]}
            \/ e.backup = {} /\ ~BackupWorthKeeping(d) /\ e.backupRevision = d.backupRevision
            \/ /\ e.backup = d.backup /\ e.backupRevision = d.backupRevision
               /\ BackupWorthKeeping(d) => d.backup # {} /\ d.backupRevision = d.revision
<1> DEFINE new == [text |-> d.text, modified |-> Edited(d)]
<1>1. CASE BackupWorthKeeping(d) /\ (d.backup = {} \/ d.backupRevision # d.revision)
  <2> DEFINE e == [d EXCEPT !.backup = {new}, !.backupRevision = d.revision]
  <2>1. SaveBackup(d) = e
    BY <1>1 DEF SaveBackup
  <2>2. new \in Backups
    BY DEF Backups, Documents, Edited
  <2>3. d.revision \in Nat
    BY <1>1 DEF BackupWorthKeeping
  <2> HIDE DEF new
  <2>4. e \in Documents
    BY <2>2, <2>3 DEF Documents, Optional
  <2>5. /\ OnlyChanges({"backup", "backupRevision"}, d, e)
        /\ e.backup = {new} /\ e.backupRevision = d.revision
    BY DEF Documents, OnlyChanges, Fields, Closed
  <2> HIDE DEF e
  <2>6. LET f == SaveBackup(d) IN
         /\ f \in Documents
         /\ OnlyChanges({"timer", "backup", "backupRevision"}, d, f)
         /\ f.timer => d.timer
         /\ BackupWorthKeeping(d) /\ f.backupRevision = d.revision
         /\ f.backup = {new}
    BY <1>1, <2>1, <2>4, <2>5 DEF OnlyChanges, Fields, Closed
  <2> QED BY <2>6 DEF new
<1>2. CASE ~BackupWorthKeeping(d) /\ d.backup # {}
  <2>1. SaveBackup(d) = RemoveBackup(d)
    BY <1>2 DEF SaveBackup
  <2> QED BY <1>2, <2>1, RemoveBackupDoc DEF OnlyChanges, Fields, Closed
<1>3. CASE /\ ~(BackupWorthKeeping(d) /\ (d.backup = {} \/ d.backupRevision # d.revision))
           /\ ~(~BackupWorthKeeping(d) /\ d.backup # {})
  <2>1. SaveBackup(d) = d
    BY <1>3 DEF SaveBackup
  <2> QED BY <1>3, <2>1 DEF OnlyChanges
<1> QED BY <1>1, <1>2, <1>3

(* _savedRevision is set once the new text is in the buffer. *)
LEMMA ReloadEndsDoc ==
  ASSUME NEW d \in Documents, NEW kind \in {"replaced", "theirs", "merged"}
  PROVE  LET e == ReloadEnds(d, kind) IN
         /\ e \in Documents /\ OnlyChanges({"saved", "snapshot", "session"}, d, e)
         /\ e.session
         /\ e.saved = IF kind = "merged" THEN -1 ELSE d.revision
         /\ e.snapshot = IF kind = "replaced" THEN {d.text} ELSE d.snapshot
<1>1. CASE kind = "replaced"
  BY <1>1, MarkSavedDoc DEF ReloadEnds
<1>2. ASSUME kind # "replaced", NEW r \in Nat \cup {-1},
             ReloadEnds(d, kind) = Notified([d EXCEPT !.saved = r])
      PROVE  LET e == ReloadEnds(d, kind) IN
             /\ e \in Documents /\ OnlyChanges({"saved", "snapshot", "session"}, d, e)
             /\ e.session /\ e.saved = r /\ e.snapshot = d.snapshot
  <2> DEFINE m == [d EXCEPT !.saved = r]
  <2>1. m \in Documents /\ OnlyChanges({"saved"}, d, m) /\ m.saved = r
    BY DEF Documents, OnlyChanges, Fields, Closed
  <2> HIDE DEF m
  <2>2. ReloadEnds(d, kind) = Notified(m)
    BY <1>2 DEF m
  <2> QED BY <2>1, <2>2, NotifiedDoc DEF OnlyChanges, Fields, Closed
<1>3. CASE kind = "theirs"
  <2>1. ReloadEnds(d, kind) = Notified([d EXCEPT !.saved = d.revision])
    BY <1>3 DEF ReloadEnds
  <2>2. d.revision \in Nat \cup {-1}
    BY DEF Documents
  <2> QED BY <1>2, <1>3, <2>1, <2>2
<1>4. CASE kind = "merged"
  <2>1. ReloadEnds(d, kind) = Notified([d EXCEPT !.saved = -1])
    BY <1>4 DEF ReloadEnds
  <2> QED BY <1>2, <1>4, <2>1
<1> QED BY <1>1, <1>3, <1>4
-----------------------------------------------------------------------------
(* The waits of importDocumentChanges. *)

ImportRecords ==
  [stage : {"reading", "read", "replaced", "theirs", "merged", "shown", "stuck", "unread"},
   text : Text, inQueue : BOOLEAN, resumes : Nat]

Reloads == {"replaced", "theirs", "merged"}

(* A wait resumes one that is further out and whose reload has not ended,    *)
(* and no two resume the same.                                               *)
StackOK(s) ==
  /\ s \in Seq(ImportRecords)
  /\ \A i \in 1..Len(s) : s[i].resumes # 0 =>
       s[i].resumes < i /\ s[s[i].resumes].stage \in Reloads
  /\ \A i, j \in 1..Len(s) : i # j /\ s[i].resumes # 0 => s[i].resumes # s[j].resumes

(* A reply is one of a wait that has been read and has not been shown, and   *)
(* no wait has two.                                                          *)
RepliesOK(s, q) ==
  /\ q \in Seq(1..Len(s))
  /\ \A k \in 1..Len(q) : s[q[k]].stage = "read"
  /\ \A k, l \in 1..Len(q) : k # l => q[k] # q[l]

ImportsOK == StackOK(imports) /\ RepliesOK(imports, replies)

LEMMA StackFacts ==
  ASSUME NEW s, StackOK(s)
  PROVE  /\ s \in Seq(ImportRecords) /\ Len(s) \in Nat
         /\ \A i \in 1..Len(s) : s[i] \in ImportRecords /\ s[i].resumes \in 0..Len(s)
<1>1. s \in Seq(ImportRecords)
  BY DEF StackOK
<1>2. Len(s) \in Nat /\ \A i \in 1..Len(s) : s[i] \in ImportRecords
  BY <1>1
<1>3. \A i \in 1..Len(s) : s[i].resumes \in Nat
  BY <1>2 DEF ImportRecords
<1> QED BY <1>1, <1>2, <1>3 DEF StackOK

LEMMA ReplyFacts ==
  ASSUME NEW s, NEW q, RepliesOK(s, q)
  PROVE  Len(q) \in Nat /\ \A k \in 1..Len(q) : q[k] \in 1..Len(s)
<1>1. q \in Seq(1..Len(s))
  BY DEF RepliesOK
<1> DEFINE S == 1..Len(s)
<1>2. q \in Seq(S)
  BY <1>1
<1> HIDE DEF S
<1>3. Len(q) \in Nat /\ \A k \in 1..Len(q) : q[k] \in S
  BY <1>2
<1> QED BY <1>3 DEF S

(* A wait begins: it resumes no other, or one whose reload has not ended.    *)
LEMMA Pushed ==
  ASSUME NEW s, StackOK(s), NEW w \in ImportRecords,
         w.resumes # 0 => /\ w.resumes \in 1..Len(s) /\ s[w.resumes].stage \in Reloads
                          /\ \A i \in 1..Len(s) : s[i].resumes # w.resumes
  PROVE  /\ StackOK(Append(s, w))
         /\ \A q : RepliesOK(s, q) => RepliesOK(Append(s, w), q)
<1> DEFINE t == Append(s, w)
<1>1. /\ s \in Seq(ImportRecords) /\ Len(s) \in Nat
      /\ \A i \in 1..Len(s) : s[i] \in ImportRecords /\ s[i].resumes \in 0..Len(s)
  BY StackFacts
<1>2. /\ t \in Seq(ImportRecords) /\ Len(t) = Len(s) + 1
      /\ \A i \in 1..Len(s) : t[i] = s[i]
      /\ t[Len(s) + 1] = w
  BY <1>1, AppendProperties
<1> HIDE DEF t
<1>3. \A i \in 1..Len(t) : i \in 1..Len(s) \/ i = Len(s) + 1
  BY <1>1, <1>2
<1>4. StackOK(t)
  <2>1. \A i \in 1..Len(t) : t[i].resumes # 0 =>
          t[i].resumes < i /\ t[t[i].resumes].stage \in Reloads
    <3> SUFFICES ASSUME NEW i \in 1..Len(t), t[i].resumes # 0
                 PROVE  t[i].resumes < i /\ t[t[i].resumes].stage \in Reloads
      OBVIOUS
    <3>1. CASE i \in 1..Len(s)
      <4>1. s[i].resumes < i /\ s[s[i].resumes].stage \in Reloads /\ s[i].resumes \in 1..Len(s)
        BY <1>1, <1>2, <3>1 DEF StackOK
      <4> QED BY <1>2, <3>1, <4>1
    <3>2. CASE i = Len(s) + 1
      BY <1>1, <1>2, <3>2
    <3> QED BY <1>3, <3>1, <3>2
  <2>2. \A i, j \in 1..Len(t) : i # j /\ t[i].resumes # 0 => t[i].resumes # t[j].resumes
    BY <1>1, <1>2, <1>3 DEF StackOK
  <2> QED BY <1>2, <2>1, <2>2 DEF StackOK
<1>5. ASSUME NEW q, RepliesOK(s, q) PROVE RepliesOK(t, q)
  <2>1. Len(q) \in Nat /\ \A k \in 1..Len(q) : q[k] \in 1..Len(s)
    BY <1>5, ReplyFacts
  <2>2. q \in Seq(1..Len(t))
    <3>1. 1..Len(s) \subseteq 1..Len(t)
      BY <1>1, <1>2
    <3>2. q \in Seq(1..Len(s))
      BY <1>5 DEF RepliesOK
    <3> QED BY <3>1, <3>2, SeqMonotonic
  <2> QED BY <1>2, <1>5, <2>1, <2>2 DEF RepliesOK
<1> QED BY <1>4, <1>5 DEF t

(* A wait gets another stage and resumes what it resumed.                    *)
LEMMA Marked ==
  ASSUME NEW s, StackOK(s), NEW i \in 1..Len(s), NEW w \in ImportRecords,
         w.resumes = s[i].resumes,
         w.stage \in Reloads \/ \A j \in 1..Len(s) : s[j].resumes # i
  PROVE  LET t == [s EXCEPT ![i] = w] IN
         /\ StackOK(t) /\ Len(t) = Len(s)
         /\ t[i] = w /\ \A j \in 1..Len(s) : j # i => t[j] = s[j]
<1> DEFINE t == [s EXCEPT ![i] = w]
<1>1. /\ s \in Seq(ImportRecords) /\ Len(s) \in Nat
      /\ \A j \in 1..Len(s) : s[j] \in ImportRecords /\ s[j].resumes \in 0..Len(s)
  BY StackFacts
<1>2. /\ t \in Seq(ImportRecords) /\ Len(t) = Len(s)
      /\ \A j \in 1..Len(s) : t[j] = IF j = i THEN w ELSE s[j]
  BY <1>1, ExceptSeq
<1> HIDE DEF t
<1>3. StackOK(t)
  <2>1. \A j \in 1..Len(t) : t[j].resumes # 0 => t[j].resumes = s[j].resumes
    BY <1>2
  <2>2. \A j \in 1..Len(t) : t[j].resumes # 0 =>
          t[j].resumes < j /\ t[t[j].resumes].stage \in Reloads
    <3> SUFFICES ASSUME NEW j \in 1..Len(t), t[j].resumes # 0
                 PROVE  t[j].resumes < j /\ t[t[j].resumes].stage \in Reloads
      OBVIOUS
    <3>1. /\ t[j].resumes = s[j].resumes /\ s[j].resumes < j
          /\ s[s[j].resumes].stage \in Reloads /\ s[j].resumes \in 1..Len(s)
      BY <1>1, <1>2, <2>1 DEF StackOK
    <3>2. s[j].resumes = i => w.stage \in Reloads
      BY <1>2, <3>1
    <3> QED BY <1>2, <3>1, <3>2
  <2>3. \A j, l \in 1..Len(t) : j # l /\ t[j].resumes # 0 => t[j].resumes # t[l].resumes
    BY <1>2, <2>1 DEF StackOK
  <2> QED BY <1>2, <2>2, <2>3 DEF StackOK
<1> QED BY <1>2, <1>3 DEF t

LEMMA MarkedReplies ==
  ASSUME NEW s \in Seq(ImportRecords), NEW i \in 1..Len(s), NEW w \in ImportRecords,
         NEW q, RepliesOK(s, q), \A k \in 1..Len(q) : q[k] # i
  PROVE  RepliesOK([s EXCEPT ![i] = w], q)
<1> DEFINE t == [s EXCEPT ![i] = w]
<1>1. /\ t \in Seq(ImportRecords) /\ Len(t) = Len(s)
      /\ \A j \in 1..Len(s) : t[j] = IF j = i THEN w ELSE s[j]
  BY ExceptSeq
<1> HIDE DEF t
<1>2. Len(q) \in Nat /\ \A k \in 1..Len(q) : q[k] \in 1..Len(s)
  BY ReplyFacts
<1>3. RepliesOK(t, q)
  BY <1>1, <1>2 DEF RepliesOK
<1> QED BY <1>3 DEF t

(* The innermost wait ends.                                                  *)
LEMMA Popped ==
  ASSUME NEW s, StackOK(s), s # <<>>, s[Len(s)].stage # "read"
  PROVE  LET t == SubSeq(s, 1, Len(s) - 1) IN
         /\ StackOK(t) /\ Len(t) = Len(s) - 1
         /\ \A i \in 1..(Len(s) - 1) : t[i] = s[i]
         /\ \A q : RepliesOK(s, q) => RepliesOK(t, q)
<1> DEFINE t == SubSeq(s, 1, Len(s) - 1)
<1>1. /\ s \in Seq(ImportRecords) /\ Len(s) \in Nat
      /\ \A j \in 1..Len(s) : s[j] \in ImportRecords /\ s[j].resumes \in 0..Len(s)
  BY StackFacts
<1>0. Len(s) \in Nat \ {0}
  BY <1>1, EmptySeq
<1>2. /\ t \in Seq(ImportRecords) /\ Len(t) = Len(s) - 1
      /\ \A i \in 1..(Len(s) - 1) : t[i] = s[i]
  <2> DEFINE n == Len(s) - 1
  <2>1. n \in Nat /\ n \in Int /\ 1 \in Int /\ \A i \in 1..n : s[i] \in ImportRecords
    BY <1>0, <1>1
  <2>2. /\ SubSeq(s, 1, n) \in Seq(ImportRecords)
        /\ Len(SubSeq(s, 1, n)) = IF 1 <= n THEN n - 1 + 1 ELSE 0
        /\ \A i \in 1..n - 1 + 1 : SubSeq(s, 1, n)[i] = s[1 + i - 1]
    <3> HIDE DEF n
    <3> QED BY <2>1, SubSeqProperties
  <2>3. Len(SubSeq(s, 1, n)) = n /\ \A i \in 1..n : SubSeq(s, 1, n)[i] = s[i]
    <3> HIDE DEF n
    <3>1. 1..n - 1 + 1 = 1..n /\ \A i \in 1..n : 1 + i - 1 = i
      BY <2>1
    <3> QED BY <2>1, <2>2, <3>1
  <2> QED BY <2>2, <2>3
<1> HIDE DEF t
<1>3. StackOK(t)
  <2>1. \A i \in 1..Len(t) : t[i].resumes # 0 =>
          t[i].resumes < i /\ t[t[i].resumes].stage \in Reloads
    <3> SUFFICES ASSUME NEW i \in 1..Len(t), t[i].resumes # 0
                 PROVE  t[i].resumes < i /\ t[t[i].resumes].stage \in Reloads
      OBVIOUS
    <3>1. i \in 1..Len(s) /\ t[i] = s[i] /\ s[i].resumes \in 1..Len(s)
      BY <1>0, <1>1, <1>2
    <3>2. s[i].resumes < i /\ s[s[i].resumes].stage \in Reloads
      BY <3>1 DEF StackOK
    <3>3. s[i].resumes \in 1..(Len(s) - 1)
      BY <1>0, <1>2, <3>1, <3>2
    <3> QED BY <1>2, <3>1, <3>2, <3>3
  <2>2. \A i, j \in 1..Len(t) : i # j /\ t[i].resumes # 0 => t[i].resumes # t[j].resumes
    <3>1. \A i \in 1..Len(t) : i \in 1..Len(s) /\ t[i] = s[i]
      BY <1>0, <1>2
    <3> QED BY <3>1 DEF StackOK
  <2> QED BY <1>2, <2>1, <2>2 DEF StackOK
<1>4. ASSUME NEW q, RepliesOK(s, q) PROVE RepliesOK(t, q)
  <2>1. Len(q) \in Nat /\ \A k \in 1..Len(q) : q[k] \in 1..Len(s) /\ s[q[k]].stage = "read"
    BY <1>4, ReplyFacts DEF RepliesOK
  <2>2. \A k \in 1..Len(q) : q[k] \in 1..Len(t) /\ t[q[k]] = s[q[k]]
    <3> SUFFICES ASSUME NEW k \in 1..Len(q)
                 PROVE  q[k] \in 1..Len(t) /\ t[q[k]] = s[q[k]]
      OBVIOUS
    <3>1. q[k] \in 1..Len(s) /\ q[k] # Len(s)
      BY <2>1
    <3>2. q[k] \in 1..(Len(s) - 1)
      BY <1>0, <3>1
    <3> QED BY <1>2, <3>2
  <2>3. q \in Seq(1..Len(t))
    <3> DEFINE S == 1..Len(s)
               T == 1..Len(t)
    <3>1. q \in Seq(S)
      BY <1>4 DEF RepliesOK
    <3>2. \A k \in 1..Len(q) : q[k] \in T
      BY <2>2
    <3> HIDE DEF S, T
    <3>3. q \in Seq(T)
      BY <3>1, <3>2, <2>1
    <3> QED BY <3>3 DEF T
  <2> QED BY <1>4, <2>1, <2>2, <2>3 DEF RepliesOK
<1> QED BY <1>2, <1>3, <1>4 DEF t

LEMMA MarkedType ==
  ASSUME NEW w \in ImportRecords, NEW stage \in {"read", "shown", "stuck", "unread"} \cup Reloads
  PROVE  /\ [w EXCEPT !.stage = stage] \in ImportRecords
         /\ [w EXCEPT !.stage = stage].stage = stage
         /\ [w EXCEPT !.stage = stage].resumes = w.resumes
BY DEF ImportRecords, Reloads

LEMMA ReadType ==
  ASSUME NEW w \in ImportRecords, NEW t \in Text
  PROVE  LET e == [w EXCEPT !.stage = "read", !.text = t] IN
         e \in ImportRecords /\ e.stage = "read" /\ e.resumes = w.resumes
BY DEF ImportRecords

LEMMA WaitBegins ==
  ASSUME ImportsOK, NEW inQueue \in BOOLEAN,
         imports' = Waits(imports, inQueue, 0), replies' = replies
  PROVE  ImportsOK'
<1> DEFINE w == [stage |-> "reading", text |-> {}, inQueue |-> inQueue, resumes |-> 0]
<1>1. w \in ImportRecords /\ w.resumes = 0
  BY DEF ImportRecords, Text
<1>2. imports' = Append(imports, w)
  BY DEF Waits
<1> HIDE DEF w
<1>3. StackOK(Append(imports, w)) /\ RepliesOK(Append(imports, w), replies)
  BY <1>1, Pushed DEF ImportsOK
<1> QED BY <1>2, <1>3 DEF ImportsOK

(* The file has been read: the reply is queued, or there is none.            *)
LEMMA ReadImports ==
  ASSUME ImportsOK, NEW i \in 1..Len(imports), ImportRead(i), disk \in Optional(Text)
  PROVE  ImportsOK'
<1>1. /\ StackOK(imports) /\ RepliesOK(imports, replies)
      /\ imports \in Seq(ImportRecords) /\ imports[i] \in ImportRecords
      /\ imports[i].stage = "reading"
  BY StackFacts DEF ImportsOK, ImportRead
<1>2. /\ \A j \in 1..Len(imports) : imports[j].resumes # i
      /\ \A k \in 1..Len(replies) : replies[k] # i
      /\ Len(replies) \in Nat /\ \A k \in 1..Len(replies) : replies[k] \in 1..Len(imports)
  <2>1. \A j \in 1..Len(imports) : imports[j].resumes # i
    <3>1. "reading" \notin Reloads /\ i # 0
      BY DEF Reloads
    <3> QED BY <1>1, <3>1 DEF StackOK
  <2> QED BY <1>1, <2>1, ReplyFacts DEF RepliesOK
<1>3. CASE imports' = [imports EXCEPT ![i].stage = "unread"] /\ replies' = replies
  <2> DEFINE w == [imports[i] EXCEPT !.stage = "unread"]
  <2>1. w \in ImportRecords /\ w.resumes = imports[i].resumes
    BY <1>1, MarkedType
  <2>2. imports' = [imports EXCEPT ![i] = w]
    BY <1>3
  <2> HIDE DEF w
  <2>3. /\ StackOK([imports EXCEPT ![i] = w])
        /\ RepliesOK([imports EXCEPT ![i] = w], replies)
    BY <1>1, <1>2, <2>1, Marked, MarkedReplies
  <2> QED BY <1>1, <1>2, <1>3, <2>2, <2>3 DEF ImportsOK
<1>4. CASE /\ imports' = [imports EXCEPT ![i].stage = "read", ![i].text = Content(disk)]
           /\ replies' = Append(replies, i)
  <2> DEFINE w == [imports[i] EXCEPT !.stage = "read", !.text = Content(disk)]
  <2>1. w \in ImportRecords /\ w.resumes = imports[i].resumes /\ w.stage = "read"
    <3>1. Content(disk) \in Text
      BY ContentType
    <3> QED BY <1>1, <3>1, ReadType
  <2>2. imports' = [imports EXCEPT ![i] = w]
    BY <1>4
  <2> HIDE DEF w
  <2>3. /\ StackOK(imports') /\ RepliesOK(imports', replies)
        /\ Len(imports') = Len(imports) /\ imports'[i] = w
    <3>1. LET t == [imports EXCEPT ![i] = w] IN
          StackOK(t) /\ Len(t) = Len(imports) /\ t[i] = w
      BY <1>1, <1>2, <2>1, Marked
    <3>2. RepliesOK([imports EXCEPT ![i] = w], replies)
      BY <1>1, <1>2, <2>1, MarkedReplies
    <3> QED BY <2>2, <3>1, <3>2
  <2> DEFINE S == 1..Len(imports)
             q == Append(replies, i)
  <2>4. replies \in Seq(S) /\ i \in S
    BY <1>1 DEF RepliesOK
  <2> HIDE DEF S
  <2>5. /\ q \in Seq(S) /\ Len(q) = Len(replies) + 1
        /\ \A k \in 1..Len(replies) : q[k] = replies[k]
        /\ q[Len(replies) + 1] = i
    BY <2>4, AppendProperties
  <2> HIDE DEF q
  <2>6. \A k \in 1..Len(q) : k \in 1..Len(replies) \/ k = Len(replies) + 1
    BY <1>2, <2>5
  <2>7. \A k \in 1..Len(q) : imports'[q[k]].stage = "read"
    BY <2>1, <2>3, <2>5, <2>6 DEF RepliesOK
  <2>8. \A k, l \in 1..Len(q) : k # l => q[k] # q[l]
    BY <1>2, <2>3, <2>5, <2>6 DEF RepliesOK
  <2>9. RepliesOK(imports', q)
    BY <2>3, <2>5, <2>7, <2>8 DEF RepliesOK, S
  <2> QED BY <1>4, <2>3, <2>9 DEF ImportsOK, q
<1> QED BY <1>3, <1>4 DEF ImportRead

LEMMA FirstReply ==
  ASSUME NEW s, NEW q, RepliesOK(s, q), q # <<>>
  PROVE  /\ Head(q) \in 1..Len(s) /\ s[Head(q)].stage = "read"
         /\ RepliesOK(s, Tail(q)) /\ \A k \in 1..Len(Tail(q)) : Tail(q)[k] # Head(q)
<1> DEFINE S == 1..Len(s)
<1>1. q \in Seq(S) /\ Len(q) \in Nat
  BY ReplyFacts DEF RepliesOK
<1>2. Len(q) \in Nat \ {0} /\ Head(q) = q[1] /\ 1 \in 1..Len(q)
  <2>1. Len(q) # 0
    <3> HIDE DEF S
    <3> QED BY <1>1, EmptySeq
  <2> QED BY <1>1, <2>1
<1>3. /\ Head(q) \in S /\ Tail(q) \in Seq(S) /\ Len(Tail(q)) = Len(q) - 1
      /\ \A k \in 1..Len(Tail(q)) : Tail(q)[k] = q[k + 1]
  <2> HIDE DEF S
  <2> QED BY <1>1, HeadTailProperties
<1>4. \A k \in 1..Len(Tail(q)) : k + 1 \in 1..Len(q) /\ k + 1 # 1
  BY <1>2, <1>3
<1>5. \A k \in 1..Len(Tail(q)) : s[Tail(q)[k]].stage = "read" /\ Tail(q)[k] # Head(q)
  BY <1>2, <1>3, <1>4 DEF RepliesOK
<1>6. \A k, l \in 1..Len(Tail(q)) : k # l => Tail(q)[k] # Tail(q)[l]
  <2> SUFFICES ASSUME NEW k \in 1..Len(Tail(q)), NEW l \in 1..Len(Tail(q)), k # l
               PROVE  Tail(q)[k] # Tail(q)[l]
    OBVIOUS
  <2>1. k + 1 # l + 1 /\ k + 1 \in 1..Len(q) /\ l + 1 \in 1..Len(q)
    BY <1>3, <1>4
  <2>2. q[k + 1] # q[l + 1]
    BY <2>1 DEF RepliesOK
  <2> QED BY <1>3, <2>2
<1> QED BY <1>2, <1>3, <1>5, <1>6 DEF RepliesOK, S

(* A reply is taken: nobody resumes its wait, and nobody has a second reply. *)
LEMMA ShownImports ==
  ASSUME ImportsOK, ImportShow
  PROVE  ImportsOK' /\ Head(replies) \in 1..Len(imports) /\ imports[Head(replies)].text \in Text
<1> DEFINE i == Head(replies)
<1>1. /\ StackOK(imports) /\ RepliesOK(imports, replies)
      /\ replies # <<>> /\ replies' = Tail(replies)
  BY DEF ImportsOK, ImportShow
<1>2. /\ i \in 1..Len(imports) /\ imports[i].stage = "read"
      /\ RepliesOK(imports, Tail(replies)) /\ \A k \in 1..Len(Tail(replies)) : Tail(replies)[k] # i
  BY <1>1, FirstReply
<1>3. \/ \E stage \in {"stuck", "shown"} : imports' = [imports EXCEPT ![i].stage = stage]
      \/ \E kind \in Reloads :
           imports' = Waits([imports EXCEPT ![i].stage = kind], FALSE, i)
  <2>1. ASSUME NEW d, NEW kind \in Reloads, Reload(i, d, kind)
        PROVE  \/ imports' = [imports EXCEPT ![i].stage = "shown"]
               \/ imports' = Waits([imports EXCEPT ![i].stage = kind], FALSE, i)
    BY <2>1 DEF Reload
  <2> DEFINE kind == IF Merge(The(doc.snapshot), doc.text, imports[i].text) = imports[i].text
                     THEN "theirs" ELSE "merged"
             d == BumpRevision(BufferReplaced([doc EXCEPT !.snapshot = {imports[i].text}],
                    Merge(The(doc.snapshot), doc.text, imports[i].text)))
             r == BumpRevision(BufferReplaced(doc, imports[i].text))
  <2>2. \/ \E stage \in {"stuck", "shown"} : imports' = [imports EXCEPT ![i].stage = stage]
        \/ Reload(i, d, kind)
        \/ Reload(i, r, "replaced")
    BY DEF ImportShow
  <2>3. kind \in Reloads /\ "replaced" \in Reloads
    BY DEF Reloads
  <2> HIDE DEF i, d, kind, r
  <2> QED BY <2>1, <2>2, <2>3
<1> HIDE DEF i
<1>4. /\ imports \in Seq(ImportRecords) /\ imports[i] \in ImportRecords
      /\ imports[i].text \in Text /\ i \in Nat \ {0}
      /\ imports[i].resumes \in 0..Len(imports) /\ Len(imports) \in Nat
  <2>1. /\ imports \in Seq(ImportRecords) /\ Len(imports) \in Nat
        /\ imports[i] \in ImportRecords /\ imports[i].resumes \in 0..Len(imports)
    BY <1>1, <1>2, StackFacts
  <2>2. imports[i].text \in Text
    BY <2>1 DEF ImportRecords
  <2> QED BY <1>2, <2>1, <2>2
<1>5. \A j \in 1..Len(imports) : imports[j].resumes # i
  <2>1. "read" \notin Reloads /\ i # 0
    BY <1>4 DEF Reloads
  <2> QED BY <1>1, <1>2, <2>1 DEF StackOK
<1>6. ASSUME NEW stage \in {"stuck", "shown"} \cup Reloads
      PROVE  LET t == [imports EXCEPT ![i].stage = stage] IN
             /\ StackOK(t) /\ Len(t) = Len(imports) /\ RepliesOK(t, Tail(replies))
             /\ t[i].stage = stage /\ \A j \in 1..Len(t) : t[j].resumes # i
  <2> DEFINE w == [imports[i] EXCEPT !.stage = stage]
  <2>1. w \in ImportRecords /\ w.stage = stage /\ w.resumes = imports[i].resumes
    BY <1>4, MarkedType
  <2>2. [imports EXCEPT ![i].stage = stage] = [imports EXCEPT ![i] = w]
    OBVIOUS
  <2> HIDE DEF w
  <2> DEFINE t == [imports EXCEPT ![i] = w]
  <2>3. /\ StackOK(t) /\ Len(t) = Len(imports) /\ t[i] = w
        /\ \A j \in 1..Len(imports) : j # i => t[j] = imports[j]
    BY <1>1, <1>2, <1>5, <2>1, Marked
  <2>4. RepliesOK(t, Tail(replies))
    BY <1>2, <1>4, <2>1, MarkedReplies
  <2> HIDE DEF t
  <2>5. \A j \in 1..Len(t) : t[j].resumes # i
    BY <1>2, <1>5, <2>1, <2>3
  <2> QED BY <2>1, <2>2, <2>3, <2>4, <2>5 DEF t
<1>7. ASSUME NEW kind \in Reloads, imports' = Waits([imports EXCEPT ![i].stage = kind], FALSE, i)
      PROVE  ImportsOK'
  <2> DEFINE t == [imports EXCEPT ![i].stage = kind]
             w == [stage |-> "reading", text |-> {}, inQueue |-> FALSE, resumes |-> i]
  <2>1. /\ StackOK(t) /\ Len(t) = Len(imports) /\ RepliesOK(t, Tail(replies))
        /\ t[i].stage = kind /\ \A j \in 1..Len(t) : t[j].resumes # i
    BY <1>6
  <2>2. w \in ImportRecords /\ w.resumes = i
    BY <1>4 DEF ImportRecords, Text
  <2>3. imports' = Append(t, w)
    BY <1>7 DEF Waits
  <2> HIDE DEF t, w
  <2>4. StackOK(Append(t, w)) /\ RepliesOK(Append(t, w), Tail(replies))
    BY <1>2, <2>1, <2>2, Pushed
  <2> QED BY <1>1, <2>3, <2>4 DEF ImportsOK
<1>8. ASSUME NEW stage \in {"stuck", "shown"}, imports' = [imports EXCEPT ![i].stage = stage]
      PROVE  ImportsOK'
  BY <1>1, <1>6, <1>8 DEF ImportsOK
<1>9. ImportsOK'
  BY <1>3, <1>7, <1>8
<1> QED BY <1>2, <1>4, <1>9 DEF i

(* A wait ends, and with it the reload that it held up.                      *)
LEMMA ReturnImports ==
  ASSUME ImportsOK, ImportReturn
  PROVE  /\ ImportsOK'
         /\ \/ doc' = doc
            \/ \E kind \in Reloads : doc' = ReloadEnds(doc, kind)
<1> DEFINE n == Len(imports)
           r == imports[n].resumes
           rest == SubSeq(imports, 1, n - 1)
<1>1. /\ StackOK(imports) /\ RepliesOK(imports, replies)
      /\ imports # <<>> /\ imports[n].stage = "shown" /\ replies' = replies
  BY DEF ImportsOK, ImportReturn
<1>2. /\ StackOK(rest) /\ Len(rest) = n - 1 /\ RepliesOK(rest, replies)
      /\ \A i \in 1..(n - 1) : rest[i] = imports[i]
  BY <1>1, Popped
<1>3. n \in Nat \ {0} /\ imports \in Seq(ImportRecords) /\ r \in 0..n
  <2>1. /\ imports \in Seq(ImportRecords) /\ Len(imports) \in Nat
        /\ \A i \in 1..Len(imports) : imports[i].resumes \in 0..Len(imports)
    BY <1>1, StackFacts
  <2>2. Len(imports) \in Nat \ {0}
    BY <1>1, <2>1, EmptySeq
  <2> QED BY <2>1, <2>2
<1>4. \/ r = 0 /\ imports' = rest /\ doc' = doc
      \/ /\ r # 0 /\ imports' = [rest EXCEPT ![r].stage = "shown"]
         /\ doc' = ReloadEnds(doc, imports[r].stage)
  BY DEF ImportReturn
<1> HIDE DEF rest
<1>5. CASE r = 0
  BY <1>1, <1>2, <1>4, <1>5 DEF ImportsOK
<1>6. CASE r # 0
  <2>1. r \in 1..(n - 1) /\ imports[r].stage \in Reloads
    BY <1>1, <1>3, <1>6 DEF StackOK
  <2>2. \A j \in 1..(n - 1) : rest[j].resumes # r
    BY <1>1, <1>2, <1>3, <1>6 DEF StackOK
  <2>3. \A k \in 1..Len(replies) : replies[k] # r
    BY <1>2, <2>1 DEF RepliesOK, Reloads
  <2> DEFINE w == [rest[r] EXCEPT !.stage = "shown"]
  <2>4. /\ rest \in Seq(ImportRecords) /\ rest[r] \in ImportRecords
    BY <1>2, <2>1, StackFacts
  <2>5. w \in ImportRecords /\ w.resumes = rest[r].resumes
    BY <2>4, MarkedType
  <2>6. [rest EXCEPT ![r].stage = "shown"] = [rest EXCEPT ![r] = w]
    OBVIOUS
  <2> HIDE DEF w
  <2>7. StackOK([rest EXCEPT ![r] = w])
    BY <1>2, <2>1, <2>2, <2>5, Marked
  <2>8. RepliesOK([rest EXCEPT ![r] = w], replies)
    BY <1>2, <2>1, <2>3, <2>4, <2>5, MarkedReplies
  <2> QED BY <1>1, <1>4, <1>6, <2>1, <2>6, <2>7, <2>8 DEF ImportsOK
<1> QED BY <1>5, <1>6

LEMMA ImportsStep ==
  ASSUME ImportsOK, disk \in Optional(Text), [Next]_vars
  PROVE  ImportsOK'
<1>1. CASE UNCHANGED waits
  BY <1>1 DEF waits, ImportsOK
<1>2. ASSUME NEW d, NEW b, EndGroup(d, b), replies' = replies PROVE ImportsOK'
  <2>1. imports' = imports \/ imports' = Waits(imports, FALSE, 0)
    BY <1>2 DEF EndGroup
  <2> QED BY <1>2, <2>1, WaitBegins DEF ImportsOK
<1>3. CASE Edit \/ EndMacro
  BY <1>2, <1>3 DEF Edit, EndMacro
<1>4. CASE FileWritten \/ Activate
  <2>1. /\ replies' = replies
        /\ imports' = imports \/ \E b \in BOOLEAN : imports' = Waits(imports, b, 0)
    BY <1>4 DEF FileWritten, Activate
  <2> QED BY <2>1, WaitBegins DEF ImportsOK
<1>5. CASE Crash
  <2>1. imports' = <<>> /\ replies' = <<>>
    BY <1>5 DEF Crash
  <2> QED BY <2>1, EmptySeq DEF ImportsOK, StackOK, RepliesOK
<1>6. CASE \/ OpenTab \/ SelectTab \/ SelectOtherTab \/ CloseTab
           \/ LoadRead \/ LoadDone \/ LoadFailed \/ BeginMacro
           \/ BackupTimerFires \/ SessionTimerFires
           \/ (\E i \in SaveIds : StartSave(i) \/ WriteSave(i) \/ DidSave(i))
           \/ ExternalWrite \/ ExternalDelete \/ FileDeleted \/ Deactivate \/ UNCHANGED vars
  BY <1>1, <1>6 DEF OpenTab, SelectTab, SelectOtherTab, CloseTab, LoadRead, LoadDone,
     LoadFailed, BeginMacro, BackupTimerFires, SessionTimerFires, StartSave, WriteSave,
     DidSave, ExternalWrite, ExternalDelete, FileDeleted, Deactivate, vars, waits
<1> QED BY <1>3, <1>4, <1>5, <1>6, ReadImports, ShownImports, ReturnImports DEF Next

-----------------------------------------------------------------------------
(* What the actions that do more than one thing to the document do to it.    *)

BackupSaved(d, e) ==
  \/ /\ BackupWorthKeeping(d) /\ e.backupRevision = d.revision
     /\ e.backup = {[text |-> d.text, modified |-> Edited(d)]}
  \/ e.backup = {} /\ ~BackupWorthKeeping(d) /\ e.backupRevision = d.backupRevision
  \/ /\ e.backup = d.backup /\ e.backupRevision = d.backupRevision
     /\ BackupWorthKeeping(d) => d.backup # {} /\ d.backupRevision = d.revision

LEMMA TimersEffect ==
  ASSUME doc \in Documents, doc.loaded => doc.revision \in Nat,
         BackupTimerFires \/ SessionTimerFires
  PROVE  /\ doc' \in Documents
         /\ OnlyChanges({"timer", "session", "backup", "backupRevision"}, doc, doc')
         /\ doc'.timer => doc.timer
         /\ \/ BackupSaved(doc, doc')
            \/ /\ ~(tab /\ doc.loaded /\ Edited(doc))
               /\ doc'.backup = doc.backup /\ doc'.backupRevision = doc.backupRevision
<1> DEFINE quiet == [doc EXCEPT !.timer = FALSE]
           fired == [doc EXCEPT !.session = FALSE]
<1>1. /\ quiet \in Documents /\ OnlyChanges({"timer"}, doc, quiet) /\ ~quiet.timer
      /\ fired \in Documents /\ OnlyChanges({"session"}, doc, fired) /\ ~fired.session
  BY DEF Documents, OnlyChanges, Fields, Closed
<1>2. \/ doc' = SaveBackup(quiet)
      \/ doc' = SaveBackup(fired)
      \/ doc' = fired /\ ~(tab /\ doc.loaded /\ Edited(doc))
  BY DEF BackupTimerFires, SessionTimerFires
<1> HIDE DEF quiet, fired
<1>3. ASSUME NEW d, d \in {quiet, fired}, doc' = SaveBackup(d)
      PROVE  /\ doc' \in Documents
             /\ OnlyChanges({"timer", "session", "backup", "backupRevision"}, doc, doc')
             /\ doc'.timer => doc.timer
             /\ BackupSaved(doc, doc')
  <2>1. /\ d \in Documents /\ OnlyChanges({"timer", "session"}, doc, d)
        /\ d.timer => doc.timer
        /\ d.loaded => d.revision \in Nat
    BY <1>1, <1>3 DEF OnlyChanges, Fields, Closed
  <2>2. /\ d.loaded = doc.loaded /\ d.onDisk = doc.onDisk /\ d.saved = doc.saved
        /\ d.revision = doc.revision /\ d.text = doc.text /\ d.backup = doc.backup
        /\ d.backupRevision = doc.backupRevision
    BY <2>1 DEF OnlyChanges, Fields, Closed
  <2>3. /\ BackupWorthKeeping(d) = BackupWorthKeeping(doc)
        /\ Edited(d) = Edited(doc)
    BY <2>2 DEF BackupWorthKeeping, Edited
  <2>4. /\ doc' \in Documents
        /\ OnlyChanges({"timer", "backup", "backupRevision"}, d, doc')
        /\ doc'.timer => d.timer
        /\ BackupSaved(d, doc')
    BY <1>3, <2>1, SaveBackupDoc DEF BackupSaved
  <2>5. BackupSaved(doc, doc')
    BY <2>2, <2>3, <2>4 DEF BackupSaved
  <2> QED BY <2>1, <2>4, <2>5 DEF OnlyChanges
<1>4. CASE doc' = fired /\ ~(tab /\ doc.loaded /\ Edited(doc))
  BY <1>1, <1>4 DEF OnlyChanges, Fields, Closed
<1> QED BY <1>2, <1>3, <1>4

(* A reply of a worker that read the changed file is shown.                  *)
LEMMA ShowEffect ==
  ASSUME doc \in Documents, ImportShow, NEW yours \in Text, yours = imports[Head(replies)].text
  PROVE  /\ doc' \in Documents
         /\ \/ doc' = doc /\ base' = base /\ (~doc.loaded \/ doc.snapshot = {})
            \/ /\ doc.loaded /\ base' = yours /\ yours = doc.text
               /\ OnlyChanges({"saved", "snapshot", "session"}, doc, doc')
               /\ doc'.saved = doc.revision /\ doc'.snapshot = {doc.text} /\ doc'.session
            \/ /\ doc.loaded /\ base' = yours /\ yours # doc.text
               /\ OnlyChanges({"text", "timer", "session", "revision", "needsImport",
                               "saved", "snapshot"}, doc, doc')
               /\ doc'.revision = doc.revision + 1 /\ doc'.timer /\ doc'.session
               /\ doc'.text \in (IF Edited(doc) THEN {Merge(The(doc.snapshot), doc.text, yours)}
                                ELSE {yours})
               /\ Edited(doc) => doc.snapshot # {}
               /\ \/ doc.needsImport /\ group = "closed" /\ doc'.saved = doc.saved
                  \/ /\ ~(doc.needsImport /\ group = "closed")
                     /\ doc'.needsImport = doc.needsImport
                     /\ doc'.saved = (IF doc'.text = yours THEN doc'.revision ELSE -1)
                     /\ doc'.snapshot = {yours}
<1> DEFINE i == Head(replies)
           merged == Merge(The(doc.snapshot), doc.text, yours)
           kept == [doc EXCEPT !.snapshot = {yours}]
<1>1. merged \in Text
  BY DEF Merge, Text, Documents
<1>2. kept \in Documents /\ OnlyChanges({"snapshot"}, doc, kept) /\ kept.snapshot = {yours}
  BY DEF Documents, Optional, OnlyChanges, Fields, Closed
<1>3. \/ doc' = doc /\ base' = base /\ (~doc.loaded \/ doc.snapshot = {})
      \/ doc.loaded /\ base' = yours /\ yours = doc.text /\ doc' = MarkSaved(doc)
      \/ /\ doc.loaded /\ base' = yours /\ yours # doc.text /\ ~Edited(doc)
         /\ Reload(i, BumpRevision(BufferReplaced(doc, yours)), "replaced")
      \/ /\ doc.loaded /\ base' = yours /\ yours # doc.text /\ Edited(doc) /\ doc.snapshot # {}
         /\ Reload(i, BumpRevision(BufferReplaced(kept, merged)),
                   IF merged = yours THEN "theirs" ELSE "merged")
  BY DEF ImportShow
<1> HIDE DEF i, merged, kept
<1>4. ASSUME NEW d \in Documents, NEW t \in Text
      PROVE  LET e == BumpRevision(BufferReplaced(d, t)) IN
             /\ e \in Documents /\ OnlyChanges({"text", "timer", "session", "revision"}, d, e)
             /\ e.text = t /\ e.timer /\ e.session /\ e.revision = d.revision + 1
  <2> DEFINE b == BufferReplaced(d, t)
  <2>1. /\ b \in Documents /\ OnlyChanges({"text", "timer", "session"}, d, b)
        /\ b.text = t /\ b.timer /\ b.session
    BY BufferReplacedDoc
  <2> HIDE DEF b
  <2> DEFINE e == BumpRevision(b)
  <2>2. /\ e \in Documents /\ OnlyChanges({"revision", "session"}, b, e)
        /\ e.revision = b.revision + 1 /\ e.session
    BY <2>1, BumpRevisionDoc
  <2> HIDE DEF e
  <2>3. /\ e \in Documents /\ OnlyChanges({"text", "timer", "session", "revision"}, d, e)
        /\ e.text = t /\ e.timer /\ e.session /\ e.revision = d.revision + 1
    BY <2>1, <2>2 DEF OnlyChanges, Fields, Closed
  <2> QED BY <2>3 DEF e, b
<1>5. ASSUME NEW e \in Documents, NEW kind \in {"replaced", "theirs", "merged"}, Reload(i, e, kind)
      PROVE  /\ doc' \in Documents
             /\ OnlyChanges({"needsImport", "saved", "snapshot", "session"}, e, doc')
             /\ e.session => doc'.session
             /\ \/ e.needsImport /\ group = "closed" /\ doc'.saved = e.saved
                \/ /\ ~(e.needsImport /\ group = "closed")
                   /\ doc'.needsImport = e.needsImport
                   /\ doc'.saved = (IF kind = "merged" THEN -1 ELSE e.revision)
                   /\ doc'.snapshot = IF kind = "replaced" THEN {e.text} ELSE e.snapshot
  <2>1. CASE e.needsImport /\ group = "closed"
    <3>1. doc' = Import(e)
      BY <1>5, <2>1 DEF Reload
    <3>2. /\ doc' \in Documents /\ OnlyChanges({"needsImport"}, e, doc')
      BY <3>1, ImportDoc
    <3> QED BY <2>1, <3>2 DEF OnlyChanges, Fields, Closed, Documents
  <2>2. CASE ~(e.needsImport /\ group = "closed")
    <3>1. doc' = ReloadEnds(e, kind)
      BY <1>5, <2>2 DEF Reload
    <3>2. /\ doc' \in Documents /\ OnlyChanges({"saved", "snapshot", "session"}, e, doc')
          /\ doc'.session
          /\ doc'.saved = (IF kind = "merged" THEN -1 ELSE e.revision)
          /\ doc'.snapshot = IF kind = "replaced" THEN {e.text} ELSE e.snapshot
      BY <3>1, ReloadEndsDoc
    <3> QED BY <2>2, <3>2 DEF OnlyChanges, Fields, Closed
  <2> QED BY <2>1, <2>2
<1>6. CASE doc.loaded /\ base' = yours /\ yours = doc.text /\ doc' = MarkSaved(doc)
  BY <1>6, MarkSavedDoc
<1>7. ASSUME doc.loaded /\ base' = yours /\ yours # doc.text /\ ~Edited(doc),
             Reload(i, BumpRevision(BufferReplaced(doc, yours)), "replaced")
      PROVE  /\ doc' \in Documents
             /\ OnlyChanges({"text", "timer", "session", "revision", "needsImport",
                             "saved", "snapshot"}, doc, doc')
             /\ doc'.revision = doc.revision + 1 /\ doc'.timer /\ doc'.session
             /\ doc'.text = yours
             /\ \/ doc.needsImport /\ group = "closed" /\ doc'.saved = doc.saved
                \/ /\ ~(doc.needsImport /\ group = "closed")
                   /\ doc'.needsImport = doc.needsImport
                   /\ doc'.saved = doc'.revision /\ doc'.snapshot = {yours}
  <2> DEFINE e == BumpRevision(BufferReplaced(doc, yours))
  <2>1. /\ e \in Documents /\ OnlyChanges({"text", "timer", "session", "revision"}, doc, e)
        /\ e.text = yours /\ e.timer /\ e.session /\ e.revision = doc.revision + 1
    BY <1>4
  <2>2. Reload(i, e, "replaced")
    BY <1>7
  <2> HIDE DEF e
  <2>3. /\ doc' \in Documents
        /\ OnlyChanges({"needsImport", "saved", "snapshot", "session"}, e, doc')
        /\ e.session => doc'.session
        /\ \/ e.needsImport /\ group = "closed" /\ doc'.saved = e.saved
           \/ /\ ~(e.needsImport /\ group = "closed")
              /\ doc'.needsImport = e.needsImport
              /\ doc'.saved = e.revision /\ doc'.snapshot = {e.text}
    BY <1>5, <2>1, <2>2
  <2> QED BY <2>1, <2>3 DEF OnlyChanges, Fields, Closed
<1>8. ASSUME /\ doc.loaded /\ base' = yours /\ yours # doc.text /\ Edited(doc) /\ doc.snapshot # {},
             Reload(i, BumpRevision(BufferReplaced(kept, merged)),
                    IF merged = yours THEN "theirs" ELSE "merged")
      PROVE  /\ doc' \in Documents
             /\ OnlyChanges({"text", "timer", "session", "revision", "needsImport",
                             "saved", "snapshot"}, doc, doc')
             /\ doc'.revision = doc.revision + 1 /\ doc'.timer /\ doc'.session
             /\ doc'.text = merged
             /\ \/ doc.needsImport /\ group = "closed" /\ doc'.saved = doc.saved
                \/ /\ ~(doc.needsImport /\ group = "closed")
                   /\ doc'.needsImport = doc.needsImport
                   /\ doc'.saved = (IF merged = yours THEN doc'.revision ELSE -1)
                   /\ doc'.snapshot = {yours}
  <2> DEFINE e == BumpRevision(BufferReplaced(kept, merged))
             kind == IF merged = yours THEN "theirs" ELSE "merged"
  <2>1. /\ e \in Documents /\ OnlyChanges({"text", "timer", "session", "revision"}, kept, e)
        /\ e.text = merged /\ e.timer /\ e.session /\ e.revision = kept.revision + 1
    BY <1>1, <1>2, <1>4
  <2>2. Reload(i, e, kind) /\ kind \in {"replaced", "theirs", "merged"} /\ kind # "replaced"
        /\ (kind = "merged" <=> merged # yours)
    BY <1>8
  <2> HIDE DEF e, kind
  <2>3. /\ doc' \in Documents
        /\ OnlyChanges({"needsImport", "saved", "snapshot", "session"}, e, doc')
        /\ e.session => doc'.session
        /\ \/ e.needsImport /\ group = "closed" /\ doc'.saved = e.saved
           \/ /\ ~(e.needsImport /\ group = "closed")
              /\ doc'.needsImport = e.needsImport
              /\ doc'.saved = (IF merged # yours THEN -1 ELSE e.revision)
              /\ doc'.snapshot = e.snapshot
    BY <1>5, <2>1, <2>2
  <2> QED BY <1>2, <2>1, <2>3 DEF OnlyChanges, Fields, Closed
<1>9. CASE doc' = doc /\ base' = base /\ (~doc.loaded \/ doc.snapshot = {})
  BY <1>9
<1>10. CASE /\ doc.loaded /\ base' = yours /\ yours # doc.text /\ ~Edited(doc)
            /\ Reload(i, BumpRevision(BufferReplaced(doc, yours)), "replaced")
  BY <1>7, <1>10
<1>11. CASE /\ doc.loaded /\ base' = yours /\ yours # doc.text /\ Edited(doc) /\ doc.snapshot # {}
            /\ Reload(i, BumpRevision(BufferReplaced(kept, merged)),
                      IF merged = yours THEN "theirs" ELSE "merged")
  BY <1>8, <1>11 DEF merged
<1> QED BY <1>3, <1>6, <1>9, <1>10, <1>11

(* A save starts, first bringing back what the backup has.                   *)
LEMMA StartSaveEffect ==
  ASSUME doc \in Documents, NEW i \in SaveIds, StartSave(i)
  PROVE  /\ tab /\ UserCanAct /\ saves[i].stage = "none"
         /\ doc' \in Documents /\ doc'.text \in Text
         /\ saves' = [saves EXCEPT ![i] = [stage |-> "writing", text |-> doc'.text]]
         /\ doc'.openCount = doc.openCount + 1 /\ doc'.loaded /\ ~doc'.observing
         /\ doc'.needsImport = doc.needsImport
         /\ \/ /\ doc.loaded
               /\ OnlyChanges({"openCount", "observing", "events"}, doc, doc')
            \/ /\ ~doc.loaded /\ doc.backup # {} /\ Edited(doc)
               /\ doc'.text = The(doc.backup).text
               /\ doc'.backup = doc.backup /\ doc'.revision = 1 /\ doc'.backupRevision = 1
               /\ doc'.onDisk = (disk # {}) /\ doc'.timer /\ doc'.session
               /\ doc'.saved = 0 /\ doc'.snapshot = {}
         /\ doc'.events = IF doc'.loaded /\ ~doc.observing /\ doc.loaded THEN doc.events ELSE {}
<1> DEFINE ready == IF Edited(doc) /\ CanLoadBackup(doc) THEN LoadBackup(doc) ELSE doc
           still == SetObserving(ready, FALSE)
<1>1. /\ tab /\ UserCanAct /\ saves[i].stage = "none" /\ ready.loaded
      /\ doc' = [still EXCEPT !.openCount = @ + 1]
      /\ saves' = [saves EXCEPT ![i] = [stage |-> "writing", text |-> ready.text]]
  BY DEF StartSave
<1>2. ready \in Documents
  BY LoadBackupDoc
<1>3. \/ ready = doc /\ doc.loaded
      \/ /\ ~doc.loaded /\ doc.backup # {} /\ Edited(doc)
         /\ ready.openCount = doc.openCount /\ ready.backup = doc.backup
         /\ ready.needsImport = doc.needsImport /\ ready.text = The(doc.backup).text
         /\ ready.revision = 1 /\ ready.backupRevision = 1 /\ ready.onDisk = (disk # {})
         /\ ready.timer /\ ready.session /\ ready.observing
         /\ ready.saved = 0 /\ ready.snapshot = {}
  BY <1>1, LoadBackupDoc DEF CanLoadBackup
<1> HIDE DEF ready
<1>4. /\ still \in Documents /\ OnlyChanges({"observing", "events"}, ready, still)
      /\ ~still.observing
      /\ still.events = IF ready.observing = FALSE THEN ready.events ELSE {}
  BY <1>2, SetObservingDoc
<1> HIDE DEF still
<1>5. /\ doc' \in Documents /\ OnlyChanges({"openCount"}, still, doc')
      /\ doc'.openCount = still.openCount + 1
  BY <1>1, <1>4, OpenedDoc
<1>6. /\ OnlyChanges({"openCount", "observing", "events"}, ready, doc') /\ ~doc'.observing
      /\ doc'.openCount = ready.openCount + 1 /\ doc'.loaded /\ doc'.text = ready.text
      /\ doc'.events = IF ready.observing = FALSE THEN ready.events ELSE {}
  BY <1>1, <1>4, <1>5 DEF OnlyChanges, Fields, Closed
<1>7. doc'.text \in Text
  BY <1>5 DEF Documents
<1>8. CASE ready = doc /\ doc.loaded
  <2>1. /\ OnlyChanges({"openCount", "observing", "events"}, doc, doc')
        /\ doc'.needsImport = doc.needsImport /\ doc'.openCount = doc.openCount + 1
        /\ doc'.events = IF ~doc.observing THEN doc.events ELSE {}
    BY <1>6, <1>8 DEF OnlyChanges, Fields, Closed, Documents
  <2> QED BY <1>1, <1>5, <1>6, <1>7, <1>8, <2>1
<1>9. CASE ready # doc \/ ~doc.loaded
  <2>1. /\ doc'.backup = ready.backup /\ doc'.needsImport = ready.needsImport
        /\ doc'.revision = ready.revision /\ doc'.backupRevision = ready.backupRevision
        /\ doc'.onDisk = ready.onDisk /\ doc'.timer = ready.timer
        /\ doc'.session = ready.session /\ doc'.saved = ready.saved
        /\ doc'.snapshot = ready.snapshot
    BY <1>6 DEF OnlyChanges, Fields, Closed
  <2>2. doc'.events = {} /\ doc'.openCount = doc.openCount + 1
    BY <1>3, <1>6, <1>9
  <2>3. /\ ~doc.loaded /\ doc.backup # {} /\ Edited(doc)
        /\ ready.openCount = doc.openCount /\ ready.backup = doc.backup
        /\ ready.needsImport = doc.needsImport /\ ready.text = The(doc.backup).text
        /\ ready.revision = 1 /\ ready.backupRevision = 1 /\ ready.onDisk = (disk # {})
        /\ ready.timer /\ ready.session
        /\ ready.saved = 0 /\ ready.snapshot = {}
    BY <1>3, <1>9
  <2> QED BY <1>1, <1>5, <1>6, <1>7, <2>1, <2>2, <2>3
<1> QED BY <1>3, <1>8, <1>9

(* A save has ended: m is the document before the hold of the save is given  *)
(* up.                                                                       *)
LEMMA DidSaveEffect ==
  ASSUME doc \in Documents, doc.loaded, NEW i \in SaveIds, DidSave(i)
  PROVE  \E m \in Documents :
         /\ doc' = Close(m)
         /\ m.observing /\ m.events = IF doc.observing THEN doc.events ELSE {}
         /\ IF saves[i].stage = "written"
            THEN /\ OnlyChanges({"onDisk", "saved", "snapshot", "session", "timer", "backup",
                                 "observing", "events"}, doc, m)
                 /\ m.onDisk /\ m.saved = doc.revision /\ m.snapshot = {doc.text}
                 /\ m.session /\ ~m.timer /\ m.backup = {}
            ELSE OnlyChanges({"observing", "events"}, doc, m)
<1> DEFINE there == [doc EXCEPT !.onDisk = TRUE]
           marked == MarkSaved(there)
           d == IF saves[i].stage = "written" THEN RemoveBackup(marked) ELSE doc
           m == SetObserving(d, TRUE)
<1>1. there \in Documents /\ OnlyChanges({"onDisk"}, doc, there) /\ there.onDisk
  BY DEF Documents, OnlyChanges, Fields, Closed
<1>2. doc' = Close(SetObserving(d, d.loaded))
  BY DEF DidSave
<1> HIDE DEF there
<1>3. /\ marked \in Documents /\ OnlyChanges({"saved", "snapshot", "session"}, there, marked)
      /\ marked.saved = there.revision /\ marked.snapshot = {there.text} /\ marked.session
  BY <1>1, MarkSavedDoc
<1> HIDE DEF marked
<1>4. /\ d \in Documents /\ d.loaded = doc.loaded
      /\ d.observing = doc.observing /\ d.events = doc.events
      /\ IF saves[i].stage = "written"
         THEN /\ OnlyChanges({"onDisk", "saved", "snapshot", "session", "timer", "backup"},
                             doc, d)
              /\ d.onDisk /\ d.saved = doc.revision /\ d.snapshot = {doc.text}
              /\ d.session /\ ~d.timer /\ d.backup = {}
         ELSE d = doc
  <2>1. CASE saves[i].stage = "written"
    <3>1. /\ d \in Documents /\ OnlyChanges({"timer", "backup"}, marked, d)
          /\ ~d.timer /\ d.backup = {}
      BY <1>3, <2>1, RemoveBackupDoc
    <3> HIDE DEF d
    <3> QED BY <1>1, <1>3, <2>1, <3>1 DEF OnlyChanges, Fields, Closed
  <2>2. CASE saves[i].stage # "written"
    BY <2>2
  <2> QED BY <2>1, <2>2
<1> HIDE DEF d
<1>5. /\ m \in Documents /\ OnlyChanges({"observing", "events"}, d, m) /\ m.observing
      /\ m.events = IF d.observing = TRUE THEN d.events ELSE {}
  BY <1>4, SetObservingDoc
<1>6. d.loaded = TRUE
  BY <1>4 DEF Documents
<1>7. doc' = Close(m)
  BY <1>2, <1>6
<1> HIDE DEF m
<1>8. m.events = IF doc.observing THEN doc.events ELSE {}
  BY <1>4, <1>5 DEF Documents
<1>9. IF saves[i].stage = "written"
      THEN /\ OnlyChanges({"onDisk", "saved", "snapshot", "session", "timer", "backup",
                           "observing", "events"}, doc, m)
           /\ m.onDisk /\ m.saved = doc.revision /\ m.snapshot = {doc.text}
           /\ m.session /\ ~m.timer /\ m.backup = {}
      ELSE OnlyChanges({"observing", "events"}, doc, m)
  BY <1>4, <1>5 DEF OnlyChanges, Fields, Closed
<1> QED BY <1>5, <1>7, <1>8, <1>9

(* A tab is selected: the document is there, is on its way, comes from its   *)
(* backup or has to be read.                                                 *)
LEMMA SelectTabEffect ==
  ASSUME doc \in Documents, SelectTab
  PROVE  /\ ~view /\ tab /\ doc' \in Documents /\ doc'.openCount = doc.openCount + 1
         /\ \/ /\ OnlyChanges({"openCount"}, doc, doc')
               /\ \/ doc.loaded /\ view' = TRUE /\ load' = load
                  \/ /\ ~doc.loaded /\ load.handlers # 0 /\ view' = view
                     /\ load' = [load EXCEPT !.handlers = @ + 1]
                  \/ /\ ~doc.loaded /\ load.handlers = 0 /\ doc.backup = {} /\ view' = view
                     /\ load' = [handlers |-> 1, stage |-> "reading", text |-> {}]
            \/ /\ load.handlers = 0 /\ ~doc.loaded /\ doc.backup # {}
               /\ view' = TRUE /\ load' = load
               /\ doc'.backup = doc.backup /\ doc'.needsImport = doc.needsImport
               /\ doc'.loaded /\ doc'.revision = 1 /\ doc'.backupRevision = 1
               /\ doc'.onDisk = (disk # {}) /\ doc'.text = The(doc.backup).text
               /\ doc'.timer /\ doc'.session
               /\ doc'.observing /\ doc'.events = (IF doc.observing THEN doc.events ELSE {})
               /\ doc'.saved = (IF Edited(doc) THEN 0 ELSE 1)
               /\ doc'.snapshot = IF Edited(doc) THEN {} ELSE {doc'.text}
<1> DEFINE e == [doc EXCEPT !.openCount = @ + 1]
<1>1. /\ e \in Documents /\ OnlyChanges({"openCount"}, doc, e)
      /\ e.openCount = doc.openCount + 1
  BY OpenedDoc
<1>2. /\ ~view /\ tab
      /\ \/ doc' = e /\ doc.loaded /\ view' = TRUE /\ load' = load
         \/ /\ doc' = e /\ ~doc.loaded /\ load.handlers # 0 /\ view' = view
            /\ load' = [load EXCEPT !.handlers = @ + 1]
         \/ /\ doc' = e /\ ~doc.loaded /\ load.handlers = 0 /\ doc.backup = {} /\ view' = view
            /\ load' = [handlers |-> 1, stage |-> "reading", text |-> {}]
         \/ /\ doc' = LoadBackup(e) /\ load.handlers = 0 /\ CanLoadBackup(doc)
            /\ view' = TRUE /\ load' = load
  BY DEF SelectTab, NoLoad, CanLoadBackup
<1> HIDE DEF e
<1>3. CASE /\ doc' = e
           /\ \/ doc.loaded /\ view' = TRUE /\ load' = load
              \/ /\ ~doc.loaded /\ load.handlers # 0 /\ view' = view
                 /\ load' = [load EXCEPT !.handlers = @ + 1]
              \/ /\ ~doc.loaded /\ load.handlers = 0 /\ doc.backup = {} /\ view' = view
                 /\ load' = [handlers |-> 1, stage |-> "reading", text |-> {}]
  <2>1. doc' \in Documents /\ doc'.openCount = doc.openCount + 1 /\ OnlyChanges({"openCount"}, doc, doc')
    BY <1>1, <1>3
  <2> QED BY <1>2, <1>3, <2>1
<1>4. CASE /\ doc' = LoadBackup(e) /\ load.handlers = 0 /\ CanLoadBackup(doc)
           /\ view' = TRUE /\ load' = load
  <2>1. /\ e.loaded = doc.loaded /\ e.backup = doc.backup /\ e.needsImport = doc.needsImport
        /\ e.observing = doc.observing /\ e.events = doc.events
        /\ e.revision = doc.revision /\ e.saved = doc.saved
        /\ e.onDisk = doc.onDisk /\ e.text = doc.text
    BY <1>1 DEF OnlyChanges, Fields, Closed
  <2>2. CanLoadBackup(e) /\ Edited(e) = Edited(doc)
    BY <1>4, <2>1 DEF CanLoadBackup, Edited
  <2>3. LET t == The(e.backup).text IN
         /\ doc' \in Documents /\ t \in Text
         /\ doc'.openCount = e.openCount /\ doc'.backup = e.backup
         /\ doc'.needsImport = e.needsImport
         /\ doc'.loaded /\ doc'.revision = 1 /\ doc'.backupRevision = 1
         /\ doc'.onDisk = (disk # {}) /\ doc'.text = t
         /\ doc'.timer /\ doc'.session
         /\ doc'.observing /\ doc'.events = (IF e.observing THEN e.events ELSE {})
         /\ doc'.saved = (IF Edited(e) THEN 0 ELSE 1)
         /\ doc'.snapshot = IF Edited(e) THEN {} ELSE {t}
    BY <1>1, <1>4, <2>2, LoadBackupDoc
  <2> QED BY <1>1, <1>2, <1>4, <2>1, <2>2, <2>3 DEF CanLoadBackup
<1> QED BY <1>2, <1>3, <1>4

(* The file has been read and the text view shows it.                        *)
LEMMA LoadDoneEffect ==
  ASSUME doc \in Documents, load.text \in Text, load.handlers \in Nat,
         doc.openCount >= load.handlers, LoadDone
  PROVE  /\ doc' \in Documents
         /\ doc'.openCount = doc.openCount + Min1(~view) - load.handlers
         /\ doc'.backup = doc.backup /\ doc'.needsImport = doc.needsImport
         /\ doc'.loaded /\ doc'.revision = 1 /\ doc'.saved = 1 /\ doc'.backupRevision = 1
         /\ doc'.onDisk = (disk # {}) /\ doc'.text = load.text /\ doc'.snapshot = {load.text}
         /\ doc'.timer /\ doc'.session
         /\ doc'.observing /\ doc'.events = IF doc.observing THEN doc.events ELSE {}
<1> DEFINE e == Loaded(doc, load.text)
           n == doc.openCount + Min1(~view) - load.handlers
<1>1. /\ e \in Documents
      /\ e.openCount = doc.openCount /\ e.backup = doc.backup
      /\ e.needsImport = doc.needsImport
      /\ e.loaded /\ e.revision = 1 /\ e.saved = 1 /\ e.backupRevision = 1
      /\ e.onDisk = (disk # {}) /\ e.text = load.text /\ e.snapshot = {load.text}
      /\ e.timer /\ e.session
      /\ e.observing /\ e.events = IF doc.observing THEN doc.events ELSE {}
  BY LoadedDoc
<1>2. n \in Nat
  <2>1. doc.openCount \in Nat
    BY DEF Documents
  <2>2. Min1(~view) \in 0..1
    BY DEF Min1
  <2> QED BY <2>1, <2>2
<1> HIDE DEF e
<1>3. doc' = [e EXCEPT !.openCount = n]
  BY <1>1 DEF LoadDone, Documents, e
<1> HIDE DEF n
<1>4. doc' \in Documents /\ OnlyChanges({"openCount"}, e, doc') /\ doc'.openCount = n
  BY <1>1, <1>2, <1>3 DEF Documents, OnlyChanges, Fields, Closed
<1> QED BY <1>1, <1>4 DEF OnlyChanges, Fields, Closed, n

-----------------------------------------------------------------------------
(* Who holds the document. *)

UnderWay == {i \in SaveIds : saves[i].stage # "none"}

Holders == Min1(tab) + Min1(view) + load.handlers + Cardinality(UnderWay)

(* What the buffer, the backup and the timer say of each other and of the    *)
(* holds.                                                                    *)
DocOK(d) ==
  /\ d \in Documents
  /\ d.loaded => d.revision \in Nat /\ d.saved <= d.revision /\ d.backupRevision <= d.revision
  /\ d.loaded \/ d.backup # {} \/ d.timer => d.openCount > 0

Loads == [handlers : Nat, stage : {"none", "reading", "read", "failed"}, text : Text]
Saves == [stage : {"none", "writing", "written", "failed"}, text : Text]

OthersOK ==
  /\ tab \in BOOLEAN /\ view \in BOOLEAN
  /\ load \in Loads /\ saves \in [SaveIds -> Saves]
  /\ group \in {"closed", "open", "changed"} /\ active \in BOOLEAN /\ wake \in BOOLEAN
  /\ disk \in Optional(Text) /\ base \in Text /\ missed \in BOOLEAN
  /\ written \in Nat /\ crashes \in Nat

(* Everyone who works on the document has a hold, and while it is loaded     *)
(* nobody waits for it.                                                      *)
Held ==
  /\ doc.openCount >= Holders
  /\ view \/ Saving => doc.loaded
  /\ load.handlers # 0 <=> load.stage # "none"
  /\ load.handlers # 0 => ~doc.loaded /\ doc.backup = {}

Kept == DocOK(doc) /\ OthersOK /\ Held

LEMMA HoldersFacts ==
  ASSUME OthersOK
  PROVE  /\ IsFiniteSet(UnderWay) /\ Cardinality(UnderWay) \in Nat
         /\ load.handlers \in Nat /\ Min1(tab) \in 0..1 /\ Min1(view) \in 0..1
         /\ tab => Min1(tab) = 1
         /\ view => Min1(view) = 1
         /\ Saving <=> Cardinality(UnderWay) > 0
         /\ Holders \in Nat
<1>1. IsFiniteSet(UnderWay) /\ Cardinality(UnderWay) \in Nat
  <2>1. UnderWay \subseteq SaveIds /\ IsFiniteSet(SaveIds)
    BY DocumentAssumption DEF UnderWay
  <2> QED BY <2>1, FS_Subset, FS_CardinalityType
<1>2. load.handlers \in Nat
  BY DEF OthersOK, Loads
<1>3. /\ Min1(tab) \in 0..1 /\ Min1(view) \in 0..1
      /\ tab => Min1(tab) = 1
      /\ view => Min1(view) = 1
  BY DEF Min1
<1>4. Saving <=> UnderWay # {}
  BY DEF Saving, UnderWay
<1>5. Cardinality(UnderWay) = 0 <=> UnderWay = {}
  BY <1>1, FS_EmptySet
<1>6. Saving <=> Cardinality(UnderWay) > 0
  BY <1>1, <1>4, <1>5
<1>7. Holders \in Nat
  BY <1>1, <1>2, <1>3 DEF Holders
<1> QED BY <1>1, <1>2, <1>3, <1>6, <1>7

LEMMA MissedType == ASSUME History PROVE missed' \in BOOLEAN
BY DEF History

(* Nobody takes or gives up a hold and the buffer comes and goes with none.  *)
LEMMA HoldsLeftAlone ==
  ASSUME Kept, DocOK(doc'), doc'.openCount = doc.openCount, doc'.loaded = doc.loaded,
         doc'.backup = {} \/ doc'.backup = doc.backup \/ doc.loaded,
         UNCHANGED <<ui, load>>, UnderWay' = UnderWay, OthersOK'
  PROVE  Kept'
<1>1. Holders' = Holders
  BY DEF Holders, ui
<1>2. Saving' <=> Saving
  BY DEF Saving, UnderWay
<1> QED BY <1>1, <1>2 DEF Kept, Held, ui

(* What an undo group that ends does to the document.                        *)
LEMMA EndGroupDoc ==
  ASSUME NEW d \in Documents, NEW changed \in BOOLEAN, EndGroup(d, changed)
  PROVE  /\ doc' \in Documents /\ OnlyChanges({"revision", "session", "needsImport"}, d, doc')
         /\ ~doc'.needsImport
         /\ doc'.revision = IF changed THEN d.revision + 1 ELSE d.revision
         /\ doc'.session = (changed \/ d.session)
<1> DEFINE now == IF changed THEN BumpRevision(d) ELSE d
<1>1. /\ now \in Documents /\ OnlyChanges({"revision", "session"}, d, now)
      /\ now.revision = IF changed THEN d.revision + 1 ELSE d.revision
      /\ now.session = (changed \/ d.session)
  <2>1. CASE changed
    BY <2>1, BumpRevisionDoc
  <2>2. CASE ~changed
    BY <2>2 DEF OnlyChanges, Documents
  <2> QED BY <2>1, <2>2
<1>2. doc' = Import(now)
  BY DEF EndGroup
<1> HIDE DEF now
<1> QED BY <1>1, <1>2, ImportDoc DEF OnlyChanges, Fields, Closed

LEMMA KeystrokeDoc ==
  ASSUME NEW d \in Documents, NEW t \in Toggled(d.text, MyLines)
  PROVE  t \in Text
BY DEF Toggled, Text, Documents

(* The user types, and a macro ends.                                         *)
LEMMA EditKept ==
  ASSUME Kept, Edit \/ BeginMacro \/ EndMacro
  PROVE  Kept'
<1>1. /\ DocOK(doc) /\ OthersOK /\ doc \in Documents
  BY DEF Kept, DocOK
<1>2. /\ UNCHANGED <<ui, load, saves, outside, crashes, active, wake>> /\ History
      /\ group' \in {"closed", "open", "changed"}
  BY <1>1 DEF Edit, BeginMacro, EndMacro, app, OthersOK
<1>3. OthersOK' /\ UnderWay' = UnderWay
  BY <1>1, <1>2, MissedType DEF OthersOK, ui, outside, UnderWay
<1>4. ASSUME NEW e, e \in Documents, e.loaded = doc.loaded, e.saved = doc.saved, e.openCount = doc.openCount,
             e.backupRevision = doc.backupRevision, e.backup = doc.backup,
             e.revision \in {doc.revision, doc.revision + 1},
             e.timer => doc.timer \/ doc.loaded
      PROVE  DocOK(e)
  BY <1>1, <1>4 DEF DocOK, Documents
<1>5. /\ DocOK(doc') /\ doc'.openCount = doc.openCount
      /\ doc'.loaded = doc.loaded /\ doc'.backup = doc.backup
  <2>1. CASE Edit
    <3>1. PICK t \in Toggled(doc.text, MyLines) : EndGroup(BufferReplaced(doc, t), TRUE)
      BY <2>1 DEF Edit
    <3> DEFINE typed == BufferReplaced(doc, t)
    <3>2. typed \in Documents /\ OnlyChanges({"text", "timer", "session"}, doc, typed)
      BY <1>1, KeystrokeDoc, BufferReplacedDoc
    <3>3. EndGroup(typed, TRUE) /\ doc.loaded
      BY <2>1, <3>1 DEF Edit, CanEdit
    <3> HIDE DEF typed
    <3>4. /\ doc' \in Documents /\ OnlyChanges({"revision", "session", "needsImport"}, typed, doc')
          /\ doc'.revision = typed.revision + 1
      BY <3>2, <3>3, EndGroupDoc
    <3> QED BY <1>4, <3>2, <3>3, <3>4 DEF OnlyChanges, Fields, Closed
  <2>2. CASE BeginMacro
    <3>1. doc.loaded /\ (doc' = doc \/ \E t \in Toggled(doc.text, MyLines) : doc' = BufferReplaced(doc, t))
      BY <2>2 DEF BeginMacro, CanEdit
    <3>2. CASE doc' = doc
      BY <1>1, <3>2
    <3>3. ASSUME NEW t \in Toggled(doc.text, MyLines), doc' = BufferReplaced(doc, t)
          PROVE  /\ doc' \in Documents /\ OnlyChanges({"text", "timer", "session"}, doc, doc')
      BY <1>1, <3>3, KeystrokeDoc, BufferReplacedDoc
    <3>4. CASE doc' \in Documents /\ OnlyChanges({"text", "timer", "session"}, doc, doc')
      BY <1>4, <3>1, <3>4 DEF OnlyChanges, Fields, Closed
    <3> QED BY <3>1, <3>2, <3>3, <3>4
  <2>3. CASE EndMacro
    <3>1. EndGroup(doc, group = "changed")
      BY <2>3 DEF EndMacro
    <3> QED BY <1>1, <1>4, <3>1, EndGroupDoc DEF OnlyChanges, Fields, Closed
  <2> QED BY <2>1, <2>2, <2>3
<1> QED BY <1>2, <1>3, <1>5, HoldsLeftAlone

Minor == {"text", "session", "onDisk", "snapshot", "observing", "events", "needsImport"}

LEMMA MinorChange ==
  ASSUME NEW d, DocOK(d), NEW e \in Documents, OnlyChanges(Minor, d, e)
  PROVE  /\ DocOK(e) /\ e.openCount = d.openCount /\ e.loaded = d.loaded
         /\ e.backup = d.backup
BY DEF DocOK, OnlyChanges, Minor, Fields, Closed

(* Timers, other programs, their events, and the application in front or     *)
(* not.                                                                      *)
LEMMA EventKept ==
  ASSUME Kept, \/ BackupTimerFires \/ SessionTimerFires \/ ExternalWrite \/ ExternalDelete
               \/ FileDeleted \/ FileWritten \/ Activate \/ Deactivate
  PROVE  Kept'
<1>1. DocOK(doc) /\ OthersOK /\ doc \in Documents
  BY DEF Kept, DocOK
<1>2. /\ UNCHANGED <<ui, load, saves, group, base, crashes>> /\ History
      /\ active' \in BOOLEAN /\ wake' \in BOOLEAN
      /\ disk' \in Optional(Text) /\ written' \in Nat
  <2>1. \A t \in Toggled(Content(disk), TheirLines) : {t} \in Optional(Text)
    <3>1. Content(disk) \in Text
      BY <1>1, ContentType DEF OthersOK
    <3> QED BY <3>1 DEF Toggled, Text, Optional
  <2>2. {} \in Optional(Text)
    BY DEF Optional
  <2>3. CASE ExternalWrite \/ ExternalDelete
    <3>1. /\ UNCHANGED <<ui, load, saves, app, base, crashes>> /\ History
          /\ written' = written + 1
      BY <2>3 DEF ExternalWrite, ExternalDelete
    <3>2. disk' \in Optional(Text)
      BY <2>1, <2>2, <2>3 DEF ExternalWrite, ExternalDelete
    <3> QED BY <1>1, <3>1, <3>2 DEF app, OthersOK
  <2>4. CASE ~(ExternalWrite \/ ExternalDelete)
    <3>1. /\ UNCHANGED <<ui, load, saves, group, outside, crashes>> /\ History
          /\ active' \in BOOLEAN /\ wake' \in BOOLEAN
      BY <1>1, <2>4 DEF BackupTimerFires, SessionTimerFires, FileDeleted, FileWritten,
         Activate, Deactivate, app, OthersOK
    <3> QED BY <1>1, <3>1 DEF outside, OthersOK
  <2> QED BY <2>3, <2>4
<1>3. OthersOK' /\ UnderWay' = UnderWay /\ UNCHANGED <<ui, load>>
  BY <1>1, <1>2, MissedType DEF OthersOK, ui, UnderWay
<1>4. CASE BackupTimerFires \/ SessionTimerFires
  <2>1. /\ doc' \in Documents
        /\ OnlyChanges({"timer", "session", "backup", "backupRevision"}, doc, doc')
        /\ doc'.timer => doc.timer
        /\ \/ BackupSaved(doc, doc')
           \/ doc'.backup = doc.backup /\ doc'.backupRevision = doc.backupRevision
    BY <1>1, <1>4, TimersEffect DEF DocOK
  <2>2. /\ doc'.loaded = doc.loaded /\ doc'.openCount = doc.openCount
        /\ doc'.revision = doc.revision /\ doc'.saved = doc.saved
    BY <2>1 DEF OnlyChanges, Fields, Closed
  <2>3. DocOK(doc')
    BY <1>1, <2>1, <2>2 DEF DocOK, BackupSaved, BackupWorthKeeping
  <2>4. doc'.backup = {} \/ doc'.backup = doc.backup \/ doc.loaded
    BY <2>1 DEF BackupSaved, BackupWorthKeeping
  <2> QED BY <1>3, <2>2, <2>3, <2>4, HoldsLeftAlone
<1>5. CASE ExternalWrite \/ ExternalDelete \/ FileDeleted \/ FileWritten \/ Activate \/ Deactivate
  <2>1. doc' \in Documents /\ OnlyChanges(Minor, doc, doc')
    <3>1. CASE ExternalWrite \/ ExternalDelete
      <4>1. PICK e \in {"write", "delete"} : doc' = Noticed(doc, e)
        BY <3>1 DEF ExternalWrite, ExternalDelete
      <4>2. doc' \in Documents /\ OnlyChanges({"events"}, doc, doc')
        BY <1>1, <4>1, NoticedDoc
      <4> QED BY <4>2 DEF OnlyChanges, Minor
    <3>2. CASE FileDeleted \/ FileWritten
      <4> DEFINE seen == [Seen("write") EXCEPT !.needsImport = TRUE]
      <4>1. \A e \in {"write", "delete"} :
              Seen(e) \in Documents /\ OnlyChanges({"events", "onDisk", "session"}, doc, Seen(e))
        BY <1>1, SeenDoc
      <4>2. seen \in Documents /\ OnlyChanges({"needsImport"}, Seen("write"), seen)
        BY <4>1 DEF Documents, OnlyChanges, Fields, Closed
      <4>3. doc' = Seen("delete") \/ doc' = Seen("write") \/ doc' = seen
        BY <3>2 DEF FileDeleted, FileWritten
      <4> HIDE DEF seen
      <4> QED BY <4>1, <4>2, <4>3 DEF OnlyChanges, Minor
    <3>3. CASE Activate \/ Deactivate
      <4>1. doc' = doc \/ doc' = Import(doc)
        BY <3>3 DEF Activate, Deactivate
      <4> QED BY <1>1, <4>1, ImportDoc DEF OnlyChanges, Minor
    <3> QED BY <1>5, <3>1, <3>2, <3>3
  <2> QED BY <1>1, <1>3, <2>1, MinorChange, HoldsLeftAlone
<1> QED BY <1>4, <1>5

(* Importing what another program wrote.                                     *)
LEMMA ImportKept ==
  ASSUME Kept, ImportsOK,
         (\E i \in 1..Len(imports) : ImportRead(i)) \/ ImportShow \/ ImportReturn
  PROVE  Kept'
<1>1. DocOK(doc) /\ OthersOK /\ doc \in Documents
  BY DEF Kept, DocOK
<1>2. /\ UNCHANGED <<ui, load, saves, app, disk, written, crashes>> /\ History
      /\ UNCHANGED <<doc, base>> \/ ImportShow \/ ImportReturn
      /\ base' = base \/ ImportShow
  BY DEF ImportRead, ImportShow, ImportReturn, outside
<1>3. base' \in Text
  <2>1. CASE ImportShow
    <3>1. imports[Head(replies)].text \in Text
      BY <2>1, ShownImports
    <3> QED BY <1>1, <2>1, <3>1, ShowEffect DEF OthersOK
  <2> QED BY <1>1, <1>2, <2>1 DEF OthersOK
<1>4. OthersOK' /\ UnderWay' = UnderWay /\ UNCHANGED <<ui, load>>
  BY <1>1, <1>2, <1>3, MissedType DEF OthersOK, ui, app, UnderWay
<1>5. /\ DocOK(doc') /\ doc'.openCount = doc.openCount
      /\ doc'.loaded = doc.loaded /\ doc'.backup = doc.backup
  <2>1. ASSUME NEW e \in Documents, doc.loaded,
               OnlyChanges({"text", "timer", "session", "revision", "needsImport",
                            "saved", "snapshot"}, doc, e),
               e.revision \in {doc.revision, doc.revision + 1},
               e.saved \in {doc.saved, e.revision, -1}
        PROVE  /\ DocOK(e) /\ e.openCount = doc.openCount
               /\ e.loaded = doc.loaded /\ e.backup = doc.backup
    <3>1. /\ e.openCount = doc.openCount /\ e.loaded = doc.loaded /\ e.backup = doc.backup
          /\ e.backupRevision = doc.backupRevision
      BY <2>1 DEF OnlyChanges, Fields, Closed
    <3>2. doc.saved \in Int /\ doc.backupRevision \in Int
      BY <1>1 DEF Documents
    <3> QED BY <1>1, <2>1, <3>1, <3>2 DEF DocOK
  <2>2. CASE doc' = doc
    BY <1>1, <2>2
  <2>3. CASE ImportShow
    <3>1. imports[Head(replies)].text \in Text
      BY <2>3, ShownImports
    <3>2. \/ doc' = doc
          \/ /\ doc.loaded /\ doc' \in Documents
             /\ OnlyChanges({"text", "timer", "session", "revision", "needsImport",
                            "saved", "snapshot"}, doc, doc')
             /\ doc'.revision \in {doc.revision, doc.revision + 1}
             /\ doc'.saved \in {doc.saved, doc'.revision, -1}
      BY <1>1, <2>3, <3>1, ShowEffect DEF OnlyChanges, Fields, Closed
    <3> QED BY <2>1, <2>2, <3>2
  <2>4. CASE ImportReturn
    <3>1. doc' = doc \/ \E kind \in Reloads : doc' = ReloadEnds(doc, kind)
      BY <2>4, ReturnImports
    <3>2. ASSUME NEW kind \in Reloads, doc' = ReloadEnds(doc, kind)
          PROVE  /\ DocOK(doc') /\ doc'.openCount = doc.openCount
                 /\ doc'.loaded = doc.loaded /\ doc'.backup = doc.backup
      <4>1. /\ doc' \in Documents /\ OnlyChanges({"saved", "snapshot", "session"}, doc, doc')
            /\ doc'.saved \in {-1, doc.revision}
        BY <1>1, <3>2, ReloadEndsDoc DEF Reloads
      <4>2. /\ doc'.openCount = doc.openCount /\ doc'.loaded = doc.loaded
            /\ doc'.backup = doc.backup /\ doc'.backupRevision = doc.backupRevision
            /\ doc'.revision = doc.revision /\ doc'.timer = doc.timer
        BY <4>1 DEF OnlyChanges, Fields, Closed
      <4> QED BY <1>1, <4>1, <4>2 DEF DocOK
    <3> QED BY <2>2, <3>1, <3>2
  <2> QED BY <1>2, <2>2, <2>3, <2>4
<1> QED BY <1>1, <1>4, <1>5, HoldsLeftAlone

(* The worker of a save writes.                                              *)
LEMMA WriteSaveKept ==
  ASSUME Kept, NEW i \in SaveIds, WriteSave(i)
  PROVE  Kept'
<1>1. DocOK(doc) /\ OthersOK /\ doc \in Documents /\ saves \in [SaveIds -> Saves]
  BY DEF Kept, DocOK, OthersOK
<1>2. /\ UNCHANGED <<ui, load, app, written, crashes>> /\ History
      /\ saves[i].stage = "writing"
      /\ \E stage \in {"written", "failed"} : saves' = [saves EXCEPT ![i].stage = stage]
      /\ \/ disk' = disk /\ base' = base
         \/ disk' = {saves[i].text} /\ base' = saves[i].text
      /\ doc' = doc \/ doc' = Noticed(doc, "write")
  BY DEF WriteSave
<1>3. saves[i].text \in Text /\ \A j \in SaveIds : saves[j] \in Saves
  BY <1>1 DEF Saves
<1>4. saves' \in [SaveIds -> Saves] /\ UnderWay' = UnderWay
  <2>1. PICK stage \in {"written", "failed"} : saves' = [saves EXCEPT ![i].stage = stage]
    BY <1>2
  <2>2. saves' = [saves EXCEPT ![i] = [saves[i] EXCEPT !.stage = stage]]
    BY <2>1
  <2>3. /\ [saves[i] EXCEPT !.stage = stage] \in Saves
        /\ [saves[i] EXCEPT !.stage = stage].stage = stage
    BY <1>3 DEF Saves
  <2>4. /\ saves' \in [SaveIds -> Saves] /\ saves'[i].stage = stage
        /\ \A j \in SaveIds \ {i} : saves'[j] = saves[j]
    BY <1>1, <2>2, <2>3
  <2> QED BY <1>2, <2>4 DEF UnderWay
<1>5. disk' \in Optional(Text) /\ base' \in Text
  BY <1>1, <1>2, <1>3 DEF OthersOK, Optional
<1>6. OthersOK' /\ UNCHANGED <<ui, load>>
  BY <1>1, <1>2, <1>4, <1>5, MissedType DEF OthersOK, ui, app
<1>7. doc' \in Documents /\ OnlyChanges(Minor, doc, doc')
  <2>1. CASE doc' = doc
    BY <1>1, <2>1 DEF OnlyChanges
  <2>2. CASE doc' = Noticed(doc, "write")
    <3>1. doc' \in Documents /\ OnlyChanges({"events"}, doc, doc')
      BY <1>1, <2>2, NoticedDoc
    <3> QED BY <3>1 DEF OnlyChanges, Minor
  <2> QED BY <1>2, <2>1, <2>2
<1> QED BY <1>1, <1>4, <1>6, <1>7, MinorChange, HoldsLeftAlone

(* Somebody gives up a hold.  While the document is held it stays as it is.  *)
LEMMA CloseOK ==
  ASSUME NEW d, DocOK(d), d.openCount > 0
  PROVE  LET e == Close(d) IN
         /\ DocOK(e) /\ e.openCount = d.openCount - 1
         /\ e.openCount > 0 => OnlyChanges({"openCount"}, d, e)
         /\ e.openCount = 0 => ~e.loaded /\ e.backup = {} /\ ~e.timer
<1> DEFINE e == Close(d)
<1>1. d \in Documents /\ d.openCount \in Nat \ {0}
  BY DEF DocOK, Documents
<1>2. /\ e \in Documents /\ e.openCount = d.openCount - 1
      /\ d.openCount > 1 => OnlyChanges({"openCount"}, d, e)
      /\ d.openCount = 1 => ~e.loaded /\ e.backup = {} /\ ~e.timer
  BY <1>1, CloseDoc
<1> HIDE DEF e
<1>3. CASE d.openCount = 1
  BY <1>1, <1>2, <1>3 DEF DocOK, e
<1>4. CASE d.openCount > 1
  <2>1. e.openCount > 0
    BY <1>1, <1>2, <1>4
  <2>2. /\ e.loaded = d.loaded /\ e.revision = d.revision /\ e.saved = d.saved
        /\ e.backupRevision = d.backupRevision
    BY <1>2, <1>4 DEF OnlyChanges, Fields, Closed
  <2>3. DocOK(e)
    BY <1>2, <2>1, <2>2 DEF DocOK
  <2> QED BY <1>2, <1>4, <2>1, <2>3 DEF e
<1> QED BY <1>1, <1>3, <1>4

LEMMA SaveEnds ==
  ASSUME OthersOK, NEW i \in SaveIds, saves[i].stage # "none", saves' = [saves EXCEPT ![i] = NoSave]
  PROVE  /\ saves' \in [SaveIds -> Saves]
         /\ Cardinality(UnderWay') = Cardinality(UnderWay) - 1
         /\ Cardinality(UnderWay) \in Nat \ {0}
         /\ Saving' <=> Cardinality(UnderWay') > 0
<1>1. saves \in [SaveIds -> Saves] /\ IsFiniteSet(UnderWay) /\ Cardinality(UnderWay) \in Nat
  BY HoldersFacts DEF OthersOK
<1>2. NoSave \in Saves /\ NoSave.stage = "none"
  BY DEF NoSave, Saves, Text
<1>3. /\ saves' \in [SaveIds -> Saves] /\ saves'[i] = NoSave
      /\ \A j \in SaveIds \ {i} : saves'[j] = saves[j]
  BY <1>1, <1>2
<1>4. UnderWay' = UnderWay \ {i} /\ i \in UnderWay
  BY <1>2, <1>3 DEF UnderWay
<1>5. Cardinality(UnderWay') = Cardinality(UnderWay) - 1
  BY <1>1, <1>4, FS_RemoveElement
<1>6. Cardinality(UnderWay) # 0
  BY <1>1, <1>4, FS_EmptySet
<1>7. Saving' <=> Cardinality(UnderWay') > 0
  <2>1. IsFiniteSet(UnderWay')
    BY <1>1, <1>4, FS_RemoveElement
  <2>2. Cardinality(UnderWay') \in Nat /\ (Cardinality(UnderWay') = 0 <=> UnderWay' = {})
    BY <2>1, FS_EmptySet, FS_CardinalityType
  <2> QED BY <2>2 DEF Saving, UnderWay
<1> QED BY <1>1, <1>3, <1>5, <1>6, <1>7

(* A save reports back.                                                      *)
LEMMA DidSaveKept ==
  ASSUME Kept, NEW i \in SaveIds, DidSave(i)
  PROVE  Kept'
<1>1. /\ DocOK(doc) /\ OthersOK /\ Held /\ doc \in Documents
      /\ saves[i].stage \in {"written", "failed"}
  BY DEF Kept, DocOK, DidSave
<1>2. doc.loaded /\ load.handlers = 0
  BY <1>1, HoldersFacts DEF Held, Saving, OthersOK, Loads
<1>3. /\ UNCHANGED <<ui, load, waits, app, outside, crashes>> /\ History
      /\ saves' = [saves EXCEPT ![i] = NoSave]
  BY DEF DidSave
<1>4. /\ saves' \in [SaveIds -> Saves]
      /\ Cardinality(UnderWay') = Cardinality(UnderWay) - 1
      /\ Cardinality(UnderWay) \in Nat \ {0}
      /\ Saving' <=> Cardinality(UnderWay') > 0
  BY <1>1, <1>3, SaveEnds
<1>5. OthersOK'
  BY <1>1, <1>3, <1>4, MissedType DEF OthersOK, ui, app, outside
<1>6. PICK m \in Documents :
         /\ doc' = Close(m)
         /\ IF saves[i].stage = "written"
            THEN /\ OnlyChanges({"onDisk", "saved", "snapshot", "session", "timer", "backup",
                                 "observing", "events"}, doc, m)
                 /\ m.saved = doc.revision /\ ~m.timer
            ELSE OnlyChanges({"observing", "events"}, doc, m)
  BY <1>1, <1>2, DidSaveEffect
<1>7. /\ m.openCount = doc.openCount /\ m.loaded /\ m.revision = doc.revision
      /\ m.backupRevision = doc.backupRevision /\ m.saved \in {doc.saved, doc.revision}
  BY <1>2, <1>6 DEF OnlyChanges, Fields, Closed
<1>8. doc.openCount \in Nat \ {0} /\ doc.openCount >= Holders
  BY <1>1, <1>2 DEF DocOK, Held, Documents
<1>9. DocOK(m)
  BY <1>1, <1>2, <1>7, <1>8 DEF DocOK
<1>10. /\ DocOK(doc') /\ doc'.openCount = doc.openCount - 1
       /\ doc'.openCount > 0 => doc'.loaded
  BY <1>6, <1>7, <1>8, <1>9, CloseOK DEF OnlyChanges, Fields, Closed
<1>11. doc'.openCount >= Holders' /\ (view' \/ Saving' => doc'.loaded)
  <2>1. /\ Holders' = Holders - 1 /\ Holders' \in Nat /\ Holders \in Nat
        /\ view' \/ Saving' => Holders' > 0
    <3>1. /\ load.handlers \in Nat /\ Min1(tab) \in 0..1 /\ Min1(view) \in 0..1
          /\ view => Min1(view) = 1
      BY <1>1, HoldersFacts
    <3> QED BY <1>3, <1>4, <3>1 DEF Holders, ui
  <2> QED BY <1>8, <1>10, <2>1
<1> QED BY <1>1, <1>2, <1>3, <1>5, <1>10, <1>11 DEF Kept, Held

LEMMA SaveBegins ==
  ASSUME OthersOK, NEW i \in SaveIds, saves[i].stage = "none", NEW t \in Text,
         saves' = [saves EXCEPT ![i] = [stage |-> "writing", text |-> t]]
  PROVE  /\ saves' \in [SaveIds -> Saves] /\ Saving'
         /\ Cardinality(UnderWay') = Cardinality(UnderWay) + 1
<1> DEFINE w == [stage |-> "writing", text |-> t]
<1>1. saves \in [SaveIds -> Saves] /\ IsFiniteSet(UnderWay) /\ Cardinality(UnderWay) \in Nat
  BY HoldersFacts DEF OthersOK
<1>2. w \in Saves /\ w.stage # "none"
  BY DEF Saves
<1>3. saves' = [saves EXCEPT ![i] = w]
  OBVIOUS
<1> HIDE DEF w
<1>4. /\ saves' \in [SaveIds -> Saves] /\ saves'[i] = w
      /\ \A j \in SaveIds \ {i} : saves'[j] = saves[j]
  BY <1>1, <1>2, <1>3
<1>5. UnderWay' = UnderWay \cup {i} /\ i \notin UnderWay
  BY <1>2, <1>4 DEF UnderWay
<1>6. Cardinality(UnderWay') = Cardinality(UnderWay) + 1
  BY <1>1, <1>5, FS_AddElement
<1> QED BY <1>2, <1>4, <1>6 DEF Saving

LEMMA StartSaveKept ==
  ASSUME Kept, NEW i \in SaveIds, StartSave(i)
  PROVE  Kept'
<1>1. DocOK(doc) /\ OthersOK /\ Held /\ doc \in Documents
  BY DEF Kept, DocOK
<1>2. /\ tab /\ UserCanAct /\ saves[i].stage = "none"
      /\ doc' \in Documents /\ doc'.text \in Text
      /\ saves' = [saves EXCEPT ![i] = [stage |-> "writing", text |-> doc'.text]]
      /\ doc'.openCount = doc.openCount + 1 /\ doc'.loaded
      /\ \/ /\ doc.loaded
            /\ OnlyChanges({"openCount", "observing", "events"}, doc, doc')
         \/ /\ ~doc.loaded /\ doc.backup # {}
            /\ doc'.revision = 1 /\ doc'.backupRevision = 1 /\ doc'.saved = 0
  BY <1>1, StartSaveEffect
<1>3. UNCHANGED <<ui, load, waits, app, outside, crashes>> /\ History
  BY DEF StartSave
<1>4. /\ saves' \in [SaveIds -> Saves] /\ Saving'
      /\ Cardinality(UnderWay') = Cardinality(UnderWay) + 1
  BY <1>1, <1>2, SaveBegins
<1>5. OthersOK'
  BY <1>1, <1>3, <1>4, MissedType DEF OthersOK, ui, app, outside
<1>6. DocOK(doc')
  <2>1. doc'.openCount > 0
    BY <1>1, <1>2 DEF Documents
  <2>2. CASE doc.loaded /\ OnlyChanges({"openCount", "observing", "events"}, doc, doc')
    BY <1>1, <1>2, <2>1, <2>2 DEF DocOK, OnlyChanges, Fields, Closed
  <2>3. CASE doc'.revision = 1 /\ doc'.backupRevision = 1 /\ doc'.saved = 0
    BY <1>2, <2>1, <2>3 DEF DocOK
  <2> QED BY <1>2, <2>2, <2>3
<1>7. doc'.openCount >= Holders'
  <2>1. doc.openCount >= Holders /\ Holders \in Nat /\ doc.openCount \in Nat
    BY <1>1, HoldersFacts DEF Held, Documents
  <2>2. Holders' = Holders + 1
    <3>1. /\ load.handlers \in Nat /\ Min1(tab) \in 0..1 /\ Min1(view) \in 0..1
          /\ Cardinality(UnderWay) \in Nat
      BY <1>1, HoldersFacts
    <3> QED BY <1>3, <1>4, <3>1 DEF Holders, ui
  <2> QED BY <1>2, <2>1, <2>2
<1>8. load.handlers = 0
  BY <1>1, <1>2 DEF Held
<1> QED BY <1>1, <1>2, <1>3, <1>5, <1>6, <1>7, <1>8 DEF Kept, Held

(* The tabs and the text view.                                               *)
LEMMA OpenTabKept ==
  ASSUME Kept, OpenTab
  PROVE  Kept'
<1>1. DocOK(doc) /\ OthersOK /\ Held /\ doc \in Documents
  BY DEF Kept, DocOK
<1>2. /\ ~tab /\ tab' = TRUE /\ view' = view
      /\ UNCHANGED <<load, saves, app, outside, crashes>> /\ History
  BY DEF OpenTab
<1>3. OthersOK' /\ UnderWay' = UnderWay
  BY <1>1, <1>2, MissedType DEF OthersOK, app, outside, UnderWay
<1>4. /\ doc' \in Documents /\ OnlyChanges({"openCount", "session"}, doc, doc')
      /\ doc'.openCount = doc.openCount + 1
  <2> DEFINE e == [doc EXCEPT !.openCount = @ + 1]
  <2>1. /\ e \in Documents /\ OnlyChanges({"openCount"}, doc, e)
        /\ e.openCount = doc.openCount + 1
    BY <1>1, OpenedDoc
  <2>2. doc' = Notified(e)
    BY DEF OpenTab
  <2> HIDE DEF e
  <2>3. /\ doc' \in Documents /\ OnlyChanges({"session"}, e, doc')
    BY <2>1, <2>2, NotifiedDoc
  <2> QED BY <2>1, <2>3 DEF OnlyChanges, Fields, Closed
<1>5. /\ doc'.loaded = doc.loaded /\ doc'.backup = doc.backup
      /\ doc'.revision = doc.revision /\ doc'.saved = doc.saved
      /\ doc'.backupRevision = doc.backupRevision /\ doc'.timer = doc.timer
  BY <1>4 DEF OnlyChanges, Fields, Closed
<1>6. doc.openCount \in Nat /\ doc.openCount >= Holders /\ Holders \in Nat
  BY <1>1, HoldersFacts DEF Held, Documents
<1>7. DocOK(doc')
  BY <1>1, <1>4, <1>5, <1>6 DEF DocOK
<1>8. Holders' = Holders + 1
  <2>1. /\ load.handlers \in Nat /\ Min1(view) \in 0..1 /\ Cardinality(UnderWay) \in Nat
    BY <1>1, HoldersFacts
  <2>2. Min1(tab') = 1 /\ Min1(tab) = 0 /\ Min1(view') = Min1(view)
    BY <1>2 DEF Min1
  <2> QED BY <1>2, <1>3, <2>1, <2>2 DEF Holders
<1>9. Saving' <=> Saving
  BY <1>2 DEF Saving
<1> QED BY <1>1, <1>2, <1>3, <1>4, <1>5, <1>6, <1>7, <1>8, <1>9 DEF Kept, Held

LEMMA SelectTabKept ==
  ASSUME Kept, SelectTab
  PROVE  Kept'
<1>1. DocOK(doc) /\ OthersOK /\ Held /\ doc \in Documents /\ load \in Loads
  BY DEF Kept, DocOK, OthersOK
<1>2. UNCHANGED <<tab, saves, waits, app, outside, crashes>> /\ History
  BY DEF SelectTab
<1>3. /\ ~view /\ doc' \in Documents /\ doc'.openCount = doc.openCount + 1
      /\ \/ /\ OnlyChanges({"openCount"}, doc, doc')
            /\ \/ doc.loaded /\ view' = TRUE /\ load' = load
               \/ /\ ~doc.loaded /\ load.handlers # 0 /\ view' = view
                  /\ load' = [load EXCEPT !.handlers = @ + 1]
               \/ /\ ~doc.loaded /\ load.handlers = 0 /\ doc.backup = {} /\ view' = view
                  /\ load' = [handlers |-> 1, stage |-> "reading", text |-> {}]
         \/ /\ load.handlers = 0 /\ view' = TRUE /\ load' = load
            /\ doc'.loaded /\ doc'.revision = 1 /\ doc'.backupRevision = 1
            /\ doc'.saved \in {0, 1}
  BY <1>1, SelectTabEffect
<1>4. /\ load.handlers \in Nat /\ Min1(tab) \in 0..1 /\ Cardinality(UnderWay) \in Nat
      /\ Holders \in Nat /\ doc.openCount \in Nat /\ doc.openCount >= Holders
  BY <1>1, HoldersFacts DEF Held, Documents
<1>5. /\ Min1(view) = 0
      /\ view' = TRUE => Min1(view') = 1
      /\ view' = view => Min1(view') = 0
  BY <1>3 DEF Min1
<1>6. DocOK(doc')
  <2>1. CASE OnlyChanges({"openCount"}, doc, doc')
    BY <1>1, <1>3, <1>4, <2>1 DEF DocOK, OnlyChanges, Fields, Closed
  <2>2. CASE doc'.revision = 1 /\ doc'.backupRevision = 1 /\ doc'.saved \in {0, 1}
    BY <1>3, <1>4, <2>2 DEF DocOK
  <2> QED BY <1>3, <2>1, <2>2
<1>7. /\ load' \in Loads
      /\ \/ load' = load /\ view' = TRUE /\ doc'.loaded
         \/ /\ load'.handlers = load.handlers + 1 /\ load'.handlers # 0 /\ load'.stage # "none"
            /\ view' = view /\ ~doc'.loaded /\ doc'.backup = {}
      /\ load'.handlers # 0 => ~doc'.loaded /\ doc'.backup = {}
      /\ load'.handlers # 0 <=> load'.stage # "none"
  <2>1. OnlyChanges({"openCount"}, doc, doc') => doc'.loaded = doc.loaded /\ doc'.backup = doc.backup
    BY DEF OnlyChanges, Fields, Closed
  <2>2. CASE /\ load' = load /\ view' = TRUE
             /\ \/ doc.loaded /\ OnlyChanges({"openCount"}, doc, doc')
                \/ load.handlers = 0 /\ doc'.loaded
    BY <1>1, <2>1, <2>2 DEF Held
  <2>3. CASE /\ OnlyChanges({"openCount"}, doc, doc')
             /\ ~doc.loaded /\ load.handlers # 0 /\ view' = view
             /\ load' = [load EXCEPT !.handlers = @ + 1]
    BY <1>1, <1>4, <2>1, <2>3 DEF Held, Loads
  <2>4. CASE /\ OnlyChanges({"openCount"}, doc, doc')
             /\ ~doc.loaded /\ load.handlers = 0 /\ doc.backup = {} /\ view' = view
             /\ load' = [handlers |-> 1, stage |-> "reading", text |-> {}]
    BY <1>1, <2>1, <2>4 DEF Loads, Text
  <2> QED BY <1>3, <2>2, <2>3, <2>4
<1>8. Holders' = Holders + 1
  <2>1. Min1(tab') = Min1(tab) /\ Cardinality(UnderWay') = Cardinality(UnderWay)
    BY <1>2 DEF UnderWay
  <2> QED BY <1>4, <1>5, <1>7, <2>1 DEF Holders
<1>9. OthersOK'
  BY <1>1, <1>2, <1>3, <1>7, MissedType DEF OthersOK, app, outside
<1>10. Saving' <=> Saving
  BY <1>2 DEF Saving
<1>11. view' \/ Saving' => doc'.loaded
  <2>1. OnlyChanges({"openCount"}, doc, doc') => doc'.loaded = doc.loaded
    BY DEF OnlyChanges, Fields, Closed
  <2> QED BY <1>1, <1>3, <1>7, <1>10, <2>1 DEF Held
<1> QED BY <1>3, <1>4, <1>6, <1>7, <1>8, <1>9, <1>11 DEF Kept, Held

(* The tab goes, the text view shows another, or the load fails: one or two  *)
(* holds are given up.                                                       *)
LEMMA HoldsGivenUp ==
  ASSUME Kept, OthersOK', NEW n \in Nat, Holders' = n, Saving' <=> Saving, ~view',
         load'.handlers \in {0, load.handlers}, load'.handlers # 0 <=> load'.stage # "none",
         \/ doc' = Close(doc) /\ Holders >= n + 1
         \/ doc' = Close(Close(doc)) /\ Holders >= n + 2,
         Saving => n > 0
  PROVE  Kept'
<1>1. DocOK(doc) /\ Held /\ Holders \in Nat /\ doc.openCount \in Nat /\ doc.openCount >= Holders
  BY HoldersFacts DEF Kept, Held, DocOK, Documents
<1>4. ASSUME DocOK(doc'), doc'.openCount \in Nat, doc'.openCount >= n,
             doc'.openCount > 0 => doc'.loaded = doc.loaded /\ doc'.backup = doc.backup,
             doc'.openCount = 0 => ~doc'.loaded /\ doc'.backup = {}
      PROVE  Kept'
  <2>1. Saving' => doc'.loaded
    BY <1>1, <1>4 DEF Held
  <2>2. load'.handlers # 0 => ~doc'.loaded /\ doc'.backup = {}
    BY <1>1, <1>4 DEF Held
  <2> QED BY <1>4, <2>1, <2>2 DEF Kept, Held
<1>2. CASE doc' = Close(doc) /\ Holders >= n + 1
  <2>1. doc.openCount > 0
    BY <1>1, <1>2
  <2>2. /\ DocOK(doc') /\ doc'.openCount = doc.openCount - 1
        /\ doc'.openCount > 0 => OnlyChanges({"openCount"}, doc, doc')
    BY <1>1, <1>2, <2>1, CloseOK
  <2>3. doc'.openCount > 0 => doc'.loaded = doc.loaded /\ doc'.backup = doc.backup
    BY <2>2 DEF OnlyChanges, Fields, Closed
  <2>4. doc'.openCount = 0 => ~doc'.loaded /\ doc'.backup = {}
    BY <1>1, <1>2, <2>1, CloseOK
  <2> QED BY <1>1, <1>2, <1>4, <2>2, <2>3, <2>4
<1>3. CASE doc' = Close(Close(doc)) /\ Holders >= n + 2
  <2> DEFINE d == Close(doc)
  <2>1. doc.openCount > 0
    BY <1>1, <1>3
  <2>2. /\ DocOK(d) /\ d.openCount = doc.openCount - 1
        /\ d.openCount > 0 => OnlyChanges({"openCount"}, doc, d)
    BY <1>1, <2>1, CloseOK
  <2>3. doc' = Close(d) /\ d.openCount > 0
    BY <1>1, <1>3, <2>2
  <2> HIDE DEF d
  <2>4. /\ DocOK(doc') /\ doc'.openCount = d.openCount - 1
        /\ doc'.openCount > 0 => OnlyChanges({"openCount"}, d, doc')
    BY <2>2, <2>3, CloseOK
  <2>5. doc'.openCount > 0 => doc'.loaded = doc.loaded /\ doc'.backup = doc.backup
    BY <2>2, <2>3, <2>4 DEF OnlyChanges, Fields, Closed
  <2>6. doc'.openCount = 0 => ~doc'.loaded /\ doc'.backup = {}
    BY <2>2, <2>3, CloseOK
  <2> QED BY <1>1, <1>3, <1>4, <2>2, <2>4, <2>5, <2>6
<1> QED BY <1>2, <1>3

LEMMA TabKept ==
  ASSUME Kept, SelectOtherTab \/ CloseTab \/ LoadFailed
  PROVE  Kept'
<1>1. DocOK(doc) /\ OthersOK /\ Held /\ doc \in Documents
  BY DEF Kept, DocOK
<1>2. /\ UNCHANGED <<saves, waits, app, outside, crashes>> /\ History
      /\ tab' \in {tab, FALSE} /\ view' \in {view, FALSE} /\ load' \in {load, NoLoad}
  BY DEF SelectOtherTab, CloseTab, LoadFailed
<1>3. OthersOK' /\ (Saving' <=> Saving) /\ UnderWay' = UnderWay
  <2>1. NoLoad \in Loads
    BY DEF NoLoad, Loads, Text
  <2> QED BY <1>1, <1>2, <2>1, MissedType DEF OthersOK, app, outside, Saving, UnderWay
<1>4. /\ load.handlers \in Nat /\ Min1(tab) \in 0..1 /\ Min1(view) \in 0..1
      /\ Cardinality(UnderWay) \in Nat /\ (Saving => Cardinality(UnderWay) > 0)
      /\ tab => Min1(tab) = 1
      /\ view => Min1(view) = 1
  BY <1>1, HoldersFacts
<1>5. NoLoad.handlers = 0 /\ NoLoad.stage = "none" /\ Min1(FALSE) = 0
  BY DEF NoLoad, Min1
<1>6. CASE SelectOtherTab
  <2>1. /\ view /\ ~view' /\ view' = FALSE /\ tab' = tab /\ load' = load /\ doc' = Close(doc)
    BY <1>6 DEF SelectOtherTab
  <2>2. load.handlers = 0 /\ load.stage = "none"
    BY <1>1, <2>1 DEF Held
  <2> DEFINE n == Min1(tab) + Cardinality(UnderWay)
  <2>3. /\ n \in Nat /\ Holders' = n /\ Holders = n + 1 /\ (Saving => n > 0)
    <3>1. /\ Min1(tab') = Min1(tab) /\ Min1(view') = 0 /\ load'.handlers = 0 /\ Min1(view) = 1
          /\ Cardinality(UnderWay') = Cardinality(UnderWay)
      BY <1>3, <1>5, <2>1, <2>2 DEF Min1
    <3>2. Holders' = n /\ Holders = n + 1
      BY <1>4, <2>2, <3>1 DEF Holders
    <3> QED BY <1>4, <3>2
  <2> HIDE DEF n
  <2> QED BY <1>3, <2>1, <2>2, <2>3, HoldsGivenUp
<1>7. CASE LoadFailed
  <2>1. /\ tab' = FALSE /\ view' = view /\ load' = NoLoad /\ load.stage = "failed"
        /\ doc' = IF tab THEN Close(Close(doc)) ELSE Close(doc)
    BY <1>7 DEF LoadFailed
  <2>2. load.handlers >= 1 /\ ~view /\ ~Saving
    BY <1>1, <1>4, <2>1 DEF Held
  <2> DEFINE n == Cardinality(UnderWay)
  <2>3. /\ n \in Nat /\ Holders' = n /\ Holders = n + load.handlers + Min1(tab)
        /\ Holders >= n + 1 + Min1(tab)
    <3>1. /\ Min1(tab') = 0 /\ Min1(view') = 0 /\ load'.handlers = 0 /\ Min1(view) = 0
          /\ Cardinality(UnderWay') = Cardinality(UnderWay)
      BY <1>3, <1>5, <2>1, <2>2 DEF Min1
    <3> QED BY <1>4, <2>1, <2>2, <3>1 DEF Holders
  <2> HIDE DEF n
  <2> QED BY <1>3, <1>4, <1>5, <2>1, <2>2, <2>3, HoldsGivenUp
<1>8. CASE CloseTab
  <2>1. /\ tab /\ tab' = FALSE /\ view' = FALSE /\ load' = load
        /\ doc' = IF view THEN Close(Close(doc)) ELSE Close(doc)
    BY <1>8 DEF CloseTab
  <2> DEFINE n == load.handlers + Cardinality(UnderWay)
  <2>2. /\ n \in Nat /\ Holders' = n /\ Holders = n + 1 + Min1(view) /\ (Saving => n > 0)
        /\ Min1(view) = IF view THEN 1 ELSE 0
    <3>1. /\ Min1(tab') = 0 /\ Min1(view') = 0 /\ load'.handlers = load.handlers
          /\ Cardinality(UnderWay') = Cardinality(UnderWay)
          /\ Min1(view) = (IF view THEN 1 ELSE 0) /\ Min1(tab) = 1
      BY <1>3, <2>1 DEF Min1
    <3>2. /\ Holders' = n /\ Holders = n + 1 + Min1(view)
      BY <1>4, <3>1 DEF Holders
    <3> QED BY <1>4, <3>1, <3>2
  <2> HIDE DEF n
  <2>3. load'.handlers # 0 <=> load'.stage # "none"
    BY <1>1, <2>1 DEF Held
  <2> QED BY <1>3, <1>4, <2>1, <2>2, <2>3, HoldsGivenUp
<1> QED BY <1>2, <1>6, <1>7, <1>8

(* The worker has read the file or failed, and the text is shown.            *)
LEMMA LoadKept ==
  ASSUME Kept, LoadRead \/ LoadDone
  PROVE  Kept'
<1>1. /\ DocOK(doc) /\ OthersOK /\ Held /\ doc \in Documents /\ load \in Loads
      /\ load.handlers \in Nat /\ load.text \in Text
  BY DEF Kept, DocOK, OthersOK, Loads
<1>2. CASE LoadRead
  <2>1. /\ UNCHANGED <<doc, ui, saves, waits, app, outside, crashes>> /\ History
        /\ load.stage = "reading"
        /\ \/ load' = [load EXCEPT !.stage = "read", !.text = Content(disk)]
           \/ load' = [load EXCEPT !.stage = "failed"]
    BY <1>2 DEF LoadRead
  <2>2. Content(disk) \in Text
    BY <1>1, ContentType DEF OthersOK
  <2>3. /\ load' \in Loads /\ load'.handlers = load.handlers /\ load'.stage # "none"
    BY <1>1, <2>1, <2>2 DEF Loads
  <2>4. OthersOK' /\ Holders' = Holders /\ (Saving' <=> Saving)
    BY <1>1, <2>1, <2>3, MissedType DEF OthersOK, ui, app, outside, Holders, UnderWay, Saving
  <2> QED BY <1>1, <2>1, <2>3, <2>4 DEF Kept, Held, ui
<1>3. CASE LoadDone
  <2>1. /\ load.stage = "read" /\ view' = TRUE /\ base' = load.text /\ load' = NoLoad
        /\ UNCHANGED <<tab, saves, waits, app, disk, written, crashes>> /\ History
    BY <1>3 DEF LoadDone
  <2>2. /\ ~view /\ ~Saving /\ load.handlers > 0
    BY <1>1, <2>1 DEF Held
  <2>3. /\ Min1(tab) \in 0..1 /\ Min1(view) = 0 /\ Cardinality(UnderWay) \in Nat
        /\ doc.openCount \in Nat /\ doc.openCount >= Holders
    BY <1>1, <2>2, HoldersFacts DEF Min1, Held, Documents
  <2>4. doc.openCount >= load.handlers + Min1(tab) + Cardinality(UnderWay)
    BY <1>1, <2>3 DEF Holders
  <2>5. doc.openCount >= load.handlers
    BY <1>1, <2>3, <2>4
  <2>6. /\ doc' \in Documents
        /\ doc'.openCount = doc.openCount + Min1(~view) - load.handlers
        /\ doc'.loaded /\ doc'.revision = 1 /\ doc'.saved = 1 /\ doc'.backupRevision = 1
    BY <1>1, <1>3, <2>5, LoadDoneEffect
  <2>7. Min1(~view) = 1 /\ Min1(view') = 1
    BY <2>1, <2>2 DEF Min1
  <2>8. NoLoad.handlers = 0 /\ NoLoad.stage = "none" /\ NoLoad \in Loads
    BY DEF NoLoad, Loads, Text
  <2>9. doc'.openCount >= Holders'
    <3>1. /\ Min1(tab') = Min1(tab) /\ Cardinality(UnderWay') = Cardinality(UnderWay)
          /\ load'.handlers = 0
      BY <2>1, <2>8 DEF UnderWay
    <3> DEFINE n == Min1(tab) + Cardinality(UnderWay)
    <3>2. Holders' = n + 1 /\ n \in Nat
      BY <2>3, <2>7, <3>1 DEF Holders
    <3> QED BY <1>1, <2>3, <2>4, <2>6, <2>7, <3>2
  <2>10. DocOK(doc')
    <3>1. doc'.openCount > 0
      BY <1>1, <2>3, <2>5, <2>6, <2>7
    <3> QED BY <2>6, <3>1 DEF DocOK
  <2>11. OthersOK'
    BY <1>1, <2>1, <2>8, MissedType DEF OthersOK, app
  <2> QED BY <2>1, <2>6, <2>8, <2>9, <2>10, <2>11 DEF Kept, Held
<1> QED BY <1>2, <1>3

LEMMA CrashKept ==
  ASSUME Kept, Crash
  PROVE  Kept'
<1>1. DocOK(doc) /\ OthersOK /\ doc \in Documents
  BY DEF Kept, DocOK
<1>2. /\ crashes' = crashes + 1
      /\ tab' = (doc.backup # {}) /\ view' = FALSE
      /\ load' = NoLoad
      /\ saves' = [i \in SaveIds |-> NoSave]
      /\ group' = "closed" /\ active' = TRUE /\ wake' = FALSE
      /\ UNCHANGED outside /\ History
  BY DEF Crash
<1>3. NoLoad \in Loads /\ NoLoad.handlers = 0 /\ NoLoad.stage = "none"
      /\ NoSave \in Saves /\ NoSave.stage = "none"
  BY DEF NoLoad, NoSave, Loads, Saves, Text
<1>4. OthersOK'
  <2>1. saves' \in [SaveIds -> Saves] /\ load' \in Loads
    BY <1>2, <1>3
  <2>2. tab' \in BOOLEAN /\ view' \in BOOLEAN /\ active' \in BOOLEAN /\ wake' \in BOOLEAN
    BY <1>2
  <2>3. crashes' \in Nat /\ missed' \in BOOLEAN
    BY <1>1, <1>2, MissedType DEF OthersOK
  <2> QED BY <1>1, <1>2, <2>1, <2>2, <2>3 DEF OthersOK, outside
<1>5. UnderWay' = {} /\ ~Saving'
  BY <1>2, <1>3 DEF UnderWay, Saving
<1> DEFINE n == Min1(doc.backup # {})
           s == IF \E b \in doc.backup : b.modified THEN -1 ELSE 0
<1>6. doc' = [Closed EXCEPT !.backup = doc.backup, !.openCount = n,
                            !.onDisk = disk # {}, !.saved = s]
  BY DEF Crash
<1>7. n \in Nat /\ s \in Nat \cup {-1} /\ (doc.backup # {} => n > 0)
  BY DEF Min1
<1>8. Closed \in Documents /\ ~Closed.loaded /\ ~Closed.timer
  BY ClosedType DEF Closed
<1>10. Holders' = n
  <2>1. Cardinality(UnderWay') = 0
    BY <1>5, FS_EmptySet
  <2>2. load'.handlers = 0 /\ Min1(view') = 0 /\ Min1(tab') = n
    BY <1>2, <1>3 DEF Min1
  <2> HIDE DEF n
  <2> QED BY <1>7, <2>1, <2>2 DEF Holders
<1> HIDE DEF n, s
<1>9. /\ doc' \in Documents /\ doc'.openCount = n /\ ~doc'.loaded
      /\ doc'.backup = doc.backup /\ ~doc'.timer
  BY <1>1, <1>6, <1>7, <1>8 DEF Documents
<1>11. DocOK(doc')
  BY <1>7, <1>9 DEF DocOK
<1> QED BY <1>2, <1>3, <1>4, <1>5, <1>7, <1>9, <1>10, <1>11 DEF Kept, Held

LEMMA InitKept == Init => Kept /\ ImportsOK
<1> SUFFICES ASSUME Init PROVE Kept /\ ImportsOK
  OBVIOUS
<1>1. /\ NoLoad \in Loads /\ NoLoad.handlers = 0 /\ NoLoad.stage = "none"
      /\ NoSave \in Saves /\ NoSave.stage = "none"
  BY DEF NoLoad, NoSave, Loads, Saves, Text
<1>2. OthersOK
  BY <1>1, DocumentAssumption DEF Init, OthersOK, Optional
<1>3. UnderWay = {} /\ ~Saving
  BY <1>1 DEF Init, UnderWay, Saving
<1>4. Holders = 0
  <2>1. Cardinality(UnderWay) = 0
    BY <1>3, FS_EmptySet
  <2> QED BY <1>1, <2>1 DEF Init, Holders, Min1
<1>5. /\ Closed \in Documents /\ ~Closed.loaded /\ ~Closed.timer /\ Closed.backup = {}
      /\ Closed.openCount = 0
  BY ClosedType DEF Closed
<1>6. DocOK(doc) /\ Held
  BY <1>1, <1>3, <1>4, <1>5 DEF Init, DocOK, Held
<1>7. ImportsOK
  BY EmptySeq DEF Init, ImportsOK, StackOK, RepliesOK
<1> QED BY <1>2, <1>6, <1>7 DEF Kept

LEMMA KeptStep == Kept /\ ImportsOK /\ [Next]_vars => Kept' /\ ImportsOK'
<1> SUFFICES ASSUME Kept, ImportsOK, [Next]_vars PROVE Kept' /\ ImportsOK'
  OBVIOUS
<1>1. ImportsOK'
  BY ImportsStep DEF Kept, OthersOK
<1>2. CASE UNCHANGED vars
  <2>1. OthersOK' /\ UnderWay' = UnderWay /\ doc' = doc /\ UNCHANGED <<ui, load>>
    BY <1>2 DEF vars, Kept, OthersOK, UnderWay, ui
  <2>2. DocOK(doc')
    BY <2>1 DEF Kept
  <2>3. Kept'
    BY <2>1, <2>2, HoldsLeftAlone
  <2> QED BY <1>1, <2>3
<1> QED BY <1>1, <1>2, EditKept, EventKept, ImportKept, WriteSaveKept, DidSaveKept,
        StartSaveKept, OpenTabKept, SelectTabKept, TabKept, LoadKept, CrashKept DEF Next

(* The types of the state.  That no revision falls below that of the backup  *)
(* and that a reply is one of a wait that is still there are not said by     *)
(* any type: without them a counter could leave its range.                   *)
THEOREM TypeCorrect == Spec => []TypeOK
<1>1. Kept /\ ImportsOK => TypeOK
  BY DEF Kept, DocOK, OthersOK, Loads, Saves, ImportsOK, StackOK, RepliesOK, ImportRecords, TypeOK
<1> QED BY <1>1, InitKept, KeptStep, PTL DEF Spec

(* The text view and a save have a document that is loaded, whatever fails   *)
(* or comes late: close (OakDocument.mm:1028) deletes the buffer only when   *)
(* the last hold goes, and all who work on the document have one.            *)
THEOREM HeldIsLoaded == Spec => []InUseIsLoaded
<1>1. Kept => InUseIsLoaded
  <2> SUFFICES ASSUME Kept PROVE InUseIsLoaded
    OBVIOUS
  <2>1. /\ view \/ Saving => doc.loaded
        /\ doc.openCount >= Holders /\ doc.openCount \in Nat
    BY DEF Kept, Held, DocOK, Documents
  <2>2. /\ load.handlers \in Nat /\ Min1(tab) \in 0..1 /\ Min1(view) \in 0..1
        /\ Cardinality(UnderWay) \in Nat
    BY HoldersFacts DEF Kept
  <2>3. doc.openCount >= Min1(tab) + Min1(view) + load.handlers
    BY <2>1, <2>2 DEF Holders
  <2> QED BY <2>1, <2>3 DEF InUseIsLoaded
<1> QED BY <1>1, InitKept, KeptStep, PTL DEF Spec

(* A document that nobody holds leaves no backup that the next load would    *)
(* take for unsaved changes, and no timer that would write one.              *)
THEOREM GivenUpLeavesNoBackup == Spec => []ClosedLeavesNoBackup
<1>1. Kept => ClosedLeavesNoBackup
  BY DEF Kept, DocOK, Documents, ClosedLeavesNoBackup
<1> QED BY <1>1, InitKept, KeptStep, PTL DEF Spec

-----------------------------------------------------------------------------
(* Backups, as long as no other program deletes the file. *)

(* Every backup says that it has changes; one that is as new as the text has *)
(* its text; while there are changes no timer is left only if the backup is  *)
(* as new as the text; and the backup of a document that is not loaded can   *)
(* be brought back.                                                          *)
BackupGood(d, inTab, g) ==
  /\ d.onDisk
  /\ \A b \in d.backup : b.modified
  /\ d.loaded /\ d.backupRevision = d.revision /\ g # "changed"
       => \A b \in d.backup : b.text = d.text
  /\ ~d.loaded /\ d.backup # {} => d.revision # d.saved /\ d.events = {} /\ ~d.observing
  /\ d.loaded /\ inTab /\ d.revision # d.saved /\ ~d.timer /\ ~d.session /\ g # "changed"
       => d.backup # {} /\ d.backupRevision = d.revision

BackedUp ==
  /\ disk # {} /\ BackupGood(doc, tab, group)
  /\ group # "closed" => view
  /\ ~doc.loaded /\ doc.backup # {} => imports = <<>>

(* Little changes, and what does is not about backups.                       *)
LEMMA BackupLeftAlone ==
  ASSUME NEW d, NEW e, NEW t, NEW u, NEW g, NEW h, BackupGood(d, t, g),
         OnlyChanges({"openCount", "observing", "events", "snapshot", "needsImport", "session",
                      "onDisk"}, d, e),
         e.onDisk, d.session => e.session, g = "changed" => h = "changed",
         u => t \/ e.session,
         e.loaded \/ e.backup = {} \/ (e.events = {} /\ ~e.observing)
  PROVE  BackupGood(e, u, h)
BY DEF BackupGood, OnlyChanges, Fields, Closed

(* One hold is given up.                                                     *)
LEMMA BackupAfterClose ==
  ASSUME NEW d, DocOK(d), d.openCount > 0, NEW t \in BOOLEAN, NEW u \in BOOLEAN, NEW g, BackupGood(d, t, g), u => t
  PROVE  BackupGood(Close(d), u, g)
<1> DEFINE e == Close(d)
<1>1. d \in Documents /\ d.openCount \in Nat
  BY DEF DocOK, Documents
<1>2. /\ e \in Documents /\ e.onDisk = d.onDisk
      /\ d.openCount > 1 => OnlyChanges({"openCount"}, d, e)
      /\ d.openCount = 1 => ~e.loaded /\ e.backup = {}
  BY <1>1, CloseDoc
<1> HIDE DEF e
<1>3. CASE d.openCount = 1
  <2>1. BackupGood(e, u, g)
    BY <1>2, <1>3 DEF BackupGood
  <2> QED BY <2>1 DEF e
<1>4. CASE d.openCount > 1
  <2>1. /\ e.onDisk = d.onDisk /\ e.backup = d.backup /\ e.loaded = d.loaded
        /\ e.backupRevision = d.backupRevision /\ e.revision = d.revision
        /\ e.saved = d.saved /\ e.text = d.text /\ e.events = d.events
        /\ e.observing = d.observing /\ e.timer = d.timer /\ e.session = d.session
    BY <1>2, <1>4 DEF OnlyChanges, Fields, Closed
  <2>2. BackupGood(e, u, g)
    BY <2>1 DEF BackupGood
  <2> QED BY <2>2 DEF e
<1> QED BY <1>1, <1>3, <1>4

(* The text has been read, from the file or from the backup.                 *)
LEMMA BackupAfterLoading ==
  ASSUME NEW e, NEW t, NEW g, e.onDisk, e.loaded, e.timer,
         \A b \in e.backup : b.modified /\ b.text = e.text
  PROVE  BackupGood(e, t, g)
BY DEF BackupGood

(* The text has been replaced or marked as saved or as changed.              *)
LEMMA BackupAfterChange ==
  ASSUME NEW d, NEW e, NEW t, NEW g, NEW h, BackupGood(d, t, g), DocOK(d), d.loaded,
         OnlyChanges({"text", "timer", "session", "revision", "needsImport", "saved", "snapshot"},
                     d, e),
         e.session,
         e.revision = d.revision + 1 \/ (e.revision = d.revision /\ e.text = d.text /\ g = h)
  PROVE  BackupGood(e, t, h)
<1>1. /\ e.onDisk = d.onDisk /\ e.backup = d.backup /\ e.loaded = d.loaded
      /\ e.backupRevision = d.backupRevision
  BY DEF OnlyChanges, Fields, Closed
<1>2. d.revision \in Nat /\ d.backupRevision \in Nat /\ d.backupRevision <= d.revision
  BY DEF DocOK, Documents
<1>3. e.backupRevision = e.revision => e.revision = d.revision /\ e.text = d.text /\ g = h
  BY <1>1, <1>2
<1> QED BY <1>1, <1>2, <1>3 DEF BackupGood

LEMMA OnDiskEdited ==
  ASSUME BackupGood(doc, tab, group)
  PROVE  /\ Edited(doc) <=> doc.revision # doc.saved
         /\ BackupWorthKeeping(doc) <=> doc.loaded /\ doc.revision # doc.saved
BY DEF BackupGood, Edited, BackupWorthKeeping

(* Editing.                                                                  *)
LEMMA EditBackedUp ==
  ASSUME Kept, BackedUp, Edit \/ BeginMacro \/ EndMacro
  PROVE  BackedUp'
<1>1. /\ DocOK(doc) /\ doc \in Documents /\ BackupGood(doc, tab, group) /\ disk # {}
      /\ view => doc.loaded
  BY DEF Kept, Held, BackedUp, DocOK
<1>2. UNCHANGED <<ui, load, saves, outside, crashes>>
  BY DEF Edit, BeginMacro, EndMacro
<1>3. doc.loaded /\ view
  BY <1>1 DEF BackedUp, Edit, BeginMacro, EndMacro, CanEdit
<1>4. doc'.loaded /\ BackupGood(doc', tab, group')
  <2>1. CASE Edit
    <3>1. PICK t \in Toggled(doc.text, MyLines) : EndGroup(BufferReplaced(doc, t), TRUE)
      BY <2>1 DEF Edit
    <3> DEFINE typed == BufferReplaced(doc, t)
    <3>2. /\ typed \in Documents /\ OnlyChanges({"text", "timer", "session"}, doc, typed)
          /\ typed.session
      BY <1>1, KeystrokeDoc, BufferReplacedDoc
    <3>3. EndGroup(typed, TRUE)
      BY <3>1
    <3> HIDE DEF typed
    <3>4. /\ doc' \in Documents /\ OnlyChanges({"revision", "session", "needsImport"}, typed, doc')
          /\ doc'.revision = typed.revision + 1 /\ doc'.session
      BY <3>2, <3>3, EndGroupDoc
    <3>5. /\ OnlyChanges({"text", "timer", "session", "revision", "needsImport", "saved",
                         "snapshot"}, doc, doc')
          /\ doc'.revision = doc.revision + 1 /\ doc'.loaded = doc.loaded
      BY <3>2, <3>4 DEF OnlyChanges, Fields, Closed
    <3> QED BY <1>1, <1>3, <3>4, <3>5, BackupAfterChange
  <2>2. CASE BeginMacro
    <3>1. \/ doc' = doc /\ group' = "open" /\ group = "closed"
          \/ /\ group' = "changed" /\ group = "closed"
             /\ \E t \in Toggled(doc.text, MyLines) : doc' = BufferReplaced(doc, t)
      BY <2>2 DEF BeginMacro, UserCanAct
    <3>2. CASE doc' = doc /\ group' = "open" /\ group = "closed"
      BY <1>1, <1>3, <3>2 DEF BackupGood
    <3>3. CASE /\ group' = "changed" /\ group = "closed"
               /\ \E t \in Toggled(doc.text, MyLines) : doc' = BufferReplaced(doc, t)
      <4>1. PICK t \in Toggled(doc.text, MyLines) : doc' = BufferReplaced(doc, t)
        BY <3>3
      <4>2. /\ OnlyChanges({"text", "timer", "session"}, doc, doc')
        BY <1>1, <4>1, KeystrokeDoc, BufferReplacedDoc
      <4>3. /\ doc'.onDisk = doc.onDisk /\ doc'.backup = doc.backup /\ doc'.loaded = doc.loaded
        BY <4>2 DEF OnlyChanges, Fields, Closed
      <4> QED BY <1>1, <1>3, <3>3, <4>3 DEF BackupGood
    <3> QED BY <3>1, <3>2, <3>3
  <2>3. CASE EndMacro
    <3>1. EndGroup(doc, group = "changed") /\ group' = "closed"
      BY <2>3 DEF EndMacro
    <3>2. /\ doc' \in Documents /\ OnlyChanges({"revision", "session", "needsImport"}, doc, doc')
          /\ doc'.revision = (IF group = "changed" THEN doc.revision + 1 ELSE doc.revision)
          /\ doc'.session = (group = "changed" \/ doc.session)
      BY <1>1, <3>1, EndGroupDoc
    <3>3. doc'.loaded /\ doc'.onDisk
      BY <1>1, <1>3, <3>2 DEF OnlyChanges, Fields, Closed, BackupGood
    <3>4. CASE group = "changed"
      <4>1. /\ OnlyChanges({"text", "timer", "session", "revision", "needsImport", "saved",
                           "snapshot"}, doc, doc')
            /\ doc'.revision = doc.revision + 1 /\ doc'.session
        BY <3>2, <3>4 DEF OnlyChanges
      <4> QED BY <1>1, <1>3, <3>3, <4>1, BackupAfterChange
    <3>5. CASE group # "changed"
      <4>1. /\ doc'.onDisk = doc.onDisk /\ doc'.backup = doc.backup
            /\ doc'.backupRevision = doc.backupRevision /\ doc'.revision = doc.revision
            /\ doc'.saved = doc.saved /\ doc'.text = doc.text
            /\ doc'.timer = doc.timer /\ (doc.session => doc'.session)
        BY <3>2, <3>5 DEF OnlyChanges, Fields, Closed
      <4> QED BY <1>1, <1>3, <3>1, <3>3, <3>5, <4>1 DEF BackupGood
    <3> QED BY <3>3, <3>4, <3>5
  <2> QED BY <2>1, <2>2, <2>3
<1> QED BY <1>1, <1>2, <1>3, <1>4 DEF BackedUp, ui, outside

(* Timers, other programs and their events.                                  *)
LEMMA EventBackedUp ==
  ASSUME Kept, BackedUp, "deleting" \notin Allow,
         \/ BackupTimerFires \/ SessionTimerFires \/ ExternalWrite \/ ExternalDelete
         \/ FileDeleted \/ FileWritten \/ Activate \/ Deactivate
  PROVE  BackedUp'
<1>1. /\ DocOK(doc) /\ doc \in Documents /\ BackupGood(doc, tab, group) /\ disk # {}
      /\ doc.loaded => doc.revision \in Nat
  BY DEF Kept, BackedUp, DocOK
<1>2. UNCHANGED <<ui, group>> /\ disk' # {}
  BY <1>1 DEF BackupTimerFires, SessionTimerFires, ExternalWrite, ExternalDelete,
     FileDeleted, FileWritten, Activate, Deactivate, app, outside
<1>3. CASE BackupTimerFires \/ SessionTimerFires
  <2>1. /\ doc' \in Documents
        /\ OnlyChanges({"timer", "session", "backup", "backupRevision"}, doc, doc')
        /\ doc'.timer => doc.timer
        /\ \/ BackupSaved(doc, doc')
           \/ /\ ~(tab /\ doc.loaded /\ Edited(doc))
              /\ doc'.backup = doc.backup /\ doc'.backupRevision = doc.backupRevision
    BY <1>1, <1>3, TimersEffect
  <2>2. /\ doc'.loaded = doc.loaded /\ doc'.onDisk = doc.onDisk /\ doc'.text = doc.text
        /\ doc'.revision = doc.revision /\ doc'.saved = doc.saved
        /\ doc'.events = doc.events /\ doc'.observing = doc.observing
    BY <2>1 DEF OnlyChanges, Fields, Closed
  <2>3. imports' = imports
    BY <1>3 DEF BackupTimerFires, SessionTimerFires, waits
  <2>4. /\ Edited(doc) <=> doc.revision # doc.saved
        /\ BackupWorthKeeping(doc) <=> doc.loaded /\ doc.revision # doc.saved
    BY <1>1, OnDiskEdited
  <2>5. CASE /\ doc.loaded /\ doc.revision # doc.saved /\ doc'.backupRevision = doc.revision
             /\ doc'.backup = {[text |-> doc.text, modified |-> Edited(doc)]}
    <3>1. doc'.backup # {} /\ \A b \in doc'.backup : b.modified /\ b.text = doc.text
      BY <2>4, <2>5
    <3>2. BackupGood(doc', tab, group)
      BY <1>1, <2>2, <2>5, <3>1 DEF BackupGood
    <3> QED BY <1>2, <2>2, <2>3, <2>5, <3>2 DEF BackedUp, ui
  <2>6. CASE doc'.backup = {} /\ ~(doc.loaded /\ doc.revision # doc.saved)
    <3>1. BackupGood(doc', tab, group)
      BY <1>1, <2>2, <2>6 DEF BackupGood
    <3> QED BY <1>2, <2>3, <2>6, <3>1 DEF BackedUp, ui
  <2>7. CASE /\ doc'.backup = doc.backup /\ doc'.backupRevision = doc.backupRevision
             /\ \/ ~(tab /\ doc.loaded /\ doc.revision # doc.saved)
                \/ doc.backup # {} /\ doc.backupRevision = doc.revision
    <3>1. BackupGood(doc', tab, group)
      BY <1>1, <2>2, <2>7 DEF BackupGood
    <3> QED BY <1>2, <2>2, <2>3, <2>7, <3>1 DEF BackedUp, ui
  <2> QED BY <2>1, <2>4, <2>5, <2>6, <2>7 DEF BackupSaved
<1>4. CASE ExternalWrite
  <2>1. doc' = Noticed(doc, "write") /\ imports' = imports
    BY <1>4 DEF ExternalWrite, waits
  <2>2. /\ doc' \in Documents /\ OnlyChanges({"events"}, doc, doc')
        /\ doc'.events = IF doc.observing THEN doc.events \cup {"write"} ELSE doc.events
    BY <1>1, <2>1, NoticedDoc
  <2>3. /\ doc'.loaded = doc.loaded /\ doc'.backup = doc.backup /\ doc'.session = doc.session
        /\ doc'.onDisk = doc.onDisk /\ doc'.observing = doc.observing
    BY <2>2 DEF OnlyChanges, Fields, Closed
  <2>4. /\ OnlyChanges({"openCount", "observing", "events", "snapshot", "needsImport",
                        "session", "onDisk"}, doc, doc')
    BY <2>2 DEF OnlyChanges
  <2>5. doc'.onDisk /\ (doc'.loaded \/ doc'.backup = {} \/ (doc'.events = {} /\ ~doc'.observing))
    BY <1>1, <2>2, <2>3 DEF BackupGood
  <2>6. BackupGood(doc', tab, group)
    BY <1>1, <2>3, <2>4, <2>5, BackupLeftAlone
  <2> QED BY <1>2, <2>1, <2>3, <2>6 DEF BackedUp, ui
<1>5. CASE FileDeleted \/ FileWritten
  <2> DEFINE seen == [Seen("write") EXCEPT !.needsImport = TRUE]
  <2>1. \A e \in {"write", "delete"} :
          /\ Seen(e) \in Documents /\ OnlyChanges({"events", "onDisk", "session"}, doc, Seen(e))
          /\ Seen(e).onDisk /\ Seen(e).session
    BY <1>1, SeenDoc
  <2>2. /\ OnlyChanges({"needsImport"}, Seen("write"), seen)
    BY <2>1 DEF Documents, OnlyChanges, Fields, Closed
  <2>3. doc' = Seen("delete") \/ doc' = Seen("write") \/ doc' = seen
    BY <1>5 DEF FileDeleted, FileWritten
  <2> HIDE DEF seen
  <2>4. OnlyChanges({"events", "onDisk", "session", "needsImport"}, doc, doc')
        /\ doc'.onDisk /\ doc'.session
    BY <2>1, <2>2, <2>3 DEF OnlyChanges, Fields, Closed
  <2>5. /\ OnlyChanges({"openCount", "observing", "events", "snapshot", "needsImport",
                        "session", "onDisk"}, doc, doc')
        /\ doc'.loaded = doc.loaded /\ doc'.backup = doc.backup
    BY <2>4 DEF OnlyChanges, Fields, Closed
  <2>6. doc.loaded \/ doc.backup = {}
    <3>1. doc.events # {}
      BY <1>5 DEF FileDeleted, FileWritten
    <3> QED BY <1>1, <3>1 DEF BackupGood
  <2>7. BackupGood(doc', tab, group)
    BY <1>1, <2>4, <2>5, <2>6, BackupLeftAlone
  <2> QED BY <1>2, <2>5, <2>6, <2>7 DEF BackedUp, ui
<1>6. CASE Activate \/ Deactivate
  <2>1. \/ doc' = doc /\ imports' = imports
        \/ doc' = Import(doc) /\ doc.loaded
    BY <1>6 DEF Activate, Deactivate, waits
  <2>2. CASE doc' = doc /\ imports' = imports
    BY <1>1, <1>2, <2>2 DEF BackedUp, ui
  <2>3. CASE doc' = Import(doc) /\ doc.loaded
    <3>1. OnlyChanges({"needsImport"}, doc, doc')
      BY <1>1, <2>3, ImportDoc
    <3>2. /\ OnlyChanges({"openCount", "observing", "events", "snapshot", "needsImport",
                        "session", "onDisk"}, doc, doc')
          /\ doc'.loaded = doc.loaded /\ doc'.session = doc.session /\ doc'.onDisk = doc.onDisk
      BY <3>1 DEF OnlyChanges, Fields, Closed
    <3>3. doc'.onDisk
      BY <1>1, <3>2 DEF BackupGood
    <3>4. BackupGood(doc', tab, group)
      BY <1>1, <2>3, <3>2, <3>3, BackupLeftAlone
    <3> QED BY <1>2, <2>3, <3>2, <3>4 DEF BackedUp, ui
  <2> QED BY <2>1, <2>2, <2>3
<1> QED BY <1>3, <1>4, <1>5, <1>6 DEF ExternalDelete

(* Tabs and loads.                                                           *)
LEMMA TabBackedUp ==
  ASSUME Kept, BackedUp, OpenTab \/ SelectTab \/ SelectOtherTab \/ CloseTab \/ LoadFailed
  PROVE  BackedUp'
<1>1. /\ DocOK(doc) /\ doc \in Documents /\ BackupGood(doc, tab, group) /\ disk # {}
      /\ tab \in BOOLEAN /\ view \in BOOLEAN /\ OthersOK /\ Held
  BY DEF Kept, BackedUp, DocOK, OthersOK
<1>2. /\ UNCHANGED <<group, disk, imports>> /\ (group # "closed" => view')
      /\ tab' \in BOOLEAN
  BY <1>1 DEF BackedUp, OpenTab, SelectTab, SelectOtherTab, CloseTab, LoadFailed, UserCanAct,
     app, outside, waits
<1>3. doc.onDisk /\ (~doc.loaded /\ doc.backup # {} => doc.events = {} /\ ~doc.observing)
  BY <1>1 DEF BackupGood
<1>4. ASSUME NEW e, OnlyChanges({"openCount", "session"}, doc, e),
             doc.session => e.session,
             NEW u, u => tab \/ e.session, doc' = e, tab' = u
      PROVE  BackedUp'
  <2>1. /\ OnlyChanges({"openCount", "observing", "events", "snapshot", "needsImport",
                        "session", "onDisk"}, doc, e)
        /\ e.onDisk /\ e.loaded = doc.loaded /\ e.backup = doc.backup
        /\ e.events = doc.events /\ e.observing = doc.observing
    BY <1>3, <1>4 DEF OnlyChanges, Fields, Closed
  <2>2. e.loaded \/ e.backup = {} \/ (e.events = {} /\ ~e.observing)
    BY <1>3, <2>1
  <2>3. BackupGood(e, u, group)
    BY <1>1, <1>4, <2>1, <2>2, BackupLeftAlone
  <2> QED BY <1>1, <1>2, <1>4, <2>1, <2>3 DEF BackedUp
<1>5. CASE OpenTab
  <2> DEFINE e == [doc EXCEPT !.openCount = @ + 1]
  <2>1. e \in Documents /\ OnlyChanges({"openCount"}, doc, e)
    BY <1>1, OpenedDoc
  <2>2. doc' = Notified(e) /\ tab' = TRUE
    BY <1>5 DEF OpenTab
  <2> HIDE DEF e
  <2>3. OnlyChanges({"session"}, e, doc') /\ doc'.session
    BY <2>1, <2>2, NotifiedDoc
  <2>4. OnlyChanges({"openCount", "session"}, doc, doc')
    BY <2>1, <2>3 DEF OnlyChanges
  <2> QED BY <1>4, <2>2, <2>3, <2>4
<1>6. CASE SelectTab
  <2>1. \/ OnlyChanges({"openCount"}, doc, doc')
        \/ /\ doc.backup # {} /\ ~doc.loaded /\ doc'.backup = doc.backup
           /\ doc'.loaded /\ doc'.onDisk = (disk # {}) /\ doc'.text = The(doc.backup).text
           /\ doc'.timer
    BY <1>1, <1>6, SelectTabEffect
  <2>2. tab' = tab
    BY <1>6 DEF SelectTab
  <2>3. CASE OnlyChanges({"openCount"}, doc, doc')
    <3>1. OnlyChanges({"openCount", "session"}, doc, doc') /\ doc'.session = doc.session
      BY <2>3 DEF OnlyChanges, Fields, Closed
    <3> QED BY <1>4, <2>2, <3>1
  <2>4. CASE /\ doc.backup # {} /\ ~doc.loaded /\ doc'.backup = doc.backup
             /\ doc'.loaded /\ doc'.onDisk = (disk # {}) /\ doc'.text = The(doc.backup).text
             /\ doc'.timer
    <3>1. doc.backup = {The(doc.backup)}
      BY <1>1, <2>4, OptionalParts DEF Documents
    <3>2. \A b \in doc'.backup : b.modified /\ b.text = doc'.text
      BY <1>1, <2>4, <3>1 DEF BackupGood
    <3>3. BackupGood(doc', tab', group')
      BY <1>1, <2>4, <3>2, BackupAfterLoading
    <3> QED BY <1>1, <1>2, <2>4, <3>3 DEF BackedUp
  <2> QED BY <2>1, <2>3, <2>4
<1>7. CASE SelectOtherTab \/ CloseTab \/ LoadFailed
  <2>1. /\ tab' => tab
        /\ \/ doc' = Close(doc) /\ (tab \/ view \/ load.handlers # 0)
           \/ doc' = Close(Close(doc)) /\ tab /\ (view \/ load.handlers # 0)
    <3>1. LoadFailed => load.handlers # 0
      BY <1>1 DEF Held, LoadFailed
    <3> QED BY <1>7, <3>1 DEF SelectOtherTab, CloseTab, LoadFailed
  <2>2. /\ load.handlers \in Nat /\ Min1(tab) \in 0..1 /\ Min1(view) \in 0..1
        /\ Cardinality(UnderWay) \in Nat /\ (tab => Min1(tab) = 1) /\ (view => Min1(view) = 1)
        /\ doc.openCount \in Nat
        /\ doc.openCount >= Min1(tab) + Min1(view) + load.handlers + Cardinality(UnderWay)
    BY <1>1, HoldersFacts DEF Held, Holders, Documents
  <2>3. CASE doc' = Close(doc) /\ (tab \/ view \/ load.handlers # 0)
    <3>1. doc.openCount > 0
      BY <2>2, <2>3
    <3>2. BackupGood(doc', tab', group')
      BY <1>1, <1>2, <2>1, <2>3, <3>1, BackupAfterClose
    <3>3. DocOK(doc') /\ (doc'.openCount > 0 => OnlyChanges({"openCount"}, doc, doc'))
          /\ (doc'.openCount = 0 => doc'.backup = {}) /\ doc'.openCount \in Nat
      BY <1>1, <2>2, <2>3, <3>1, CloseOK
    <3>4. doc'.backup = {} \/ (doc'.backup = doc.backup /\ doc'.loaded = doc.loaded)
      BY <3>3 DEF OnlyChanges, Fields, Closed
    <3> QED BY <1>1, <1>2, <3>2, <3>4 DEF BackedUp
  <2>4. CASE doc' = Close(Close(doc)) /\ tab /\ (view \/ load.handlers # 0)
    <3> DEFINE d == Close(doc)
    <3>0. Min1(tab) = 1 /\ (Min1(view) = 1 \/ load.handlers >= 1)
      <4>1. Min1(tab) = 1
        BY <2>4 DEF Min1
      <4>2. CASE view
        <5>1. Min1(view) = 1
          BY <4>2 DEF Min1
        <5> QED BY <4>1, <5>1
      <4>3. CASE load.handlers # 0
        BY <2>2, <4>1, <4>3
      <4> QED BY <2>4, <4>2, <4>3
    <3>1. doc.openCount > 1 /\ doc.openCount > 0 /\ doc.openCount \in Nat
      <4>1. doc.openCount >= 1 + Min1(view) + load.handlers
        BY <2>2, <3>0
      <4>2. CASE Min1(view) = 1
        BY <2>2, <4>1, <4>2
      <4>3. CASE load.handlers >= 1
        BY <2>2, <4>1, <4>3
      <4> QED BY <3>0, <4>2, <4>3
    <3>2. BackupGood(d, tab', group')
      BY <1>1, <1>2, <2>1, <3>1, BackupAfterClose
    <3>3. DocOK(d) /\ d.openCount > 0 /\ OnlyChanges({"openCount"}, doc, d) /\ d.openCount \in Nat
      BY <1>1, <2>2, <3>1, CloseOK
    <3>4. doc' = Close(d)
      BY <2>4
    <3> HIDE DEF d
    <3>5. BackupGood(doc', tab', group')
      BY <1>2, <3>2, <3>3, <3>4, BackupAfterClose
    <3>6. DocOK(doc') /\ (doc'.openCount > 0 => OnlyChanges({"openCount"}, d, doc'))
          /\ (doc'.openCount = 0 => doc'.backup = {}) /\ doc'.openCount \in Nat
      BY <3>3, <3>4, CloseOK
    <3>7. doc'.backup = {} \/ (doc'.backup = doc.backup /\ doc'.loaded = doc.loaded)
      BY <3>3, <3>6 DEF OnlyChanges, Fields, Closed
    <3> QED BY <1>1, <1>2, <3>5, <3>7 DEF BackedUp
  <2> QED BY <2>1, <2>3, <2>4
<1> QED BY <1>5, <1>6, <1>7

(* Workers read and write, and the program dies.                             *)
LEMMA WorkersBackedUp ==
  ASSUME Kept, BackedUp,
         LoadRead \/ LoadDone \/ Crash \/ \E i \in SaveIds : StartSave(i) \/ WriteSave(i) \/ DidSave(i)
  PROVE  BackedUp'
<1>1. /\ DocOK(doc) /\ doc \in Documents /\ BackupGood(doc, tab, group) /\ disk # {}
      /\ tab \in BOOLEAN /\ OthersOK /\ Held
  BY DEF Kept, BackedUp, DocOK, OthersOK
<1>2. doc.onDisk /\ (~doc.loaded /\ doc.backup # {} => doc.events = {} /\ ~doc.observing)
  BY <1>1 DEF BackupGood
<1>3. CASE LoadRead
  BY <1>3 DEF LoadRead, BackedUp, ui, app, outside, waits
<1>4. CASE LoadDone
  <2>1. load.handlers # 0 /\ doc.backup = {} /\ ~doc.loaded /\ ~view
    BY <1>1, <1>4 DEF LoadDone, Held
  <2>2. /\ load.handlers \in Nat /\ load.text \in Text /\ Min1(tab) \in 0..1 /\ Min1(view) \in 0..1
        /\ Cardinality(UnderWay) \in Nat /\ doc.openCount \in Nat
        /\ doc.openCount >= Min1(tab) + Min1(view) + load.handlers + Cardinality(UnderWay)
    BY <1>1, HoldersFacts DEF Held, Holders, Documents, OthersOK, Loads
  <2>3. doc.openCount >= load.handlers
    BY <2>2
  <2>4. doc'.backup = {} /\ doc'.loaded /\ doc'.onDisk /\ doc'.timer
    BY <1>1, <1>4, <2>1, <2>2, <2>3, LoadDoneEffect
  <2>5. BackupGood(doc', tab', group')
    BY <2>4, BackupAfterLoading
  <2> QED BY <1>1, <1>4, <2>4, <2>5 DEF LoadDone, BackedUp
<1>5. ASSUME NEW i \in SaveIds, StartSave(i) PROVE BackedUp'
  <2>1. /\ doc'.loaded /\ ~doc'.observing /\ UserCanAct
        /\ \/ /\ doc.loaded
              /\ OnlyChanges({"openCount", "observing", "events"}, doc, doc')
           \/ /\ ~doc.loaded /\ doc.backup # {}
              /\ doc'.text = The(doc.backup).text
              /\ doc'.backup = doc.backup /\ doc'.onDisk = (disk # {}) /\ doc'.timer
    BY <1>1, <1>5, StartSaveEffect
  <2>2. UNCHANGED <<tab, view, group, disk>> /\ group = "closed"
    BY <1>5, <2>1 DEF StartSave, ui, app, outside, UserCanAct
  <2>3. CASE doc.loaded /\ OnlyChanges({"openCount", "observing", "events"}, doc, doc')
    <3>1. /\ OnlyChanges({"openCount", "observing", "events", "snapshot", "needsImport",
                          "session", "onDisk"}, doc, doc')
          /\ doc'.onDisk /\ doc'.session = doc.session
      BY <1>2, <2>3 DEF OnlyChanges, Fields, Closed
    <3>2. BackupGood(doc', tab, group)
      BY <1>1, <2>1, <3>1, BackupLeftAlone
    <3> QED BY <1>1, <2>1, <2>2, <3>2 DEF BackedUp
  <2>4. CASE /\ ~doc.loaded /\ doc.backup # {}
             /\ doc'.text = The(doc.backup).text
             /\ doc'.backup = doc.backup /\ doc'.onDisk = (disk # {}) /\ doc'.timer
    <3>1. doc.backup = {The(doc.backup)}
      BY <1>1, <2>4, OptionalParts DEF Documents
    <3>2. \A b \in doc'.backup : b.modified /\ b.text = doc'.text
      BY <1>1, <2>4, <3>1 DEF BackupGood
    <3>3. BackupGood(doc', tab, group)
      BY <1>1, <2>1, <2>4, <3>2, BackupAfterLoading
    <3> QED BY <1>1, <2>1, <2>2, <3>3 DEF BackedUp
  <2> QED BY <2>1, <2>3, <2>4
<1>6. ASSUME NEW i \in SaveIds, WriteSave(i) PROVE BackedUp'
  <2>1. /\ UNCHANGED <<tab, view, group, imports>> /\ disk' # {}
        /\ doc' = doc \/ doc' = Noticed(doc, "write")
    BY <1>1, <1>6 DEF WriteSave, ui, app, waits
  <2>2. doc.loaded
    BY <1>1, <1>6 DEF Held, Saving, WriteSave
  <2>3. OnlyChanges({"events"}, doc, doc')
    BY <1>1, <2>1, NoticedDoc DEF OnlyChanges
  <2>4. /\ OnlyChanges({"openCount", "observing", "events", "snapshot", "needsImport",
                        "session", "onDisk"}, doc, doc')
        /\ doc'.onDisk /\ doc'.session = doc.session /\ doc'.loaded
    BY <1>2, <2>2, <2>3 DEF OnlyChanges, Fields, Closed
  <2>5. BackupGood(doc', tab, group)
    BY <1>1, <2>4, BackupLeftAlone
  <2> QED BY <1>1, <2>1, <2>4, <2>5 DEF BackedUp
<1>7. ASSUME NEW i \in SaveIds, DidSave(i) PROVE BackedUp'
  <2>1. doc.loaded /\ UNCHANGED <<tab, view, group, imports, disk>>
    BY <1>1, <1>7 DEF Held, Saving, DidSave, ui, app, waits, outside
  <2>2. PICK m \in Documents :
         /\ doc' = Close(m)
         /\ IF saves[i].stage = "written"
            THEN /\ OnlyChanges({"onDisk", "saved", "snapshot", "session", "timer", "backup",
                                 "observing", "events"}, doc, m)
                 /\ m.onDisk /\ m.saved = doc.revision
                 /\ m.session /\ ~m.timer /\ m.backup = {}
            ELSE OnlyChanges({"observing", "events"}, doc, m)
    BY <1>1, <1>7, <2>1, DidSaveEffect
  <2>3. /\ m.openCount = doc.openCount /\ m.loaded /\ m.revision = doc.revision
        /\ m.backupRevision = doc.backupRevision /\ m.saved \in {doc.saved, doc.revision}
    BY <2>1, <2>2 DEF OnlyChanges, Fields, Closed
  <2>4. doc.openCount > 0 /\ doc.openCount \in Nat
    BY <1>1, <2>1 DEF DocOK, Documents
  <2>5. DocOK(m)
    BY <1>1, <2>1, <2>3, <2>4 DEF DocOK
  <2>6. BackupGood(m, tab, group)
    <3>1. CASE saves[i].stage = "written"
      BY <2>2, <2>3, <3>1 DEF BackupGood
    <3>2. CASE saves[i].stage # "written"
      <4>1. OnlyChanges({"observing", "events"}, doc, m)
        BY <2>2, <3>2
      <4>2. /\ OnlyChanges({"openCount", "observing", "events", "snapshot", "needsImport",
                            "session", "onDisk"}, doc, m)
            /\ m.onDisk /\ m.session = doc.session
        BY <1>2, <4>1 DEF OnlyChanges, Fields, Closed
      <4> QED BY <1>1, <2>3, <4>2, BackupLeftAlone
    <3> QED BY <3>1, <3>2
  <2>7. BackupGood(doc', tab', group')
    BY <1>1, <2>1, <2>2, <2>3, <2>4, <2>5, <2>6, BackupAfterClose
  <2>8. (doc'.openCount > 0 => OnlyChanges({"openCount"}, m, doc')) /\ doc'.openCount \in Nat
        /\ (doc'.openCount = 0 => doc'.backup = {})
    BY <2>2, <2>3, <2>4, <2>5, CloseOK
  <2>9. doc'.backup = {} \/ doc'.loaded
    BY <2>3, <2>8 DEF OnlyChanges, Fields, Closed
  <2> QED BY <1>1, <2>1, <2>7, <2>9 DEF BackedUp
<1>8. CASE Crash
  <2> DEFINE n == Min1(doc.backup # {})
             s == IF \E b \in doc.backup : b.modified THEN -1 ELSE 0
  <2>1. /\ doc' = [Closed EXCEPT !.backup = doc.backup, !.openCount = n,
                                 !.onDisk = disk # {}, !.saved = s]
        /\ group' = "closed" /\ imports' = <<>> /\ disk' = disk
    BY <1>8 DEF Crash, outside
  <2>2. Closed \in Documents /\ ~Closed.loaded /\ Closed.events = {} /\ ~Closed.observing
        /\ Closed.revision = 0
    BY ClosedType DEF Closed
  <2>3. doc.backup # {} => s = -1
    BY <1>1 DEF BackupGood
  <2> HIDE DEF n, s
  <2>4. /\ doc'.backup = doc.backup /\ ~doc'.loaded /\ doc'.events = {} /\ ~doc'.observing
        /\ doc'.revision = 0 /\ doc'.saved = s /\ doc'.onDisk = (disk # {})
    BY <2>1, <2>2 DEF Documents
  <2>5. BackupGood(doc', tab', group')
    <3>1. doc'.backup # {} => doc'.revision # doc'.saved
      BY <2>3, <2>4
    <3>2. \A b \in doc'.backup : b.modified
      BY <1>1, <2>4 DEF BackupGood
    <3>3. doc'.onDisk
      BY <1>1, <2>4
    <3> QED BY <2>4, <3>1, <3>2, <3>3 DEF BackupGood
  <2> QED BY <1>1, <2>1, <2>5 DEF BackedUp
<1> QED BY <1>3, <1>4, <1>5, <1>6, <1>7, <1>8

(* Importing.                                                                *)
LEMMA ImportBackedUp ==
  ASSUME Kept, ImportsOK, BackedUp,
         (\E i \in 1..Len(imports) : ImportRead(i)) \/ ImportShow \/ ImportReturn
  PROVE  BackedUp'
<1>1. /\ DocOK(doc) /\ doc \in Documents /\ BackupGood(doc, tab, group) /\ disk # {}
  BY DEF Kept, BackedUp, DocOK
<1>2. /\ UNCHANGED <<tab, view, group, disk>>
  BY DEF ImportRead, ImportShow, ImportReturn, ui, app, outside
<1>3. doc.loaded \/ doc.backup = {}
  <2>1. 1..Len(imports) # {} \/ imports # <<>>
    BY ShownImports DEF ImportReturn
  <2>2. imports # <<>>
    <3>1. Len(<<>>) = 0
      OBVIOUS
    <3> QED BY <2>1, <3>1
  <2> QED BY <2>2 DEF BackedUp
<1>4. ASSUME doc.loaded,
             OnlyChanges({"text", "timer", "session", "revision", "needsImport", "saved",
                          "snapshot"}, doc, doc'),
             doc'.session,
             doc'.revision = doc.revision + 1 \/ (doc'.revision = doc.revision /\ doc'.text = doc.text)
      PROVE  BackedUp'
  <2>1. BackupGood(doc', tab, group)
    BY <1>1, <1>4, BackupAfterChange
  <2>2. doc'.loaded = doc.loaded
    BY <1>4 DEF OnlyChanges, Fields, Closed
  <2> QED BY <1>1, <1>2, <1>4, <2>1, <2>2 DEF BackedUp
<1>5. CASE doc' = doc
  BY <1>1, <1>2, <1>3, <1>5 DEF BackedUp
<1>6. CASE ImportShow
  <2>1. imports[Head(replies)].text \in Text
    BY <1>6, ShownImports
  <2>2. \/ doc' = doc
        \/ /\ doc.loaded
           /\ OnlyChanges({"saved", "snapshot", "session"}, doc, doc') /\ doc'.session
        \/ /\ doc.loaded
           /\ OnlyChanges({"text", "timer", "session", "revision", "needsImport",
                           "saved", "snapshot"}, doc, doc')
           /\ doc'.revision = doc.revision + 1 /\ doc'.session
    BY <1>1, <1>6, <2>1, ShowEffect
  <2>3. OnlyChanges({"saved", "snapshot", "session"}, doc, doc')
          => /\ OnlyChanges({"text", "timer", "session", "revision", "needsImport", "saved",
                             "snapshot"}, doc, doc')
             /\ doc'.revision = doc.revision /\ doc'.text = doc.text
    BY DEF OnlyChanges, Fields, Closed
  <2> QED BY <1>4, <1>5, <2>2, <2>3
<1>7. CASE ImportReturn
  <2>1. doc' = doc \/ \E kind \in Reloads : doc' = ReloadEnds(doc, kind)
    BY <1>7, ReturnImports
  <2>2. ASSUME NEW kind \in Reloads, doc' = ReloadEnds(doc, kind) PROVE BackedUp'
    <3>1. /\ OnlyChanges({"saved", "snapshot", "session"}, doc, doc') /\ doc'.session
      BY <1>1, <2>2, ReloadEndsDoc DEF Reloads
    <3>2. /\ OnlyChanges({"text", "timer", "session", "revision", "needsImport", "saved",
                          "snapshot"}, doc, doc')
          /\ doc'.revision = doc.revision /\ doc'.text = doc.text
          /\ doc'.loaded = doc.loaded /\ doc'.backup = doc.backup /\ doc'.onDisk = doc.onDisk
      BY <3>1 DEF OnlyChanges, Fields, Closed
    <3>3. CASE doc.loaded
      BY <1>4, <3>1, <3>2, <3>3
    <3>4. CASE ~doc.loaded
      <4>1. doc'.backup = {} /\ ~doc'.loaded /\ doc'.onDisk
        BY <1>1, <1>3, <3>2, <3>4 DEF BackupGood
      <4>2. BackupGood(doc', tab, group)
        BY <4>1 DEF BackupGood
      <4> QED BY <1>1, <1>2, <4>1, <4>2 DEF BackedUp
    <3> QED BY <3>3, <3>4
  <2> QED BY <1>5, <2>1, <2>2
<1>8. CASE \E i \in 1..Len(imports) : ImportRead(i)
  BY <1>5, <1>8 DEF ImportRead
<1> QED BY <1>6, <1>7, <1>8

LEMMA BackedUpStep ==
  ASSUME Kept, ImportsOK, BackedUp, "deleting" \notin Allow, [Next]_vars
  PROVE  BackedUp'
<1>1. CASE UNCHANGED vars
  BY <1>1 DEF vars, BackedUp
<1> QED BY <1>1, EditBackedUp, EventBackedUp, TabBackedUp, WorkersBackedUp, ImportBackedUp DEF Next

LEMMA InitBackedUp == Init => BackedUp
BY DEF Init, BackedUp, BackupGood, Closed

(* Unsaved changes are in the backup once the timers have fired              *)
(* (OakDocument.mm:719 and scheduleSessionBackup), and the backup says that  *)
(* they are changes, so that the next start does not take them for what is   *)
(* in the file.  Another program must not delete the file: a backup that is  *)
(* taken of an unchanged text whose file is gone is kept, without its        *)
(* changes being marked, when a merge under way then marks the text as       *)
(* changed.                                                                  *)
THEOREM BackupHasChanges ==
  ASSUME "deleting" \notin Allow
  PROVE  Spec => []ChangesAreBackedUp
<1>1. Kept /\ BackedUp => ChangesAreBackedUp
  <2> SUFFICES ASSUME Kept, BackedUp, doc.loaded, tab, Edited(doc), ~doc.timer, ~doc.session,
                      group = "closed"
               PROVE  \E b \in doc.backup : b.text = doc.text /\ b.modified
    BY DEF ChangesAreBackedUp
  <2>1. doc.revision # doc.saved /\ BackupGood(doc, tab, group)
    BY OnDiskEdited DEF BackedUp
  <2>2. doc.backup # {} /\ \A b \in doc.backup : b.text = doc.text /\ b.modified
    BY <2>1 DEF BackupGood
  <2> QED BY <2>2
<1>2. Kept /\ ImportsOK /\ BackedUp /\ [Next]_vars => Kept' /\ ImportsOK' /\ BackedUp'
  BY KeptStep, BackedUpStep
<1> QED BY <1>1, <1>2, InitKept, InitBackedUp, PTL DEF Spec

-----------------------------------------------------------------------------
(* Waits that do not nest: at most one save, and nobody leaves during a      *)
(* macro.                                                                    *)

OneSave == \A i, j \in SaveIds : i = j

Plain(s) == \A i \in 1..Len(s) : s[i].resumes = 0 /\ s[i].stage \notin Reloads

(* An import that was put off waits for the end of the undo group or for the *)
(* application to become active; the file is observed while the document is  *)
(* loaded and not being saved; and no wait is inside a reload.               *)
Orderly ==
  /\ wake => ~active /\ doc.needsImport
  /\ ~active => group = "closed" /\ imports = <<>>
  /\ doc.needsImport => doc.loaded /\ ~Saving /\ (group # "closed" \/ wake)
  /\ doc.observing <=> (doc.loaded /\ ~Saving)
  /\ doc.events # {} => doc.observing
  /\ imports # <<>> => group = "closed" /\ doc.loaded /\ ~Saving
  /\ Plain(imports)

LEMMA PlainWait ==
  ASSUME NEW s \in Seq(ImportRecords), Plain(s), NEW inQueue
  PROVE  /\ Plain(Waits(s, inQueue, 0)) /\ Waits(s, inQueue, 0) # <<>>
         /\ Len(Waits(s, inQueue, 0)) = Len(s) + 1
         /\ Waits(s, inQueue, 0)[Len(s) + 1].stage = "reading"
         /\ \A i \in 1..Len(s) : Waits(s, inQueue, 0)[i] = s[i]
<1> DEFINE w == [stage |-> "reading", text |-> {}, inQueue |-> inQueue, resumes |-> 0]
           t == Append(s, w)
<1>1. Len(s) \in Nat /\ Len(t) = Len(s) + 1
  OBVIOUS
<1>2. \A i \in 1..Len(s) : t[i] = s[i]
  OBVIOUS
<1>3. t[Len(s) + 1] = w
  OBVIOUS
<1>4. w.resumes = 0 /\ w.stage = "reading" /\ w.stage \notin Reloads
  BY DEF Reloads
<1> HIDE DEF w
<1>5. Plain(t)
  <2> SUFFICES ASSUME NEW i \in 1..Len(t) PROVE t[i].resumes = 0 /\ t[i].stage \notin Reloads
    BY DEF Plain
  <2>1. i \in 1..Len(s) \/ i = Len(s) + 1
    BY <1>1
  <2> QED BY <1>2, <1>3, <1>4, <2>1 DEF Plain
<1>6. t # <<>>
  <2> HIDE DEF t
  <2> SUFFICES ASSUME t = <<>> PROVE FALSE
    OBVIOUS
  <2>1. Len(t) = 0
    OBVIOUS
  <2> QED BY <1>1, <2>1
<1>7. Waits(s, inQueue, 0) = t
  BY DEF Waits, w
<1> HIDE DEF t
<1> QED BY <1>1, <1>2, <1>3, <1>4, <1>5, <1>6, <1>7

LEMMA PlainMark ==
  ASSUME NEW s \in Seq(ImportRecords), Plain(s), NEW i \in 1..Len(s), NEW w \in ImportRecords,
         w.resumes = s[i].resumes, w.stage \notin Reloads
  PROVE  LET t == [s EXCEPT ![i] = w] IN
         Plain(t) /\ Len(t) = Len(s) /\ t[i] = w /\ \A j \in 1..Len(s) : j # i => t[j] = s[j]
<1> DEFINE t == [s EXCEPT ![i] = w]
<1>1. Len(t) = Len(s) /\ t[i] = w /\ \A j \in 1..Len(s) : j # i => t[j] = s[j]
  OBVIOUS
<1>2. Plain(t)
  <2> HIDE DEF t
  <2> QED BY <1>1 DEF Plain
<1> QED BY <1>1, <1>2

LEMMA PlainPop ==
  ASSUME NEW s \in Seq(ImportRecords), Plain(s), s # <<>>
  PROVE  LET t == SubSeq(s, 1, Len(s) - 1) IN
         Plain(t) /\ Len(t) = Len(s) - 1 /\ \A j \in 1..Len(t) : t[j] = s[j]
<1> DEFINE t == SubSeq(s, 1, Len(s) - 1)
<1>1. Len(s) \in Nat \ {0}
  BY EmptySeq
<1>2. Len(t) = Len(s) - 1 /\ \A j \in 1..Len(t) : t[j] = s[j]
  <2> DEFINE n == Len(s) - 1
  <2>1. n \in Nat /\ n \in Int /\ 1 \in Int /\ \A i \in 1..n : s[i] \in ImportRecords
    BY <1>1
  <2>2. /\ Len(SubSeq(s, 1, n)) = IF 1 <= n THEN n - 1 + 1 ELSE 0
        /\ \A i \in 1..n - 1 + 1 : SubSeq(s, 1, n)[i] = s[1 + i - 1]
    <3> HIDE DEF n
    <3> QED BY <2>1, SubSeqProperties
  <2>3. Len(SubSeq(s, 1, n)) = n /\ \A i \in 1..n : SubSeq(s, 1, n)[i] = s[i]
    <3> HIDE DEF n
    <3>1. 1..n - 1 + 1 = 1..n /\ \A i \in 1..n : 1 + i - 1 = i
      BY <2>1
    <3> QED BY <2>1, <2>2, <3>1
  <2> QED BY <2>3
<1>3. Plain(t)
  <2> HIDE DEF t
  <2> QED BY <1>1, <1>2 DEF Plain
<1> QED BY <1>2, <1>3

(* Nothing that it speaks of changes.                                        *)
LEMMA OrderlyLeftAlone ==
  ASSUME Orderly, UNCHANGED <<wake, active, group, imports>>, Saving' <=> Saving,
         doc'.loaded = doc.loaded, doc'.needsImport <=> doc.needsImport,
         doc'.observing = doc.observing, doc'.events = doc.events
  PROVE  Orderly'
BY DEF Orderly, Plain

(* What the user can act on is not waiting for an import.                    *)
LEMMA NothingPutOff ==
  ASSUME Orderly, UserCanAct PROVE ~doc.needsImport /\ ~wake
BY DEF Orderly, UserCanAct

LEMMA GivenUpDoc ==
  ASSUME Kept, SelectOtherTab \/ CloseTab \/ LoadFailed
  PROVE  /\ doc'.needsImport = doc.needsImport
         /\ \/ OnlyChanges({"openCount"}, doc, doc')
            \/ /\ ~doc'.loaded /\ ~doc'.observing
               /\ doc'.events = IF doc.observing THEN {} ELSE doc.events
<1>1. DocOK(doc) /\ OthersOK /\ doc \in Documents /\ doc.openCount \in Nat
  BY DEF Kept, DocOK, Documents
<1>2. \/ doc' = Close(doc) /\ (tab \/ view \/ load.handlers # 0)
      \/ doc' = Close(Close(doc)) /\ tab /\ (view \/ load.handlers # 0)
  <2>1. LoadFailed => load.handlers # 0
    BY DEF Kept, Held, LoadFailed
  <2> QED BY <2>1 DEF SelectOtherTab, CloseTab, LoadFailed
<1>3. /\ load.handlers \in Nat /\ Min1(tab) \in 0..1 /\ Min1(view) \in 0..1
      /\ Cardinality(UnderWay) \in Nat /\ (tab => Min1(tab) = 1) /\ (view => Min1(view) = 1)
      /\ doc.openCount >= Min1(tab) + Min1(view) + load.handlers + Cardinality(UnderWay)
  BY <1>1, HoldersFacts DEF Kept, Held, Holders
<1>4. CASE doc' = Close(doc) /\ (tab \/ view \/ load.handlers # 0)
  <2>1. doc.openCount > 0
    BY <1>1, <1>3, <1>4
  <2>2. doc.openCount = 1 \/ doc.openCount > 1
    BY <1>1, <2>1
  <2>3. /\ doc'.needsImport = doc.needsImport
        /\ doc.openCount > 1 => OnlyChanges({"openCount"}, doc, doc')
        /\ doc.openCount = 1 => /\ ~doc'.loaded /\ ~doc'.observing
                                /\ doc'.events = IF doc.observing THEN {} ELSE doc.events
    BY <1>1, <1>4, <2>1, CloseDoc
  <2> QED BY <2>2, <2>3
<1>5. CASE doc' = Close(Close(doc)) /\ tab /\ (view \/ load.handlers # 0)
  <2> DEFINE d == Close(doc)
  <2>1. doc.openCount > 1
    <3>1. Min1(tab) = 1 /\ (Min1(view) = 1 \/ load.handlers >= 1)
      <4>1. Min1(tab) = 1
        BY <1>5 DEF Min1
      <4>2. CASE view
        <5>1. Min1(view) = 1
          BY <4>2 DEF Min1
        <5> QED BY <4>1, <5>1
      <4>3. CASE load.handlers # 0
        BY <1>3, <4>1, <4>3
      <4> QED BY <1>5, <4>2, <4>3
    <3>2. doc.openCount >= 1 + Min1(view) + load.handlers
      BY <1>1, <1>3, <3>1
    <3>3. CASE Min1(view) = 1
      BY <1>1, <1>3, <3>2, <3>3
    <3>4. CASE load.handlers >= 1
      BY <1>1, <1>3, <3>2, <3>4
    <3> QED BY <3>1, <3>3, <3>4
  <2>2. /\ d \in Documents /\ d.openCount = doc.openCount - 1 /\ d.needsImport = doc.needsImport
        /\ OnlyChanges({"openCount"}, doc, d)
    BY <1>1, <2>1, CloseDoc
  <2>3. d.observing = doc.observing /\ d.events = doc.events
    BY <2>2 DEF OnlyChanges, Fields, Closed
  <2>4. doc' = Close(d)
    BY <1>5
  <2> HIDE DEF d
  <2>5. d.openCount \in Nat /\ d.openCount > 0 /\ (d.openCount = 1 \/ d.openCount > 1)
    BY <1>1, <2>1, <2>2
  <2>6. /\ doc'.needsImport = d.needsImport
        /\ d.openCount > 1 => OnlyChanges({"openCount"}, d, doc')
        /\ d.openCount = 1 => /\ ~doc'.loaded /\ ~doc'.observing
                              /\ doc'.events = IF d.observing THEN {} ELSE d.events
    BY <2>2, <2>4, <2>5, CloseDoc
  <2>7. OnlyChanges({"openCount"}, d, doc') => OnlyChanges({"openCount"}, doc, doc')
    BY <2>2 DEF OnlyChanges
  <2> QED BY <2>2, <2>3, <2>5, <2>6, <2>7
<1> QED BY <1>2, <1>4, <1>5

LEMMA OrderlyTabs ==
  ASSUME Kept, Orderly, Kept', ImportsOK,
         \/ OpenTab \/ SelectTab \/ SelectOtherTab \/ CloseTab \/ LoadRead \/ LoadDone \/ LoadFailed
  PROVE  Orderly'
<1>1. /\ UNCHANGED <<wake, active, group, imports>> /\ (Saving' <=> Saving) /\ doc \in Documents
  BY DEF Kept, DocOK, OpenTab, SelectTab, SelectOtherTab, CloseTab, LoadRead, LoadDone, LoadFailed,
         app, waits, Saving
<1>2. ~doc.loaded => ~Saving /\ ~doc.needsImport /\ ~doc.observing /\ doc.events = {} /\ imports = <<>>
  BY DEF Orderly, Kept, Held
<1>3. CASE OpenTab
  <2>1. [doc EXCEPT !.openCount = @ + 1] \in Documents
        /\ OnlyChanges({"openCount"}, doc, [doc EXCEPT !.openCount = @ + 1])
    BY <1>1, OpenedDoc
  <2>2. OnlyChanges({"session"}, [doc EXCEPT !.openCount = @ + 1], doc')
    BY <1>3, <2>1, NotifiedDoc DEF OpenTab
  <2>3. /\ doc'.loaded = doc.loaded /\ doc'.needsImport = doc.needsImport
        /\ doc'.observing = doc.observing /\ doc'.events = doc.events
    BY <2>1, <2>2 DEF OnlyChanges, Fields, Closed
  <2> QED BY <1>1, <2>3, OrderlyLeftAlone
<1>4. CASE LoadRead
  BY <1>1, <1>4, OrderlyLeftAlone DEF LoadRead
<1>5. ASSUME OnlyChanges({"openCount"}, doc, doc') PROVE Orderly'
  <2>1. /\ doc'.loaded = doc.loaded /\ doc'.needsImport = doc.needsImport
        /\ doc'.observing = doc.observing /\ doc'.events = doc.events
    BY <1>5 DEF OnlyChanges, Fields, Closed
  <2> QED BY <1>1, <2>1, OrderlyLeftAlone
<1>6. ASSUME ~doc.loaded, doc'.loaded, doc'.observing,
             doc'.events = (IF doc.observing THEN doc.events ELSE {}),
             doc'.needsImport = doc.needsImport
      PROVE  Orderly'
  <2>1. doc'.events = {} /\ ~doc'.needsImport /\ ~Saving' /\ imports' = <<>>
    BY <1>1, <1>2, <1>6
  <2> QED BY <1>1, <1>2, <1>6, <2>1 DEF Orderly, Plain
<1>7. CASE SelectTab
  <2>1. \/ OnlyChanges({"openCount"}, doc, doc')
        \/ /\ ~doc.loaded /\ doc'.loaded /\ doc'.observing
           /\ doc'.events = (IF doc.observing THEN doc.events ELSE {})
           /\ doc'.needsImport = doc.needsImport
    BY <1>1, <1>7, SelectTabEffect
  <2> QED BY <1>5, <1>6, <2>1
<1>8. CASE LoadDone
  <2>1. /\ load.text \in Text /\ load.handlers \in Nat /\ doc.openCount >= load.handlers
    BY HoldersFacts DEF Kept, Held, OthersOK, Loads, Holders, DocOK, Documents
  <2>2. /\ doc'.loaded /\ doc'.observing
        /\ doc'.events = (IF doc.observing THEN doc.events ELSE {})
        /\ doc'.needsImport = doc.needsImport
    BY <1>1, <1>8, <2>1, LoadDoneEffect
  <2>3. ~doc.loaded
    BY <1>8 DEF Kept, Held, LoadDone
  <2> QED BY <1>6, <2>2, <2>3
<1>9. CASE SelectOtherTab \/ CloseTab \/ LoadFailed
  <2>1. /\ doc'.needsImport = doc.needsImport
        /\ \/ OnlyChanges({"openCount"}, doc, doc')
           \/ /\ ~doc'.loaded /\ ~doc'.observing
              /\ doc'.events = IF doc.observing THEN {} ELSE doc.events
    BY <1>9, GivenUpDoc
  <2>2. ~doc.needsImport /\ imports = <<>>
    <3>1. CASE SelectOtherTab \/ CloseTab
      BY <3>1, NothingPutOff DEF SelectOtherTab, CloseTab, UserCanAct
    <3>2. CASE LoadFailed
      BY <1>2, <3>2 DEF Kept, Held, LoadFailed
    <3> QED BY <1>9, <3>1, <3>2
  <2>3. CASE /\ ~doc'.loaded /\ ~doc'.observing
             /\ doc'.events = IF doc.observing THEN {} ELSE doc.events
    <3>1. doc'.events = {}
      BY <2>3 DEF Orderly
    <3>2. ~doc'.needsImport /\ imports' = <<>>
      BY <1>1, <2>1, <2>2
    <3> QED BY <1>1, <2>1, <2>2, <2>3, <3>1, <3>2 DEF Orderly, Plain
  <2> QED BY <1>5, <2>1, <2>3
<1> QED BY <1>3, <1>4, <1>7, <1>8, <1>9

(* What editing does: only the end of an undo group finds an import that was *)
(* put off, and begins it.                                                   *)
LEMMA EditEffect ==
  ASSUME Kept, Orderly, Edit \/ BeginMacro \/ EndMacro
  PROVE  /\ OnlyChanges({"text", "timer", "session", "revision", "needsImport"}, doc, doc')
         /\ active /\ imports = <<>> /\ ~wake /\ ~doc'.needsImport
         /\ imports' = IF doc.needsImport THEN Waits(imports, FALSE, 0) ELSE imports
         /\ group' # "closed" => ~doc.needsImport
         /\ \/ doc'.revision = doc.revision + 1
            \/ group' = "changed"
            \/ doc'.revision = doc.revision /\ doc'.text = doc.text /\ group # "changed"
         /\ CanEdit \/ (doc'.text = doc.text /\ group' = "closed")
<1>1. doc \in Documents
  BY DEF Kept, DocOK
<1>2. CASE Edit
  <2>1. PICK t \in Toggled(doc.text, MyLines) : EndGroup(BufferReplaced(doc, t), TRUE)
    BY <1>2 DEF Edit
  <2> DEFINE d == BufferReplaced(doc, t)
  <2>2. t \in Text
    BY <1>1, KeystrokeDoc
  <2>3. d \in Documents /\ OnlyChanges({"text", "timer", "session"}, doc, d)
    BY <1>1, <2>2, BufferReplacedDoc
  <2>4. EndGroup(d, TRUE)
    BY <2>1
  <2> HIDE DEF d
  <2>5. OnlyChanges({"revision", "session", "needsImport"}, d, doc') /\ ~doc'.needsImport
        /\ doc'.revision = d.revision + 1
    BY <2>3, <2>4, EndGroupDoc
  <2>6. /\ OnlyChanges({"text", "timer", "session", "revision", "needsImport"}, doc, doc')
        /\ d.needsImport = doc.needsImport /\ d.revision = doc.revision
    BY <2>3, <2>5 DEF OnlyChanges, Fields, Closed
  <2>7. ~doc.needsImport /\ ~wake /\ active /\ imports = <<>> /\ CanEdit
    BY <1>2, NothingPutOff DEF Edit, UserCanAct
  <2>8. BumpRevision(d).needsImport = d.needsImport
    BY <2>3, BumpRevisionDoc DEF OnlyChanges, Fields, Closed
  <2>9. imports' = imports
    BY <2>4, <2>6, <2>7, <2>8 DEF EndGroup
  <2> QED BY <2>5, <2>6, <2>7, <2>9
<1>3. CASE BeginMacro
  <2>1. ~doc.needsImport /\ ~wake /\ active /\ imports = <<>> /\ CanEdit /\ imports' = imports
    BY <1>3, NothingPutOff DEF BeginMacro, UserCanAct, waits
  <2>2. /\ OnlyChanges({"text", "timer", "session"}, doc, doc')
        /\ group' = "changed" \/ doc' = doc
    <3>1. CASE doc' = doc
      BY <3>1 DEF OnlyChanges
    <3>2. CASE group' = "changed" /\ \E t \in Toggled(doc.text, MyLines) : doc' = BufferReplaced(doc, t)
      <4>1. PICK t \in Toggled(doc.text, MyLines) : doc' = BufferReplaced(doc, t)
        BY <3>2
      <4>2. t \in Text
        BY <1>1, KeystrokeDoc
      <4> QED BY <1>1, <3>2, <4>1, <4>2, BufferReplacedDoc
    <3> QED BY <1>3, <3>1, <3>2 DEF BeginMacro
  <2>3. OnlyChanges({"text", "timer", "session", "revision", "needsImport"}, doc, doc')
        /\ doc'.needsImport = doc.needsImport
    BY <2>2 DEF OnlyChanges, Fields, Closed
  <2>4. group # "changed"
    BY <1>3 DEF BeginMacro, UserCanAct
  <2> QED BY <2>1, <2>2, <2>3, <2>4
<1>4. CASE EndMacro
  <2> DEFINE changed == (group = "changed")
  <2>1. changed \in BOOLEAN /\ EndGroup(doc, changed) /\ imports = <<>> /\ group' = "closed"
    BY <1>4 DEF EndMacro
  <2>2. active /\ ~wake
    BY <1>4 DEF EndMacro, Orderly
  <2> HIDE DEF changed
  <2>3. OnlyChanges({"revision", "session", "needsImport"}, doc, doc') /\ ~doc'.needsImport
        /\ doc'.revision = IF changed THEN doc.revision + 1 ELSE doc.revision
    BY <1>1, <2>1, EndGroupDoc
  <2>4. OnlyChanges({"text", "timer", "session", "revision", "needsImport"}, doc, doc')
        /\ doc'.text = doc.text
    BY <2>3 DEF OnlyChanges, Fields, Closed
  <2>5. (IF changed THEN BumpRevision(doc) ELSE doc).needsImport = doc.needsImport
    BY <1>1, BumpRevisionDoc DEF OnlyChanges, Fields, Closed
  <2>6. imports' = IF doc.needsImport THEN Waits(imports, FALSE, 0) ELSE imports
    BY <2>1, <2>5 DEF EndGroup
  <2>7. changed <=> group = "changed"
    BY DEF changed
  <2> QED BY <2>1, <2>2, <2>3, <2>4, <2>6, <2>7
<1> QED BY <1>2, <1>3, <1>4

LEMMA OrderlyEdits ==
  ASSUME Kept, Orderly, ImportsOK, Edit \/ BeginMacro \/ EndMacro \/ BackupTimerFires \/ SessionTimerFires
  PROVE  Orderly'
<1>1. /\ UNCHANGED <<active, wake>> /\ (Saving' <=> Saving) /\ doc \in Documents
      /\ imports \in Seq(ImportRecords)
  BY DEF Kept, DocOK, Edit, BeginMacro, EndMacro, BackupTimerFires, SessionTimerFires, app, Saving,
         ImportsOK, StackOK
<1>2. CASE BackupTimerFires \/ SessionTimerFires
  <2>1. OnlyChanges({"timer", "session", "backup", "backupRevision"}, doc, doc')
    BY <1>1, <1>2, TimersEffect DEF Kept, DocOK
  <2>2. /\ doc'.loaded = doc.loaded /\ doc'.needsImport = doc.needsImport
        /\ doc'.observing = doc.observing /\ doc'.events = doc.events
    BY <2>1 DEF OnlyChanges, Fields, Closed
  <2>3. UNCHANGED <<group, imports>>
    BY <1>2 DEF BackupTimerFires, SessionTimerFires, app, waits
  <2> QED BY <1>1, <2>2, <2>3, OrderlyLeftAlone
<1>3. CASE Edit \/ BeginMacro \/ EndMacro
  <2>1. /\ OnlyChanges({"text", "timer", "session", "revision", "needsImport"}, doc, doc')
        /\ active /\ imports = <<>> /\ ~wake /\ ~doc'.needsImport
        /\ imports' = (IF doc.needsImport THEN Waits(imports, FALSE, 0) ELSE imports)
        /\ group' # "closed" => ~doc.needsImport
    BY <1>3, EditEffect
  <2>2. /\ doc'.loaded = doc.loaded
        /\ doc'.observing = doc.observing /\ doc'.events = doc.events
    BY <2>1 DEF OnlyChanges, Fields, Closed
  <2>3. Plain(imports') /\ (imports' # <<>> => doc.needsImport)
    BY <1>1, <2>1, PlainWait DEF Orderly
  <2> QED BY <1>1, <2>1, <2>2, <2>3 DEF Orderly
<1> QED BY <1>2, <1>3

LEMMA OrderlyEvents ==
  ASSUME Kept, Orderly, ImportsOK, "leaving" \notin Allow,
         ExternalWrite \/ ExternalDelete \/ FileDeleted \/ FileWritten \/ Activate \/ Deactivate
  PROVE  Orderly'
<1>1. /\ (Saving' <=> Saving) /\ doc \in Documents /\ imports \in Seq(ImportRecords)
  BY DEF Kept, DocOK, ExternalWrite, ExternalDelete, FileDeleted, FileWritten, Activate, Deactivate,
         Saving, ImportsOK, StackOK
<1>2. CASE ExternalWrite \/ ExternalDelete
  <2>1. UNCHANGED <<wake, active, group, imports>>
    BY <1>2 DEF ExternalWrite, ExternalDelete, app, waits
  <2>2. /\ OnlyChanges({"events"}, doc, doc') /\ (doc'.events # {} => doc.observing)
    <3>1. PICK event \in {"write", "delete"} : doc' = Noticed(doc, event)
      BY <1>2 DEF ExternalWrite, ExternalDelete
    <3>2. /\ OnlyChanges({"events"}, doc, doc')
          /\ doc'.events = IF doc.observing THEN doc.events \cup {event} ELSE doc.events
      BY <1>1, <3>1, NoticedDoc
    <3> QED BY <3>2 DEF Orderly
  <2>3. /\ doc'.loaded = doc.loaded /\ doc'.needsImport = doc.needsImport
        /\ doc'.observing = doc.observing
    BY <2>2 DEF OnlyChanges, Fields, Closed
  <2> QED BY <1>1, <2>1, <2>2, <2>3 DEF Orderly, Plain
<1>3. ASSUME NEW event \in {"write", "delete"}
      PROVE  /\ Seen(event).loaded = doc.loaded /\ Seen(event).needsImport = doc.needsImport
             /\ Seen(event).observing = doc.observing /\ Seen(event).events \subseteq doc.events
             /\ Seen(event) \in Documents
  <2> DEFINE e == Seen(event)
  <2>1. e \in Documents /\ OnlyChanges({"events", "onDisk", "session"}, doc, e)
        /\ e.events = doc.events \ {event}
    BY <1>1, SeenDoc
  <2> HIDE DEF e
  <2>2. /\ e.loaded = doc.loaded /\ e.needsImport = doc.needsImport
        /\ e.observing = doc.observing /\ e.events \subseteq doc.events /\ e \in Documents
    BY <2>1 DEF OnlyChanges, Fields, Closed
  <2> QED BY <2>2 DEF e
<1>4. CASE FileDeleted
  <2>1. /\ doc'.loaded = doc.loaded /\ doc'.needsImport = doc.needsImport
        /\ doc'.observing = doc.observing /\ doc'.events \subseteq doc.events
    BY <1>3, <1>4 DEF FileDeleted
  <2>2. UNCHANGED <<wake, active, group, imports>>
    BY <1>4 DEF FileDeleted, app, waits
  <2> QED BY <1>1, <2>1, <2>2 DEF Orderly, Plain
<1>5. CASE FileWritten
  <2> DEFINE e == Seen("write")
  <2>1. /\ e.loaded = doc.loaded /\ e.needsImport = doc.needsImport
        /\ e.observing = doc.observing /\ e.events \subseteq doc.events /\ e \in Documents
    BY <1>3
  <2>2. doc.observing /\ doc.loaded /\ ~Saving /\ ~Saving' /\ UNCHANGED <<group, active>>
    BY <1>1, <1>5 DEF FileWritten, Orderly
  <2>3. CASE ~doc.needsImport /\ group = "closed" /\ active
    <3>1. doc' = e /\ imports' = Waits(imports, TRUE, 0) /\ wake' = wake
      BY <1>5, <2>3 DEF FileWritten
    <3>2. Plain(imports')
      BY <1>1, <3>1, PlainWait DEF Orderly
    <3> HIDE DEF e
    <3> QED BY <2>1, <2>2, <2>3, <3>1, <3>2 DEF Orderly
  <2>4. CASE ~(~doc.needsImport /\ group = "closed" /\ active)
    <3>1. /\ doc' = [e EXCEPT !.needsImport = TRUE] /\ imports' = imports
          /\ wake' = (wake \/ (~doc.needsImport /\ group = "closed"))
      BY <1>5, <2>4 DEF FileWritten
    <3> HIDE DEF e
    <3>2. /\ doc'.loaded = e.loaded /\ doc'.needsImport
          /\ doc'.observing = e.observing /\ doc'.events = e.events
      BY <2>1, <3>1 DEF Documents
    <3>3. group # "closed" \/ wake'
      BY <2>4, <3>1 DEF Orderly
    <3>4. wake' => ~active
      BY <2>4, <3>1 DEF Orderly
    <3>5. Plain(imports')
      BY <3>1 DEF Orderly
    <3> QED BY <2>1, <2>2, <3>1, <3>2, <3>3, <3>4, <3>5 DEF Orderly
  <2> QED BY <2>3, <2>4
<1>6. CASE Deactivate
  <2>1. /\ active /\ imports = <<>> /\ group = "closed" /\ ~active'
        /\ UNCHANGED <<doc, group, wake, imports>>
    BY <1>6 DEF Deactivate, waits
  <2> QED BY <1>1, <2>1 DEF Orderly, Plain
<1>7. CASE Activate
  <2>1. ~active /\ imports = <<>> /\ group = "closed" /\ active' /\ ~wake' /\ group' = group
    BY <1>7 DEF Activate, Orderly
  <2>2. CASE wake /\ doc.loaded
    <3>1. doc' = Import(doc) /\ imports' = Waits(imports, FALSE, 0)
      BY <1>7, <2>2 DEF Activate
    <3>2. OnlyChanges({"needsImport"}, doc, doc') /\ ~doc'.needsImport
      BY <1>1, <3>1, ImportDoc
    <3>3. /\ doc'.loaded = doc.loaded
          /\ doc'.observing = doc.observing /\ doc'.events = doc.events
      BY <3>2 DEF OnlyChanges, Fields, Closed
    <3>4. Plain(imports') /\ ~Saving
      BY <1>1, <2>2, <3>1, PlainWait DEF Orderly
    <3> QED BY <1>1, <2>1, <2>2, <3>2, <3>3, <3>4 DEF Orderly
  <2>3. CASE ~(wake /\ doc.loaded)
    <3>1. UNCHANGED <<doc, imports>>
      BY <1>7, <2>3 DEF Activate
    <3>2. ~doc.needsImport
      BY <2>1, <2>3 DEF Orderly
    <3> QED BY <1>1, <2>1, <3>1, <3>2 DEF Orderly, Plain
  <2> QED BY <2>2, <2>3
<1> QED BY <1>2, <1>4, <1>5, <1>6, <1>7

LEMMA OneSaveEnds ==
  ASSUME Kept, OneSave, NEW i \in SaveIds
  PROVE  /\ saves[i].stage = "none" => ~Saving
         /\ DidSave(i) => ~Saving'
<1>1. saves \in [SaveIds -> Saves] /\ \A j \in SaveIds : j = i
  BY DEF Kept, OthersOK, OneSave
<1>2. DidSave(i) => saves'[i].stage = "none"
  BY <1>1 DEF DidSave, NoSave
<1> QED BY <1>1, <1>2 DEF Saving

LEMMA OrderlySaves ==
  ASSUME Kept, Orderly, Kept', ImportsOK, OneSave,
         NEW i \in SaveIds, StartSave(i) \/ WriteSave(i) \/ DidSave(i)
  PROVE  Orderly'
<1>1. /\ doc \in Documents /\ UNCHANGED <<active, wake, group, imports>>
  BY DEF Kept, DocOK, StartSave, WriteSave, DidSave, app, waits
<1>2. CASE StartSave(i)
  <2>1. /\ UserCanAct /\ doc'.loaded /\ ~doc'.observing /\ doc'.needsImport = doc.needsImport
        /\ doc'.events = (IF doc'.loaded /\ ~doc.observing /\ doc.loaded THEN doc.events ELSE {})
    BY <1>1, <1>2, StartSaveEffect
  <2>2. Saving'
    <3>1. saves' = [saves EXCEPT ![i] = [stage |-> "writing", text |-> doc'.text]]
      BY <1>1, <1>2, StartSaveEffect
    <3>2. saves \in [SaveIds -> Saves]
      BY DEF Kept, OthersOK
    <3>3. saves'[i].stage = "writing"
      BY <3>1, <3>2
    <3> QED BY <3>3 DEF Saving
  <2>3. ~doc.needsImport /\ ~wake /\ imports = <<>> /\ active
    BY <2>1, NothingPutOff DEF UserCanAct
  <2>4. doc'.events = {}
    BY <2>1 DEF Orderly
  <2> QED BY <1>1, <2>1, <2>2, <2>3, <2>4 DEF Orderly, Plain
<1>3. CASE WriteSave(i)
  <2>1. Saving /\ Saving'
    <3>1. saves \in [SaveIds -> Saves] /\ saves[i].stage = "writing"
      BY <1>3 DEF Kept, OthersOK, WriteSave
    <3>2. \E stage \in {"written", "failed"} : saves' = [saves EXCEPT ![i].stage = stage]
      BY <1>3 DEF WriteSave
    <3>3. saves'[i].stage \in {"written", "failed"}
      BY <3>1, <3>2
    <3> QED BY <3>1, <3>3 DEF Saving
  <2>2. doc' = doc
    <3>1. ~doc.observing
      BY <2>1 DEF Orderly
    <3>2. doc' = doc \/ doc' = Noticed(doc, "write")
      BY <1>3 DEF WriteSave
    <3> QED BY <3>1, <3>2 DEF Noticed
  <2> QED BY <1>1, <2>1, <2>2, OrderlyLeftAlone
<1>4. CASE DidSave(i)
  <2>1. Saving /\ ~Saving' /\ doc.loaded /\ ~doc.observing /\ doc.events = {}
    BY <1>4, OneSaveEnds DEF Saving, DidSave, Kept, Held, Orderly
  <2>2. PICK m \in Documents :
         /\ doc' = Close(m)
         /\ m.observing /\ m.events = IF doc.observing THEN doc.events ELSE {}
         /\ IF saves[i].stage = "written"
            THEN /\ OnlyChanges({"onDisk", "saved", "snapshot", "session", "timer", "backup",
                                 "observing", "events"}, doc, m)
                 /\ m.onDisk /\ m.saved = doc.revision /\ m.snapshot = {doc.text}
                 /\ m.session /\ ~m.timer /\ m.backup = {}
            ELSE OnlyChanges({"observing", "events"}, doc, m)
    BY <1>1, <1>4, <2>1, DidSaveEffect
  <2>3. /\ m.openCount = doc.openCount /\ m.loaded = doc.loaded /\ m.needsImport = doc.needsImport
        /\ m.events = {}
    BY <2>1, <2>2 DEF OnlyChanges, Fields, Closed
  <2>4. m.openCount \in Nat /\ m.openCount > 0
    BY <2>1, <2>3 DEF Kept, DocOK, Documents
  <2>5. m.openCount = 1 \/ m.openCount > 1
    BY <2>4
  <2>6. /\ doc'.needsImport = m.needsImport
        /\ m.openCount > 1 => OnlyChanges({"openCount"}, m, doc')
        /\ m.openCount = 1 => /\ ~doc'.loaded /\ ~doc'.observing
                              /\ doc'.events = IF m.observing THEN {} ELSE m.events
    BY <2>2, <2>4, CloseDoc
  <2>7. (doc'.observing <=> doc'.loaded) /\ doc'.events = {}
    <3>1. CASE m.openCount = 1
      BY <2>2, <2>6, <3>1
    <3>2. CASE m.openCount > 1
      <4>1. doc'.observing = m.observing /\ doc'.loaded = m.loaded /\ doc'.events = m.events
        BY <2>6, <3>2 DEF OnlyChanges, Fields, Closed
      <4> QED BY <2>1, <2>2, <2>3, <4>1
    <3> QED BY <2>5, <3>1, <3>2
  <2>8. ~doc.needsImport /\ imports = <<>> /\ ~wake
    BY <2>1 DEF Orderly
  <2> QED BY <1>1, <2>1, <2>3, <2>6, <2>7, <2>8 DEF Orderly, Plain
<1> QED BY <1>2, <1>3, <1>4

LEMMA ReturnedPlain ==
  ASSUME ImportsOK, Plain(imports), ImportReturn
  PROVE  /\ doc' = doc /\ imports' = SubSeq(imports, 1, Len(imports) - 1)
         /\ imports # <<>> /\ imports[Len(imports)].stage = "shown" /\ Plain(imports')
<1>1. imports \in Seq(ImportRecords) /\ imports # <<>>
  BY DEF ImportsOK, StackOK, ImportReturn
<1>2. Len(imports) \in 1..Len(imports)
  BY <1>1, EmptySeq
<1>3. imports[Len(imports)].resumes = 0
  BY <1>2 DEF Plain
<1>4. doc' = doc /\ imports' = SubSeq(imports, 1, Len(imports) - 1)
  BY <1>3 DEF ImportReturn
<1> QED BY <1>1, <1>4, PlainPop DEF ImportReturn

(* The reply that is first in the queue; nothing is put off while it is      *)
(* shown, so that the reload does not wait.                                  *)
LEMMA ShownPlain ==
  ASSUME Kept, Orderly, ImportsOK, ImportShow
  PROVE  LET i == Head(replies) IN
         /\ i \in 1..Len(imports) /\ imports # <<>> /\ imports[i].stage = "read"
         /\ ~doc.needsImport /\ group = "closed" /\ doc.loaded
         /\ replies # <<>> /\ replies' = Tail(replies)
         /\ imports' = [imports EXCEPT ![i].stage = "shown"]
         /\ Plain(imports') /\ Len(imports') = Len(imports)
         /\ imports'[i].stage = "shown" /\ \A j \in 1..Len(imports) : j # i => imports'[j] = imports[j]
<1> DEFINE i == Head(replies)
           w == [imports[i] EXCEPT !.stage = "shown"]
<1>1. replies # <<>> /\ replies' = Tail(replies)
  BY DEF ImportShow
<1>2. imports \in Seq(ImportRecords) /\ i \in 1..Len(imports) /\ imports[i].stage = "read"
  BY <1>1, FirstReply DEF ImportsOK, StackOK
<1>3. imports # <<>> /\ imports[i] \in ImportRecords
  BY <1>2
<1>4. group = "closed" /\ doc.loaded /\ ~doc.needsImport
  BY <1>3 DEF Orderly
<1>5. w \in ImportRecords /\ w.stage = "shown" /\ w.resumes = imports[i].resumes
  BY <1>3, MarkedType
<1>6. imports' = [imports EXCEPT ![i] = w]
  <2>1. /\ doc \in Documents /\ imports[i].text \in Text
    BY <1>3 DEF Kept, DocOK, ImportRecords
  <2>2. BumpRevision(BufferReplaced(doc, imports[i].text)).needsImport = doc.needsImport
    BY DEF BumpRevision, BufferReplaced, Notified
  <2>3. ASSUME NEW t
        PROVE  BumpRevision(BufferReplaced([doc EXCEPT !.snapshot = {imports[i].text}], t)).needsImport
                 = doc.needsImport
    BY DEF BumpRevision, BufferReplaced, Notified
  <2>4. ASSUME NEW d, NEW kind, d.needsImport = doc.needsImport, Reload(i, d, kind)
        PROVE  imports' = [imports EXCEPT ![i] = w]
    BY <1>4, <2>4 DEF Reload
  <2> QED BY <1>4, <2>2, <2>3, <2>4 DEF ImportShow
<1>7. w.stage \notin Reloads
  BY <1>5 DEF Reloads
<1> HIDE DEF w, i
<1>8. /\ Plain(imports') /\ Len(imports') = Len(imports)
      /\ imports'[i] = w /\ \A j \in 1..Len(imports) : j # i => imports'[j] = imports[j]
  <2> DEFINE t == [imports EXCEPT ![i] = w]
  <2>1. Plain(imports)
    BY DEF Orderly
  <2>2. /\ Plain(t) /\ Len(t) = Len(imports)
        /\ t[i] = w /\ \A j \in 1..Len(imports) : j # i => t[j] = imports[j]
    BY <1>2, <1>5, <1>7, <2>1, PlainMark
  <2>3. imports' = t
    BY <1>6
  <2> HIDE DEF t
  <2> QED BY <2>2, <2>3
<1> QED BY <1>1, <1>2, <1>3, <1>4, <1>5, <1>6, <1>8 DEF w, i

LEMMA OrderlyImports ==
  ASSUME Kept, Orderly, ImportsOK,
         (\E i \in 1..Len(imports) : ImportRead(i)) \/ ImportShow \/ ImportReturn
  PROVE  Orderly'
<1>1. /\ doc \in Documents /\ UNCHANGED <<active, wake, group>> /\ (Saving' <=> Saving)
      /\ imports \in Seq(ImportRecords) /\ disk \in Optional(Text)
  BY DEF Kept, OthersOK, DocOK, ImportRead, ImportShow, ImportReturn, app, Saving, ImportsOK, StackOK
<1>2. ASSUME imports # <<>>, Plain(imports'),
             doc'.loaded = doc.loaded, doc'.needsImport = doc.needsImport,
             doc'.observing = doc.observing, doc'.events = doc.events
      PROVE  Orderly'
  BY <1>1, <1>2 DEF Orderly
<1>3. CASE ImportShow
  <2>1. /\ imports # <<>> /\ Plain(imports') /\ doc.loaded /\ ~doc.needsImport
        /\ Head(replies) \in 1..Len(imports)
    BY <1>3, ShownPlain
  <2>2. imports[Head(replies)].text \in Text
    <3>1. imports[Head(replies)] \in ImportRecords
      BY <1>1, <2>1
    <3> QED BY <3>1 DEF ImportRecords
  <2>3. \/ doc' = doc
        \/ OnlyChanges({"saved", "snapshot", "session"}, doc, doc')
        \/ /\ OnlyChanges({"text", "timer", "session", "revision", "needsImport", "saved",
                           "snapshot"}, doc, doc')
           /\ doc'.needsImport = doc.needsImport
    BY <1>1, <1>3, <2>1, <2>2, ShowEffect
  <2>4. /\ doc'.loaded = doc.loaded /\ doc'.needsImport = doc.needsImport
        /\ doc'.observing = doc.observing /\ doc'.events = doc.events
    BY <2>3 DEF OnlyChanges, Fields, Closed
  <2> QED BY <1>2, <2>1, <2>4
<1>4. CASE ImportReturn
  BY <1>2, <1>4, ReturnedPlain DEF Orderly
<1>5. ASSUME NEW i \in 1..Len(imports), ImportRead(i) PROVE Orderly'
  <2>1. imports[i] \in ImportRecords /\ Content(disk) \in Text /\ imports # <<>>
    BY <1>1, ContentType
  <2>2. PICK w \in ImportRecords :
          imports' = [imports EXCEPT ![i] = w] /\ w.resumes = imports[i].resumes /\ w.stage \notin Reloads
    <3>1. CASE imports' = [imports EXCEPT ![i].stage = "read", ![i].text = Content(disk)]
      <4> DEFINE w == [imports[i] EXCEPT !.stage = "read", !.text = Content(disk)]
      <4>1. w \in ImportRecords /\ w.resumes = imports[i].resumes /\ w.stage = "read"
        BY <2>1, ReadType
      <4>2. imports' = [imports EXCEPT ![i] = w]
        BY <1>1, <3>1
      <4> QED BY <4>1, <4>2 DEF Reloads
    <3>2. CASE imports' = [imports EXCEPT ![i].stage = "unread"]
      <4> DEFINE w == [imports[i] EXCEPT !.stage = "unread"]
      <4>1. w \in ImportRecords /\ w.resumes = imports[i].resumes /\ w.stage = "unread"
        BY <2>1, MarkedType
      <4>2. imports' = [imports EXCEPT ![i] = w]
        BY <1>1, <3>2
      <4> QED BY <4>1, <4>2 DEF Reloads
    <3> QED BY <1>5, <3>1, <3>2 DEF ImportRead
  <2>3. Plain(imports')
    BY <1>1, <2>2, PlainMark DEF Orderly
  <2>4. doc' = doc
    BY <1>5 DEF ImportRead
  <2> QED BY <1>2, <2>1, <2>3, <2>4
<1> QED BY <1>3, <1>4, <1>5

LEMMA OrderlyStep ==
  ASSUME Kept, ImportsOK, Orderly, OneSave, "leaving" \notin Allow, [Next]_vars
  PROVE  Orderly'
<1>1. Kept'
  BY KeptStep
<1>2. CASE UNCHANGED vars
  BY <1>2, OrderlyLeftAlone DEF vars, Saving
<1>3. CASE Crash
  <2> DEFINE n == Min1(doc.backup # {})
             s == IF \E b \in doc.backup : b.modified THEN -1 ELSE 0
  <2>1. /\ doc' = [Closed EXCEPT !.backup = doc.backup, !.openCount = n,
                                 !.onDisk = disk # {}, !.saved = s]
        /\ group' = "closed" /\ imports' = <<>> /\ active' /\ ~wake'
    BY <1>3 DEF Crash
  <2> HIDE DEF n, s
  <2>2. ~doc'.loaded /\ ~doc'.needsImport /\ ~doc'.observing /\ doc'.events = {}
    BY <2>1 DEF Closed
  <2>3. Plain(imports')
    BY <2>1 DEF Plain
  <2> QED BY <2>1, <2>2, <2>3 DEF Orderly
<1> QED BY <1>1, <1>2, <1>3, OrderlyTabs, OrderlyEdits, OrderlyEvents, OrderlySaves, OrderlyImports
        DEF Next

LEMMA InitOrderly == Init => Orderly
BY DEF Init, Orderly, Plain, Closed, Saving, NoSave

-----------------------------------------------------------------------------
(* Noticed changes. *)

(* What is in the file will be read, or is the last that has been.           *)
Coming ==
  \/ "write" \in doc.events \/ doc.needsImport
  \/ \E i \in 1..Len(imports) : imports[i].stage = "reading"
  \/ replies # <<>> /\ imports[replies[Len(replies)]].text = The(disk)

(* So it is when the text is not up to date, and when a reply will be        *)
(* shown that is not: it would be what was last read.                        *)
OnItsWay ==
  /\ doc.loaded /\ ~missed /\ disk # {} /\ base # The(disk) => Coming \/ doc.snapshot = {}
  /\ disk # {} /\ (\E k \in 1..Len(replies) : imports[replies[k]].text # The(disk)) => Coming

LEMMA Repliers ==
  ASSUME Kept, ImportsOK, Orderly
  PROVE  /\ replies # <<>> <=> \E k \in 1..Len(replies) : TRUE
         /\ replies # <<>> => Len(replies) \in 1..Len(replies)
         /\ (\E k \in 1..Len(replies) : TRUE) => imports # <<>> /\ doc.observing
         /\ \A k \in 1..Len(replies) : /\ replies[k] \in 1..Len(imports)
                                       /\ imports[replies[k]].stage = "read"
<1>1. replies \in Seq(1..Len(imports))
  BY DEF ImportsOK, RepliesOK
<1>2. replies # <<>> <=> Len(replies) \in Nat \ {0}
  BY <1>1, EmptySeq
<1>3. Len(replies) \in Nat
  BY <1>1
<1>4. (\E k \in 1..Len(replies) : TRUE) <=> Len(replies) \in Nat \ {0}
  BY <1>3
<1>5. \A k \in 1..Len(replies) : /\ replies[k] \in 1..Len(imports)
                                 /\ imports[replies[k]].stage = "read"
  BY <1>1 DEF ImportsOK, RepliesOK
<1>6. (\E k \in 1..Len(replies) : TRUE) => imports # <<>>
  <2>1. imports = <<>> => 1..Len(imports) = {}
    OBVIOUS
  <2> QED BY <1>5, <2>1
<1>7. imports # <<>> => doc.observing
  BY DEF Orderly
<1> QED BY <1>2, <1>3, <1>4, <1>5, <1>6, <1>7

(* While the file is not observed its changes are missed.                    *)
LEMMA Unobserved ==
  ASSUME History, ~missed', disk' # {}, base' # The(disk')
  PROVE  ~missed /\ doc.observing /\ doc'.observing
BY DEF History, Content

LEMMA WayLeftAlone ==
  ASSUME Kept, ImportsOK, Orderly, OnItsWay, Kept', Orderly', History,
         UNCHANGED <<imports, replies, disk, base>>,
         doc.observing /\ doc'.observing =>
           /\ doc'.snapshot = doc.snapshot
           /\ "write" \in doc.events => "write" \in doc'.events
           /\ doc.needsImport => doc'.needsImport
  PROVE  OnItsWay'
<1>1. doc.observing /\ doc'.observing /\ Coming => Coming'
  BY DEF Coming
<1>2. ASSUME doc'.loaded, ~missed', disk' # {}, base' # The(disk')
      PROVE  Coming' \/ doc'.snapshot = {}
  <2>1. ~missed /\ doc.observing /\ doc'.observing
    BY <1>2, Unobserved
  <2>2. doc.loaded
    BY <2>1 DEF Orderly
  <2>3. Coming \/ doc.snapshot = {}
    BY <1>2, <2>1, <2>2 DEF OnItsWay
  <2> QED BY <1>1, <2>1, <2>3
<1>3. ASSUME disk' # {}, NEW k \in 1..Len(replies'), imports'[replies'[k]].text # The(disk')
      PROVE  Coming'
  <2>1. k \in 1..Len(replies) /\ imports[replies[k]].text # The(disk) /\ disk # {}
    BY <1>3
  <2>2. doc.observing /\ imports # <<>>
    BY <2>1, Repliers
  <2>3. doc'.observing
    BY <2>2 DEF Orderly
  <2> QED BY <1>1, <2>1, <2>2, <2>3 DEF OnItsWay
<1> QED BY <1>2, <1>3 DEF OnItsWay

LEMMA WayAnew == Coming' => OnItsWay'
BY DEF OnItsWay

LEMMA WaitReads ==
  ASSUME ImportsOK, Orderly, NEW inQueue, imports' = Waits(imports, inQueue, 0)
  PROVE  OnItsWay'
<1>1. imports \in Seq(ImportRecords) /\ Plain(imports) /\ Len(imports) \in Nat
  BY DEF ImportsOK, StackOK, Orderly
<1>2. Len(imports') = Len(imports) + 1 /\ imports'[Len(imports) + 1].stage = "reading"
  BY <1>1, PlainWait
<1>3. Coming'
  <2>1. Len(imports) + 1 \in 1..Len(imports')
    BY <1>1, <1>2
  <2> QED BY <1>2, <2>1 DEF Coming
<1> QED BY <1>3, WayAnew

LEMMA WayTabs ==
  ASSUME Kept, ImportsOK, Orderly, OnItsWay, Kept', Orderly',
         \/ OpenTab \/ SelectTab \/ SelectOtherTab \/ CloseTab \/ LoadRead \/ LoadDone \/ LoadFailed
  PROVE  OnItsWay'
<1>1. /\ UNCHANGED <<imports, replies>> /\ disk' = disk /\ History /\ doc \in Documents
  BY DEF Kept, DocOK, OpenTab, SelectTab, SelectOtherTab, CloseTab, LoadRead, LoadDone, LoadFailed,
         waits, outside
<1>2. ASSUME OnlyChanges({"openCount", "session"}, doc, doc'), base' = base PROVE OnItsWay'
  <2>1. doc'.snapshot = doc.snapshot /\ doc'.events = doc.events /\ doc'.needsImport = doc.needsImport
    BY <1>2 DEF OnlyChanges, Fields, Closed
  <2> QED BY <1>1, <1>2, <2>1, WayLeftAlone
<1>3. ASSUME ~(doc.observing /\ doc'.observing), base' = base PROVE OnItsWay'
  BY <1>1, <1>3, WayLeftAlone
<1>4. OnlyChanges({"openCount"}, doc, doc') => OnlyChanges({"openCount", "session"}, doc, doc')
  BY DEF OnlyChanges
<1>5. CASE OpenTab
  <2>1. [doc EXCEPT !.openCount = @ + 1] \in Documents
        /\ OnlyChanges({"openCount"}, doc, [doc EXCEPT !.openCount = @ + 1])
    BY <1>1, OpenedDoc
  <2>2. OnlyChanges({"session"}, [doc EXCEPT !.openCount = @ + 1], doc')
    BY <1>5, <2>1, NotifiedDoc DEF OpenTab
  <2>3. OnlyChanges({"openCount", "session"}, doc, doc')
    BY <2>1, <2>2 DEF OnlyChanges
  <2> QED BY <1>2, <1>5, <2>3 DEF OpenTab, outside
<1>6. CASE SelectTab
  <2>1. OnlyChanges({"openCount"}, doc, doc') \/ ~doc.loaded
    BY <1>1, <1>6, SelectTabEffect
  <2>2. base' = base /\ (~doc.loaded => ~doc.observing)
    BY <1>6 DEF SelectTab, outside, Orderly
  <2> QED BY <1>2, <1>3, <1>4, <2>1, <2>2
<1>7. CASE SelectOtherTab \/ CloseTab \/ LoadFailed
  <2>1. OnlyChanges({"openCount"}, doc, doc') \/ ~doc'.observing
    BY <1>7, GivenUpDoc
  <2>2. base' = base
    BY <1>7 DEF SelectOtherTab, CloseTab, LoadFailed, outside
  <2> QED BY <1>2, <1>3, <1>4, <2>1, <2>2
<1>8. CASE LoadRead
  BY <1>1, <1>8, WayLeftAlone DEF LoadRead, outside
<1>9. CASE LoadDone
  <2>1. ~doc.observing
    BY <1>9 DEF LoadDone, Kept, Held, Orderly
  <2>2. \A k \in 1..Len(replies) : FALSE
    BY <2>1, Repliers
  <2> QED BY <1>1, <2>1, <2>2, Unobserved DEF OnItsWay
<1> QED BY <1>5, <1>6, <1>7, <1>8, <1>9

LEMMA WayEdits ==
  ASSUME Kept, ImportsOK, Orderly, OnItsWay, Kept', Orderly',
         Edit \/ BeginMacro \/ EndMacro \/ BackupTimerFires \/ SessionTimerFires
  PROVE  OnItsWay'
<1>1. /\ replies' = replies /\ UNCHANGED <<disk, base>> /\ History /\ doc \in Documents
  BY DEF Kept, DocOK, Edit, BeginMacro, EndMacro, BackupTimerFires, SessionTimerFires, waits, outside
<1>2. CASE BackupTimerFires \/ SessionTimerFires
  <2>1. OnlyChanges({"timer", "session", "backup", "backupRevision"}, doc, doc')
    BY <1>1, <1>2, TimersEffect DEF Kept, DocOK
  <2>2. /\ doc'.snapshot = doc.snapshot /\ doc'.events = doc.events
        /\ doc'.needsImport = doc.needsImport
    BY <2>1 DEF OnlyChanges, Fields, Closed
  <2>3. imports' = imports
    BY <1>2 DEF BackupTimerFires, SessionTimerFires, waits
  <2> QED BY <1>1, <2>2, <2>3, WayLeftAlone
<1>3. CASE Edit \/ BeginMacro \/ EndMacro
  <2>1. /\ OnlyChanges({"text", "timer", "session", "revision", "needsImport"}, doc, doc')
        /\ imports' = IF doc.needsImport THEN Waits(imports, FALSE, 0) ELSE imports
    BY <1>3, EditEffect
  <2>2. doc'.snapshot = doc.snapshot /\ doc'.events = doc.events
    BY <2>1 DEF OnlyChanges, Fields, Closed
  <2> QED BY <1>1, <2>1, <2>2, WayLeftAlone, WaitReads
<1> QED BY <1>2, <1>3

LEMMA WayEvents ==
  ASSUME Kept, ImportsOK, Orderly, OnItsWay, Kept', Orderly',
         ExternalWrite \/ ExternalDelete \/ FileDeleted \/ FileWritten \/ Activate \/ Deactivate
  PROVE  OnItsWay'
<1>1. /\ replies' = replies /\ base' = base /\ doc \in Documents
  BY DEF Kept, DocOK, ExternalWrite, ExternalDelete, FileDeleted, FileWritten, Activate, Deactivate,
         waits, outside
<1>2. CASE ExternalWrite
  <2>1. /\ doc' = Noticed(doc, "write") /\ imports' = imports /\ History
    BY <1>2 DEF ExternalWrite, waits
  <2>2. doc'.events = IF doc.observing THEN doc.events \cup {"write"} ELSE doc.events
    BY <1>1, <2>1, NoticedDoc
  <2>3. CASE doc.observing
    BY <2>2, <2>3, WayAnew DEF Coming
  <2>4. CASE ~doc.observing
    BY <1>1, <2>1, <2>4, Repliers, Unobserved DEF OnItsWay
  <2> QED BY <2>3, <2>4
<1>3. CASE ExternalDelete
  BY <1>3 DEF ExternalDelete, OnItsWay
<1>4. CASE FileDeleted
  <2>1. doc' = Seen("delete") /\ UNCHANGED <<imports, disk>> /\ History
    BY <1>4 DEF FileDeleted, waits, outside
  <2>2. /\ OnlyChanges({"events", "onDisk", "session"}, doc, doc')
        /\ doc'.events = doc.events \ {"delete"}
    BY <1>1, <2>1, SeenDoc
  <2>3. doc'.snapshot = doc.snapshot /\ doc'.needsImport = doc.needsImport
    BY <2>2 DEF OnlyChanges, Fields, Closed
  <2> QED BY <1>1, <2>1, <2>2, <2>3, WayLeftAlone
<1>5. CASE FileWritten
  <2>1. CASE imports' = Waits(imports, TRUE, 0)
    BY <2>1, WaitReads
  <2>2. CASE doc' = [Seen("write") EXCEPT !.needsImport = TRUE]
    <3>1. Seen("write") \in Documents
      BY <1>1, SeenDoc
    <3>2. doc'.needsImport
      BY <2>2, <3>1 DEF Documents
    <3> QED BY <3>2, WayAnew DEF Coming
  <2> QED BY <1>5, <2>1, <2>2 DEF FileWritten
<1>6. CASE Activate
  <2>1. CASE imports' = Waits(imports, FALSE, 0)
    BY <2>1, WaitReads
  <2>2. CASE UNCHANGED <<doc, imports>>
    BY <1>1, <1>6, <2>2, WayLeftAlone DEF Activate, outside
  <2> QED BY <1>6, <2>1, <2>2 DEF Activate
<1>7. CASE Deactivate
  BY <1>1, <1>7, WayLeftAlone DEF Deactivate, waits, outside
<1> QED BY <1>2, <1>3, <1>4, <1>5, <1>6, <1>7

LEMMA WaySaves ==
  ASSUME Kept, ImportsOK, Orderly, OnItsWay, Kept', Orderly',
         NEW i \in SaveIds, StartSave(i) \/ WriteSave(i) \/ DidSave(i)
  PROVE  OnItsWay'
<1>1. /\ UNCHANGED <<imports, replies>> /\ History /\ doc \in Documents
  BY DEF Kept, DocOK, StartSave, WriteSave, DidSave, waits
<1>2. CASE StartSave(i)
  <2>1. ~doc'.observing /\ UNCHANGED <<disk, base>>
    BY <1>1, <1>2, StartSaveEffect DEF StartSave, outside
  <2> QED BY <1>1, <2>1, WayLeftAlone
<1>3. CASE DidSave(i)
  <2>1. ~doc.observing /\ UNCHANGED <<disk, base>>
    BY <1>3 DEF DidSave, Saving, Orderly, outside
  <2> QED BY <1>1, <2>1, WayLeftAlone
<1>4. CASE WriteSave(i)
  <2>1. ~doc.observing
    BY <1>4 DEF WriteSave, Saving, Orderly
  <2>2. CASE disk' = {saves[i].text} /\ base' = saves[i].text
    <3>1. The(disk') = base'
      BY <2>2, TheOnly
    <3>2. \A k \in 1..Len(replies) : FALSE
      BY <2>1, Repliers
    <3> QED BY <1>1, <3>1, <3>2 DEF OnItsWay
  <2>3. CASE UNCHANGED <<doc, disk, base>>
    BY <1>1, <2>1, <2>3, WayLeftAlone
  <2> QED BY <1>4, <2>2, <2>3 DEF WriteSave
<1> QED BY <1>2, <1>3, <1>4

LEMMA AppendedLast ==
  ASSUME NEW S, NEW s \in Seq(S), NEW e \in S
  PROVE  LET t == Append(s, e) IN t # <<>> /\ Len(t) \in 1..Len(t) /\ t[Len(t)] = e
<1> DEFINE t == Append(s, e)
<1>1. Len(s) \in Nat /\ Len(t) = Len(s) + 1 /\ t[Len(s) + 1] = e
  OBVIOUS
<1> HIDE DEF t
<1>2. t # <<>>
  <2> SUFFICES ASSUME t = <<>> PROVE FALSE
    OBVIOUS
  <2>1. Len(t) = 0
    OBVIOUS
  <2> QED BY <1>1, <2>1
<1>3. t # <<>> /\ Len(t) \in 1..Len(t) /\ t[Len(t)] = e
  BY <1>1, <1>2
<1> QED BY <1>3 DEF t

LEMMA NoElement == \A s : s = <<>> => \A k \in 1..Len(s) : FALSE
<1> SUFFICES ASSUME NEW s, s = <<>> PROVE \A k \in 1..Len(s) : FALSE
  OBVIOUS
<1>1. Len(s) = 0
  OBVIOUS
<1> QED BY <1>1

LEMMA ElementOf ==
  ASSUME NEW S, NEW s \in Seq(S), NEW k \in 1..Len(s)
  PROVE  s[k] \in S /\ k \in DOMAIN s
OBVIOUS

LEMMA WayReads ==
  ASSUME Kept, ImportsOK, OnItsWay, "import errors" \notin Allow,
         NEW i, i \in 1..Len(imports), ImportRead(i)
  PROVE  OnItsWay'
<1>1. /\ imports' = [imports EXCEPT ![i].stage = "read", ![i].text = Content(disk)]
      /\ replies' = Append(replies, i) /\ disk' = disk
  BY DEF ImportRead, outside
<1>2. imports \in Seq(ImportRecords) /\ i \in 1..Len(imports)
  BY DEF ImportsOK, StackOK
<1>3. imports'[i].text = Content(disk)
  <2>1. imports[i] \in ImportRecords
    BY <1>2, ElementOf
  <2> DEFINE w == [imports[i] EXCEPT !.stage = "read", !.text = Content(disk)]
  <2>2. imports' = [imports EXCEPT ![i] = w]
    BY <1>1, <1>2
  <2>3. w.text = Content(disk)
    BY <2>1 DEF ImportRecords
  <2> HIDE DEF w
  <2>4. imports'[i] = w
    <3> DEFINE t == imports'
    <3>1. t = [imports EXCEPT ![i] = w]
      BY <2>2
    <3> HIDE DEF t
    <3>2. i \in DOMAIN imports
      BY <1>2, ElementOf
    <3>3. t[i] = w
      BY <3>1, <3>2
    <3> QED BY <3>3 DEF t
  <2> QED BY <2>3, <2>4
<1>4. replies' # <<>> /\ replies'[Len(replies')] = i
  <2>1. replies \in Seq(1..Len(imports)) /\ i \in 1..Len(imports) /\ replies' = Append(replies, i)
    BY <1>1, <1>2 DEF ImportsOK, RepliesOK
  <2> QED BY <2>1, AppendedLast
<1>5. CASE disk = {}
  BY <1>1, <1>5 DEF OnItsWay
<1>6. CASE disk # {}
  <2>1. imports'[replies'[Len(replies')]].text = The(disk')
    BY <1>1, <1>3, <1>4, <1>6 DEF Content
  <2>2. Coming'
    BY <1>4, <2>1 DEF Coming
  <2> QED BY <2>2, WayAnew
<1> QED BY <1>5, <1>6

(* What is shown is what was last read, or a later reply is.                 *)
LEMMA WayShown ==
  ASSUME Kept, ImportsOK, Orderly, OnItsWay, ImportShow
  PROVE  OnItsWay'
<1> DEFINE i == Head(replies)
<1>1. /\ i \in 1..Len(imports) /\ imports[i].stage = "read" /\ ~doc.needsImport /\ doc.loaded
      /\ replies # <<>> /\ replies' = Tail(replies)
      /\ Len(imports') = Len(imports)
      /\ imports'[i].stage = "shown" /\ \A j \in 1..Len(imports) : j # i => imports'[j] = imports[j]
  BY ShownPlain
<1>2. /\ imports \in Seq(ImportRecords) /\ replies \in Seq(1..Len(imports)) /\ disk' = disk
      /\ History /\ doc \in Documents
  BY DEF ImportsOK, StackOK, RepliesOK, ImportShow, Kept, DocOK
<1>3. /\ imports[i] \in ImportRecords /\ imports[i].text \in Text
  <2>1. imports[i] \in ImportRecords
    BY <1>1, <1>2
  <2> QED BY <2>1 DEF ImportRecords
<1>4. /\ doc'.loaded = doc.loaded /\ doc'.events = doc.events
      /\ \/ doc' = doc /\ base' = base /\ doc.snapshot = {}
         \/ base' = imports[i].text
  <2>1. \/ doc' = doc /\ base' = base /\ (~doc.loaded \/ doc.snapshot = {})
        \/ /\ base' = imports[i].text
           /\ \/ OnlyChanges({"saved", "snapshot", "session"}, doc, doc')
              \/ OnlyChanges({"text", "timer", "session", "revision", "needsImport",
                               "saved", "snapshot"}, doc, doc')
    BY <1>2, <1>3, ShowEffect
  <2> QED BY <1>1, <2>1 DEF OnlyChanges, Fields, Closed
<1>5. /\ Len(replies) \in Nat \ {0} /\ Len(replies') = Len(replies) - 1
      /\ \A k \in 1..Len(replies') : replies'[k] = replies[k + 1]
  <2>1. Len(replies) \in Nat \ {0}
    BY <1>1, <1>2, EmptySeq
  <2> QED BY <1>1, <1>2, <2>1, HeadTailProperties
<1>6. replies[1] = i
  BY <1>1, <1>2
<1>7. \A k \in 1..Len(replies') :
        /\ replies'[k] \in 1..Len(imports) /\ replies'[k] # i
        /\ imports'[replies'[k]] = imports[replies'[k]]
  <2>1. \A k \in 1..Len(replies') : replies'[k] # i
    BY <1>1, FirstReply DEF ImportsOK
  <2>2. ASSUME NEW k \in 1..Len(replies') PROVE replies'[k] \in 1..Len(imports)
    <3>1. k + 1 \in 1..Len(replies) /\ replies'[k] = replies[k + 1]
      BY <1>5
    <3>2. replies[k + 1] \in 1..Len(imports)
      BY <1>2, <3>1
    <3> QED BY <3>1, <3>2
  <2> QED BY <1>1, <2>1, <2>2
(* Unless the one shown was the last, what was coming is still.              *)
<1>8. ASSUME Coming, replies[Len(replies)] = i => imports[i].text # The(disk)
      PROVE  Coming'
  <2>1. CASE "write" \in doc.events \/ doc.needsImport
    BY <1>1, <1>4, <2>1 DEF Coming
  <2>2. ASSUME NEW j \in 1..Len(imports), imports[j].stage = "reading" PROVE Coming'
    BY <1>1, <2>2 DEF Coming
  <2>3. CASE imports[replies[Len(replies)]].text = The(disk)
    <3>1. replies[Len(replies)] # i
      BY <1>8, <2>3
    <3>2. Len(replies) # 1 /\ Len(replies') \in 1..Len(replies') /\ Len(replies') + 1 = Len(replies)
      BY <1>5, <1>6, <3>1
    <3>3. replies'[Len(replies')] = replies[Len(replies)]
      BY <1>5, <3>2
    <3>4. imports'[replies'[Len(replies')]].text = The(disk')
      BY <1>2, <1>7, <2>3, <3>2, <3>3
    <3>5. replies' # <<>>
      <4> SUFFICES ASSUME replies' = <<>> PROVE FALSE
        OBVIOUS
      <4>1. Len(replies') = 0
        OBVIOUS
      <4> QED BY <3>2, <4>1
    <3> QED BY <3>4, <3>5 DEF Coming
  <2> QED BY <1>8, <2>1, <2>2, <2>3 DEF Coming
<1>9. ASSUME disk # {}, imports[i].text # The(disk) PROVE Coming'
  <2>1. 1 \in 1..Len(replies)
    BY <1>5
  <2>2. Coming
    BY <1>6, <1>9, <2>1 DEF OnItsWay
  <2> QED BY <1>8, <1>9, <2>2
<1>10. ASSUME doc'.loaded, ~missed', disk' # {}, base' # The(disk')
       PROVE  Coming' \/ doc'.snapshot = {}
  <2>1. CASE base' = imports[i].text
    BY <1>2, <1>9, <1>10, <2>1
  <2>2. CASE doc' = doc /\ base' = base /\ doc.snapshot = {}
    BY <2>2
  <2> QED BY <1>4, <2>1, <2>2
<1>11. ASSUME disk' # {}, NEW k \in 1..Len(replies'), imports'[replies'[k]].text # The(disk')
       PROVE  Coming'
  <2>1. k + 1 \in 1..Len(replies) /\ Len(replies) # 1 /\ Len(replies') \in 1..Len(replies')
        /\ Len(replies') + 1 = Len(replies)
    BY <1>5, <1>11
  <2>2. imports[replies[k + 1]].text # The(disk) /\ disk # {}
    BY <1>2, <1>5, <1>7, <1>11
  <2>3. Coming
    BY <2>1, <2>2 DEF OnItsWay
  <2>4. replies[Len(replies)] # i
    <3>1. replies'[Len(replies')] = replies[Len(replies)]
      BY <1>5, <2>1
    <3>2. replies'[Len(replies')] # i
      BY <1>7, <2>1
    <3> QED BY <3>1, <3>2
  <2> QED BY <1>8, <2>3, <2>4
<1> QED BY <1>10, <1>11 DEF OnItsWay

LEMMA WayReturns ==
  ASSUME Kept, ImportsOK, Orderly, OnItsWay, Kept', Orderly', ImportReturn
  PROVE  OnItsWay'
<1> DEFINE t == SubSeq(imports, 1, Len(imports) - 1)
<1>1. /\ doc' = doc /\ imports' = t /\ UNCHANGED <<replies, disk, base>> /\ History
      /\ imports # <<>> /\ imports[Len(imports)].stage = "shown"
  BY ReturnedPlain DEF ImportReturn, outside, Orderly
<1>2. imports \in Seq(ImportRecords) /\ Len(imports) \in Nat \ {0}
  BY <1>1, EmptySeq DEF ImportsOK, StackOK
<1>3. Len(t) = Len(imports) - 1 /\ \A j \in 1..Len(t) : t[j] = imports[j]
  BY <1>1, <1>2, PlainPop DEF Orderly
<1> HIDE DEF t
<1>4. \A j \in 1..Len(imports) : imports[j].stage # "shown" => j \in 1..Len(t) /\ t[j] = imports[j]
  <2> SUFFICES ASSUME NEW j \in 1..Len(imports), imports[j].stage # "shown"
               PROVE  j \in 1..Len(t) /\ t[j] = imports[j]
    OBVIOUS
  <2>1. j # Len(imports)
    BY <1>1
  <2>2. j \in 1..Len(t)
    BY <1>2, <1>3, <2>1
  <2> QED BY <1>3, <2>2
<1>5. \A k \in 1..Len(replies) : imports'[replies[k]] = imports[replies[k]]
  BY <1>1, <1>4, Repliers
<1>6. Coming => Coming'
  <2>1. CASE "write" \in doc.events \/ doc.needsImport
    BY <1>1, <2>1 DEF Coming
  <2>2. ASSUME NEW j \in 1..Len(imports), imports[j].stage = "reading" PROVE Coming'
    BY <1>1, <1>4, <2>2 DEF Coming
  <2>3. CASE replies # <<>> /\ imports[replies[Len(replies)]].text = The(disk)
    <3>1. imports'[replies[Len(replies)]].text = The(disk)
      BY <1>5, <2>3, Repliers
    <3> QED BY <1>1, <2>3, <3>1 DEF Coming
  <2> QED BY <2>1, <2>2, <2>3 DEF Coming
<1>7. ASSUME doc'.loaded, ~missed', disk' # {}, base' # The(disk')
      PROVE  Coming' \/ doc'.snapshot = {}
  BY <1>1, <1>6, <1>7, Unobserved DEF OnItsWay
<1>8. ASSUME disk' # {}, NEW k \in 1..Len(replies'), imports'[replies'[k]].text # The(disk')
      PROVE  Coming'
  BY <1>1, <1>5, <1>6, <1>8 DEF OnItsWay
<1> QED BY <1>7, <1>8 DEF OnItsWay

LEMMA OnItsWayStep ==
  ASSUME Kept, ImportsOK, Orderly, OnItsWay, Kept', Orderly', "import errors" \notin Allow,
         [Next]_vars
  PROVE  OnItsWay'
<1>1. CASE UNCHANGED vars
  BY <1>1 DEF vars, OnItsWay, Coming
<1>2. CASE Crash
  <2>1. replies' = <<>> /\ ~doc'.loaded
    BY <1>2 DEF Crash, Closed
  <2>2. \A k \in 1..Len(replies') : FALSE
    BY <2>1, NoElement
  <2> QED BY <2>1, <2>2 DEF OnItsWay
<1>3. ASSUME NEW i \in 1..Len(imports), ImportRead(i) PROVE OnItsWay'
  BY <1>3, WayReads
<1> QED BY <1>1, <1>2, <1>3, WayTabs, WayEdits, WayEvents, WaySaves, WayShown, WayReturns DEF Next

LEMMA InitOnItsWay == Init => OnItsWay
<1>1. Init => /\ replies = <<>> /\ ~doc.loaded
  BY DEF Init, Closed
<1>2. replies = <<>> => \A k \in 1..Len(replies) : FALSE
  BY NoElement
<1> QED BY <1>1, <1>2 DEF OnItsWay

(* A change by another program that was noticed is on its way to the text,   *)
(* and an import that was put off has something that makes it                *)
(* (setNeedsImportDocumentChanges, OakDocument.mm:1562).  One save at a      *)
(* time: two that overlap turn the observing off and on out of turn.  The    *)
(* changed file can be read: if not, the wait never ends.  And nobody leaves *)
(* the application during a macro, so that waits do not nest: this one the   *)
(* proof asks for, TLC finds no violation without it.                        *)
THEOREM NoticedIsOnItsWay ==
  ASSUME OneSave, "leaving" \notin Allow, "import errors" \notin Allow
  PROVE  Spec => []ChangesAreOnTheirWay
<1>1. Init => Kept /\ ImportsOK /\ Orderly /\ OnItsWay
  BY InitKept, InitOrderly, InitOnItsWay
<1>2. Kept /\ ImportsOK /\ Orderly /\ OnItsWay /\ [Next]_vars
        => (Kept /\ ImportsOK /\ Orderly /\ OnItsWay)'
  <2> SUFFICES ASSUME Kept, ImportsOK, Orderly, OnItsWay, [Next]_vars
               PROVE  Kept' /\ ImportsOK' /\ Orderly' /\ OnItsWay'
    OBVIOUS
  <2>1. Kept' /\ ImportsOK' /\ Orderly'
    BY KeptStep, OrderlyStep
  <2> QED BY <2>1, OnItsWayStep
<1>3. Kept /\ ImportsOK /\ Orderly /\ OnItsWay => ChangesAreOnTheirWay
  <2> SUFFICES ASSUME Kept, ImportsOK, Orderly, OnItsWay PROVE ChangesAreOnTheirWay
    OBVIOUS
  <2>1. Coming => \/ "write" \in doc.events \/ doc.needsImport
                  \/ \E i \in 1..Len(imports) :
                       \/ imports[i].stage = "reading"
                       \/ imports[i].stage = "read" /\ imports[i].text = The(disk)
    BY Repliers DEF Coming
  <2> QED BY <2>1 DEF OnItsWay, Orderly, ChangesAreOnTheirWay
<1> QED BY <1>1, <1>2, <1>3, PTL DEF Spec

-----------------------------------------------------------------------------
(* What was last exchanged with the file. *)

(* Nobody types during a save, so that what is saved is the text; and a text *)
(* that is not marked as edited is what was last read or written.            *)
Clean ==
  /\ \A i \in SaveIds : /\ saves[i].stage # "none" => saves[i].text = doc.text
                        /\ saves[i].stage = "written" => saves[i].text = base
  /\ doc.loaded /\ doc.revision = doc.saved /\ group # "changed" => doc.text = base
  /\ Saving => group = "closed"

(* The snapshot is too, until a save that has written the file ends.         *)
Ancestor ==
  doc.loaded /\ (\A i \in SaveIds : saves[i].stage # "written") => doc.snapshot \subseteq {base}

Exchanged == Clean /\ ("attributes" \notin Allow => Ancestor)

LEMMA ExchangedLeftAlone ==
  ASSUME Exchanged, UNCHANGED <<saves, base, group>>,
         \/ /\ doc'.text = doc.text /\ doc'.loaded = doc.loaded /\ doc'.snapshot = doc.snapshot
            /\ doc'.revision = doc.revision /\ doc'.saved = doc.saved
         \/ ~doc'.loaded /\ ~Saving'
  PROVE  Exchanged'
<1>1. CASE /\ doc'.text = doc.text /\ doc'.loaded = doc.loaded /\ doc'.snapshot = doc.snapshot
           /\ doc'.revision = doc.revision /\ doc'.saved = doc.saved
  BY <1>1 DEF Exchanged, Clean, Ancestor, Saving
<1>2. CASE ~doc'.loaded /\ ~Saving'
  BY <1>2 DEF Exchanged, Clean, Ancestor, Saving
<1> QED BY <1>1, <1>2

(* The text has just been read or written, or is not known to be the file's. *)
LEMMA ExchangedAnew ==
  ASSUME ~Saving', doc'.snapshot \subseteq {base'},
         doc'.revision = doc'.saved /\ group' # "changed" => doc'.text = base'
  PROVE  Exchanged'
BY DEF Exchanged, Clean, Ancestor, Saving

LEMMA ExchangedTabs ==
  ASSUME Kept, BackedUp, Orderly, Exchanged, Kept',
         \/ OpenTab \/ SelectTab \/ SelectOtherTab \/ CloseTab \/ LoadRead \/ LoadDone \/ LoadFailed
  PROVE  Exchanged'
<1>1. /\ UNCHANGED <<saves, group>> /\ (Saving' <=> Saving) /\ doc \in Documents
      /\ BackupGood(doc, tab, group)
  BY DEF Kept, DocOK, BackedUp, OpenTab, SelectTab, SelectOtherTab, CloseTab, LoadRead, LoadDone,
         LoadFailed, app, Saving
<1>2. ~LoadDone => base' = base
  BY DEF OpenTab, SelectTab, SelectOtherTab, CloseTab, LoadRead, LoadFailed, outside
<1>3. ~doc.loaded => ~Saving /\ ~Saving'
  BY <1>1 DEF Kept, Held
<1>4. ASSUME OnlyChanges({"openCount", "session"}, doc, doc'), base' = base PROVE Exchanged'
  <2>1. /\ doc'.text = doc.text /\ doc'.loaded = doc.loaded /\ doc'.snapshot = doc.snapshot
        /\ doc'.revision = doc.revision /\ doc'.saved = doc.saved
    BY <1>4 DEF OnlyChanges, Fields, Closed
  <2> QED BY <1>1, <1>4, <2>1, ExchangedLeftAlone
<1>5. OnlyChanges({"openCount"}, doc, doc') => OnlyChanges({"openCount", "session"}, doc, doc')
  BY DEF OnlyChanges
<1>6. CASE OpenTab
  <2>1. [doc EXCEPT !.openCount = @ + 1] \in Documents
        /\ OnlyChanges({"openCount"}, doc, [doc EXCEPT !.openCount = @ + 1])
    BY <1>1, OpenedDoc
  <2>2. OnlyChanges({"session"}, [doc EXCEPT !.openCount = @ + 1], doc')
    BY <1>6, <2>1, NotifiedDoc DEF OpenTab
  <2>3. OnlyChanges({"openCount", "session"}, doc, doc')
    BY <2>1, <2>2 DEF OnlyChanges
  <2>4. base' = base
    BY <1>6 DEF OpenTab, outside
  <2> QED BY <1>4, <2>3, <2>4
<1>7. CASE SelectTab
  <2>1. base' = base
    BY <1>7 DEF SelectTab, outside
  <2>2. CASE OnlyChanges({"openCount"}, doc, doc')
    BY <1>4, <1>5, <2>1, <2>2
  <2>3. CASE ~OnlyChanges({"openCount"}, doc, doc')
    <3>1. /\ ~doc.loaded /\ doc.backup # {} /\ doc'.revision = 1
          /\ doc'.saved = (IF Edited(doc) THEN 0 ELSE 1)
          /\ doc'.snapshot = IF Edited(doc) THEN {} ELSE {doc'.text}
      BY <1>1, <1>7, <2>3, SelectTabEffect
    <3>2. Edited(doc)
      BY <1>1, <3>1, OnDiskEdited DEF BackupGood
    <3> QED BY <1>3, <3>1, <3>2, ExchangedAnew
  <2> QED BY <2>2, <2>3
<1>8. CASE SelectOtherTab \/ CloseTab \/ LoadFailed
  <2>1. OnlyChanges({"openCount"}, doc, doc') \/ ~doc'.loaded
    BY <1>8, GivenUpDoc
  <2>2. base' = base
    BY <1>8 DEF SelectOtherTab, CloseTab, LoadFailed, outside
  <2>3. ~doc'.loaded => ~Saving'
    BY DEF Kept, Held
  <2> QED BY <1>1, <1>4, <1>5, <2>1, <2>2, <2>3, ExchangedLeftAlone
<1>9. CASE LoadRead
  BY <1>1, <1>9, ExchangedLeftAlone DEF LoadRead, outside
<1>10. CASE LoadDone
  <2>1. /\ load.text \in Text /\ load.handlers \in Nat /\ doc.openCount >= load.handlers
    BY HoldersFacts DEF Kept, Held, OthersOK, Loads, Holders, DocOK, Documents
  <2>2. doc'.text = load.text /\ doc'.snapshot = {load.text} /\ base' = load.text
    BY <1>1, <1>10, <2>1, LoadDoneEffect DEF LoadDone
  <2>3. ~Saving'
    BY <1>3, <1>10 DEF LoadDone, Kept, Held
  <2> QED BY <2>2, <2>3, ExchangedAnew
<1> QED BY <1>6, <1>7, <1>8, <1>9, <1>10

LEMMA ExchangedEdits ==
  ASSUME Kept, Orderly, Exchanged, "typing" \notin Allow,
         Edit \/ BeginMacro \/ EndMacro \/ BackupTimerFires \/ SessionTimerFires
  PROVE  Exchanged'
<1>0. /\ doc \in Documents
      /\ (doc.loaded => doc.revision \in Nat /\ doc.saved <= doc.revision /\ doc.saved \in Int)
  BY DEF Kept, DocOK, Documents
<1>1. /\ UNCHANGED <<saves, base>> /\ doc \in Documents
  BY DEF Kept, DocOK, Edit, BeginMacro, EndMacro, BackupTimerFires, SessionTimerFires, outside
<1>2. CASE BackupTimerFires \/ SessionTimerFires
  <2>1. OnlyChanges({"timer", "session", "backup", "backupRevision"}, doc, doc')
    BY <1>0, <1>2, TimersEffect
  <2>2. /\ doc'.text = doc.text /\ doc'.loaded = doc.loaded /\ doc'.snapshot = doc.snapshot
        /\ doc'.revision = doc.revision /\ doc'.saved = doc.saved
    BY <2>1 DEF OnlyChanges, Fields, Closed
  <2>3. group' = group
    BY <1>2 DEF BackupTimerFires, SessionTimerFires, app
  <2> QED BY <1>1, <2>2, <2>3, ExchangedLeftAlone
<1>3. CASE Edit \/ BeginMacro \/ EndMacro
  <2>1. /\ OnlyChanges({"text", "timer", "session", "revision", "needsImport"}, doc, doc')
        /\ \/ doc'.revision = doc.revision + 1
           \/ group' = "changed"
           \/ doc'.revision = doc.revision /\ doc'.text = doc.text /\ group # "changed"
        /\ CanEdit \/ (doc'.text = doc.text /\ group' = "closed")
    BY <1>3, EditEffect
  <2>2. doc'.loaded = doc.loaded /\ doc'.snapshot = doc.snapshot /\ doc'.saved = doc.saved
    BY <2>1 DEF OnlyChanges, Fields, Closed
  <2>3. (CanEdit => ~Saving) /\ (Saving' <=> Saving)
    BY <1>1 DEF CanEdit, Saving
  <2>4. \A i \in SaveIds : /\ saves'[i].stage # "none" => saves'[i].text = doc'.text
                           /\ saves'[i].stage = "written" => saves'[i].text = base'
    BY <1>1, <2>1, <2>3 DEF Exchanged, Clean, Saving
  <2>5. ASSUME doc'.loaded, doc'.revision = doc'.saved, group' # "changed" PROVE doc'.text = base'
    <3>1. doc.revision \in Nat /\ doc.saved <= doc.revision /\ doc.saved \in Int
      BY <1>0, <2>2, <2>5
    <3>2. doc'.revision # doc.revision + 1
      <4>1. doc.saved # doc.revision + 1
        BY <3>1
      <4> QED BY <2>2, <2>5, <4>1
    <3> QED BY <1>1, <2>1, <2>2, <2>5, <3>2 DEF Exchanged, Clean
  <2>6. Saving' => group' = "closed"
    BY <2>1, <2>3
  <2>7. Clean'
    BY <2>4, <2>5, <2>6 DEF Clean
  <2>8. Ancestor => Ancestor'
    BY <1>1, <2>2 DEF Ancestor
  <2> QED BY <2>7, <2>8 DEF Exchanged
<1> QED BY <1>2, <1>3

LEMMA EventEffect ==
  ASSUME Kept,
         ExternalWrite \/ ExternalDelete \/ FileDeleted \/ FileWritten \/ Activate \/ Deactivate
  PROVE  /\ doc'.text = doc.text /\ doc'.loaded = doc.loaded /\ doc'.snapshot = doc.snapshot
         /\ doc'.revision = doc.revision /\ doc'.saved = doc.saved
<1>1. doc \in Documents
  BY DEF Kept, DocOK
<1>2. OnlyChanges({"events", "onDisk", "session", "needsImport"}, doc, doc')
  <2>1. ASSUME NEW event \in {"write", "delete"}
        PROVE  /\ OnlyChanges({"events"}, doc, Noticed(doc, event))
               /\ Seen(event) \in Documents
               /\ OnlyChanges({"events", "onDisk", "session"}, doc, Seen(event))
    BY <1>1, NoticedDoc, SeenDoc
  <2>2. CASE ExternalWrite \/ ExternalDelete
    <3>1. doc' = Noticed(doc, "write") \/ doc' = Noticed(doc, "delete")
      BY <2>2 DEF ExternalWrite, ExternalDelete
    <3> QED BY <2>1, <3>1 DEF OnlyChanges
  <2>3. CASE FileDeleted
    BY <2>1, <2>3 DEF OnlyChanges, FileDeleted
  <2>4. CASE FileWritten
    <3> DEFINE e == Seen("write")
    <3>1. e \in Documents /\ OnlyChanges({"events", "onDisk", "session"}, doc, e)
      BY <2>1
    <3>2. doc' = e \/ doc' = [e EXCEPT !.needsImport = TRUE]
      BY <2>4 DEF FileWritten
    <3> HIDE DEF e
    <3>3. OnlyChanges({"needsImport"}, e, [e EXCEPT !.needsImport = TRUE])
      BY <3>1 DEF OnlyChanges, Fields, Closed, Documents
    <3> QED BY <3>1, <3>2, <3>3 DEF OnlyChanges
  <2>5. CASE Activate \/ Deactivate
    <3>1. doc' = doc \/ doc' = Import(doc)
      BY <2>5 DEF Activate, Deactivate
    <3>2. OnlyChanges({"needsImport"}, doc, Import(doc))
      BY <1>1, ImportDoc
    <3> QED BY <3>1, <3>2 DEF OnlyChanges
  <2> QED BY <2>2, <2>3, <2>4, <2>5
<1> QED BY <1>2 DEF OnlyChanges, Fields, Closed

LEMMA ExchangedEvents ==
  ASSUME Kept, Exchanged,
         ExternalWrite \/ ExternalDelete \/ FileDeleted \/ FileWritten \/ Activate \/ Deactivate
  PROVE  Exchanged'
<1>1. UNCHANGED <<saves, base, group>>
  BY DEF ExternalWrite, ExternalDelete, FileDeleted, FileWritten, Activate, Deactivate, outside, app
<1> QED BY <1>1, EventEffect, ExchangedLeftAlone

LEMMA ExchangedSaves ==
  ASSUME Kept, Orderly, BackedUp, Exchanged, Kept', OneSave,
         NEW i \in SaveIds, StartSave(i) \/ WriteSave(i) \/ DidSave(i)
  PROVE  Exchanged'
<1>1. /\ doc \in Documents /\ group' = group /\ BackupGood(doc, tab, group)
      /\ saves \in [SaveIds -> Saves] /\ (\A j \in SaveIds : j = i)
  BY DEF Kept, DocOK, OthersOK, BackedUp, OneSave, StartSave, WriteSave, DidSave, app
<1>2. CASE StartSave(i)
  <2>1. /\ UserCanAct /\ saves[i].stage = "none"
        /\ saves' = [saves EXCEPT ![i] = [stage |-> "writing", text |-> doc'.text]]
        /\ \/ /\ doc.loaded
              /\ OnlyChanges({"openCount", "observing", "events"}, doc, doc')
           \/ doc'.revision = 1 /\ doc'.saved = 0 /\ doc'.snapshot = {}
    BY <1>1, <1>2, StartSaveEffect
  <2>2. saves'[i].stage = "writing" /\ saves'[i].text = doc'.text
    BY <1>1, <2>1
  <2>3. group' = "closed" /\ base' = base
    BY <1>1, <1>2, <2>1 DEF UserCanAct, StartSave, outside
  <2>4. CASE doc.loaded /\ OnlyChanges({"openCount", "observing", "events"}, doc, doc')
    <3>1. /\ doc'.text = doc.text /\ doc'.loaded = doc.loaded /\ doc'.snapshot = doc.snapshot
          /\ doc'.revision = doc.revision /\ doc'.saved = doc.saved
      BY <2>4 DEF OnlyChanges, Fields, Closed
    <3>2. \A j \in SaveIds : saves[j].stage # "written"
      BY <1>1, <2>1
    <3>3. Clean'
      BY <1>1, <2>2, <2>3, <3>1 DEF Exchanged, Clean
    <3>4. Ancestor => Ancestor'
      BY <2>3, <3>1, <3>2 DEF Ancestor
    <3> QED BY <3>3, <3>4 DEF Exchanged
  <2>5. CASE doc'.revision = 1 /\ doc'.saved = 0 /\ doc'.snapshot = {}
    <3>1. Clean'
      BY <1>1, <2>2, <2>3, <2>5 DEF Clean
    <3>2. Ancestor'
      BY <2>5 DEF Ancestor
    <3> QED BY <3>1, <3>2 DEF Exchanged
  <2> QED BY <2>1, <2>4, <2>5
<1>3. CASE WriteSave(i)
  <2>1. saves[i].stage = "writing" /\ Saving
    BY <1>3 DEF WriteSave, Saving
  <2>2. saves[i].text = doc.text /\ group' = "closed"
    BY <1>1, <2>1 DEF Exchanged, Clean
  <2>3. doc' = doc
    <3>1. ~doc.observing
      BY <2>1 DEF Orderly
    <3>2. doc' = doc \/ doc' = Noticed(doc, "write")
      BY <1>3 DEF WriteSave
    <3> QED BY <3>1, <3>2 DEF Noticed
  <2>4. PICK stage \in {"written", "failed"} :
          /\ saves' = [saves EXCEPT ![i].stage = stage]
          /\ \/ base' = saves[i].text /\ (stage = "written" \/ "attributes" \in Allow)
             \/ base' = base /\ stage = "failed"
    BY <1>3 DEF WriteSave
  <2>5. saves'[i].stage = stage /\ saves'[i].text = saves[i].text
    BY <1>1, <2>4
  <2>6. Clean'
    <3>1. doc.loaded /\ doc.revision = doc.saved => base' = doc.text
      BY <1>1, <2>2, <2>4 DEF Exchanged, Clean
    <3> QED BY <1>1, <2>2, <2>3, <2>4, <2>5, <3>1 DEF Clean
  <2>7. "attributes" \notin Allow => Ancestor'
    <3>1. CASE stage = "written"
      BY <2>5, <3>1 DEF Ancestor
    <3>2. CASE stage = "failed" /\ "attributes" \notin Allow
      <4>1. \A j \in SaveIds : saves[j].stage # "written"
        BY <1>1, <2>1
      <4>2. base' = base
        BY <2>4, <3>2
      <4> QED BY <2>3, <3>2, <4>1, <4>2 DEF Exchanged, Ancestor
    <3> QED BY <2>4, <3>1, <3>2
  <2> QED BY <2>6, <2>7 DEF Exchanged
<1>4. CASE DidSave(i)
  <2>1. Saving /\ ~Saving' /\ doc.loaded /\ base' = base
    BY <1>4, OneSaveEnds DEF Saving, DidSave, Kept, Held, outside
  <2>2. PICK m \in Documents :
         /\ doc' = Close(m)
         /\ IF saves[i].stage = "written"
            THEN /\ OnlyChanges({"onDisk", "saved", "snapshot", "session", "timer", "backup",
                                 "observing", "events"}, doc, m)
                 /\ m.snapshot = {doc.text}
            ELSE OnlyChanges({"observing", "events"}, doc, m)
    BY <1>1, <1>4, <2>1, DidSaveEffect
  <2>3. m.openCount = doc.openCount /\ m.loaded /\ m.text = doc.text /\ m.revision = doc.revision
    BY <2>1, <2>2 DEF OnlyChanges, Fields, Closed
  <2>4. /\ m.revision = m.saved => m.text = base
        /\ "attributes" \notin Allow => m.snapshot \subseteq {base}
    <3>1. group # "changed"
      BY <2>1 DEF Exchanged, Clean
    <3>2. CASE saves[i].stage = "written"
      <4>1. doc.text = base
        BY <1>1, <3>2 DEF Exchanged, Clean
      <4> QED BY <2>2, <2>3, <3>2, <4>1
    <3>3. CASE saves[i].stage # "written"
      <4>1. m.saved = doc.saved /\ m.snapshot = doc.snapshot
        BY <2>2, <3>3 DEF OnlyChanges, Fields, Closed
      <4>2. m.revision = m.saved => m.text = base
        BY <2>1, <2>3, <3>1, <4>1 DEF Exchanged, Clean
      <4>3. Ancestor => m.snapshot \subseteq {base}
        BY <1>1, <2>1, <3>3, <4>1 DEF Ancestor
      <4> QED BY <4>2, <4>3 DEF Exchanged
    <3> QED BY <3>2, <3>3
  <2>5. m.openCount \in Nat /\ m.openCount > 0
    BY <2>1, <2>3 DEF Kept, DocOK, Documents
  <2>6. m.openCount = 1 \/ m.openCount > 1
    BY <2>5
  <2>7. /\ m.openCount > 1 => OnlyChanges({"openCount"}, m, doc')
        /\ m.openCount = 1 => ~doc'.loaded
    BY <2>2, <2>5, CloseDoc
  <2>8. CASE m.openCount = 1
    BY <2>1, <2>7, <2>8 DEF Exchanged, Clean, Ancestor, Saving
  <2>9. CASE m.openCount > 1
    <3>1. /\ doc'.text = m.text /\ doc'.snapshot = m.snapshot /\ doc'.revision = m.revision
          /\ doc'.saved = m.saved
      BY <2>7, <2>9 DEF OnlyChanges, Fields, Closed
    <3> QED BY <2>1, <2>4, <3>1 DEF Exchanged, Clean, Ancestor, Saving
  <2> QED BY <2>6, <2>8, <2>9
<1> QED BY <1>2, <1>3, <1>4

(* What is in the buffer when an import has been shown.                      *)
LEMMA ShownText ==
  ASSUME Kept, ImportsOK, Orderly, BackedUp, Exchanged, ImportShow
  PROVE  LET yours == imports[Head(replies)].text IN
         /\ doc.loaded /\ group = "closed" /\ ~Saving
         /\ \/ /\ UNCHANGED <<base>> /\ doc' = doc
            \/ /\ base' = yours /\ doc'.snapshot = {yours}
               /\ doc'.revision = doc'.saved => doc'.text = yours
               /\ \/ doc'.text = doc.text
                  \/ doc.text = base /\ doc'.text = yours
                  \/ doc.snapshot # {} /\ doc'.text = Merge(The(doc.snapshot), doc.text, yours)
<1> DEFINE yours == imports[Head(replies)].text
<1>1. /\ doc \in Documents /\ BackupGood(doc, tab, group) /\ imports \in Seq(ImportRecords)
  BY DEF Kept, DocOK, BackedUp, ImportsOK, StackOK
<1>2. /\ doc.loaded /\ group = "closed" /\ ~doc.needsImport /\ imports # <<>>
      /\ Head(replies) \in 1..Len(imports)
  BY ShownPlain
<1>3. yours \in Text
  <2>1. imports[Head(replies)] \in ImportRecords
    BY <1>1, <1>2
  <2> QED BY <2>1 DEF ImportRecords
<1>4. ~Saving
  BY <1>2 DEF Orderly
<1>5. doc.revision \in Nat /\ (~Edited(doc) => doc.text = base)
  <2>1. doc.revision \in Nat
    BY <1>2 DEF Kept, DocOK
  <2>2. ~Edited(doc) => doc.revision = doc.saved
    BY <1>1, OnDiskEdited
  <2> QED BY <1>2, <2>1, <2>2 DEF Exchanged, Clean
<1> HIDE DEF yours
<1>6. \/ doc' = doc /\ base' = base
      \/ /\ base' = yours /\ yours = doc.text
         /\ OnlyChanges({"saved", "snapshot", "session"}, doc, doc')
         /\ doc'.snapshot = {doc.text}
      \/ /\ base' = yours
         /\ doc'.revision = doc.revision + 1
         /\ doc'.text \in (IF Edited(doc) THEN {Merge(The(doc.snapshot), doc.text, yours)}
                          ELSE {yours})
         /\ Edited(doc) => doc.snapshot # {}
         /\ doc'.saved = (IF doc'.text = yours THEN doc'.revision ELSE -1)
         /\ doc'.snapshot = {yours}
  <2> HIDE DEF yours
  <2>1. yours = imports[Head(replies)].text
    BY DEF yours
  <2> QED BY <1>1, <1>2, <1>3, <2>1, ShowEffect
<1>7. \/ /\ UNCHANGED <<base>> /\ doc' = doc
      \/ /\ base' = yours /\ doc'.snapshot = {yours}
         /\ doc'.revision = doc'.saved => doc'.text = yours
         /\ \/ doc'.text = doc.text
            \/ doc.text = base /\ doc'.text = yours
            \/ doc.snapshot # {} /\ doc'.text = Merge(The(doc.snapshot), doc.text, yours)
  <2>1. CASE doc' = doc /\ base' = base
    BY <2>1
  <2>2. CASE /\ base' = yours /\ yours = doc.text
             /\ OnlyChanges({"saved", "snapshot", "session"}, doc, doc')
             /\ doc'.snapshot = {doc.text}
    <3>1. doc'.text = doc.text
      BY <2>2 DEF OnlyChanges, Fields, Closed
    <3> QED BY <2>2, <3>1
  <2>3. CASE /\ base' = yours
             /\ doc'.revision = doc.revision + 1
             /\ doc'.text \in (IF Edited(doc) THEN {Merge(The(doc.snapshot), doc.text, yours)}
                               ELSE {yours})
             /\ Edited(doc) => doc.snapshot # {}
             /\ doc'.saved = (IF doc'.text = yours THEN doc'.revision ELSE -1)
             /\ doc'.snapshot = {yours}
    <3>1. doc.revision + 1 # -1
      BY <1>5
    <3>2. doc'.revision = doc'.saved => doc'.text = yours
      BY <2>3, <3>1
    <3> QED BY <1>5, <2>3, <3>2
  <2> QED BY <1>6, <2>1, <2>2, <2>3
<1> QED BY <1>2, <1>4, <1>7 DEF yours

LEMMA ExchangedImports ==
  ASSUME Kept, ImportsOK, Orderly, BackedUp, Exchanged,
         (\E i \in 1..Len(imports) : ImportRead(i)) \/ ImportShow \/ ImportReturn
  PROVE  Exchanged'
<1>1. UNCHANGED <<saves, group>> /\ (Saving' <=> Saving)
  BY DEF ImportRead, ImportShow, ImportReturn, app, Saving
<1>2. ASSUME doc' = doc, base' = base PROVE Exchanged'
  BY <1>1, <1>2, ExchangedLeftAlone
<1>3. CASE \E i \in 1..Len(imports) : ImportRead(i)
  BY <1>2, <1>3 DEF ImportRead, outside
<1>4. CASE ImportReturn
  BY <1>2, <1>4, ReturnedPlain DEF ImportReturn, outside, Orderly
<1>5. CASE ImportShow
  <2> DEFINE yours == imports[Head(replies)].text
  <2>1. /\ doc.loaded /\ group = "closed" /\ ~Saving
        /\ \/ base' = base /\ doc' = doc
           \/ /\ base' = yours /\ doc'.snapshot = {yours}
              /\ doc'.revision = doc'.saved => doc'.text = yours
    BY <1>5, ShownText
  <2> HIDE DEF yours
  <2> QED BY <1>1, <1>2, <2>1, ExchangedAnew
<1> QED BY <1>3, <1>4, <1>5

LEMMA ExchangedStep ==
  ASSUME Kept, ImportsOK, Orderly, BackedUp, Exchanged, Kept', OneSave, "typing" \notin Allow,
         [Next]_vars
  PROVE  Exchanged'
<1>1. CASE UNCHANGED vars
  BY <1>1, ExchangedLeftAlone DEF vars
<1>2. CASE Crash
  <2>1. saves' = [i \in SaveIds |-> NoSave] /\ ~doc'.loaded
    BY <1>2 DEF Crash, Closed
  <2>2. ~Saving'
    BY <2>1 DEF Saving, NoSave
  <2> QED BY <2>1, <2>2 DEF Exchanged, Clean, Ancestor, Saving
<1> QED BY <1>1, <1>2, ExchangedTabs, ExchangedEdits, ExchangedEvents, ExchangedSaves,
           ExchangedImports DEF Next

LEMMA InitExchanged == Init => Exchanged
BY DEF Init, Exchanged, Clean, Ancestor, Closed, NoSave, Saving

-----------------------------------------------------------------------------
AllKept == Kept /\ ImportsOK /\ BackedUp /\ Orderly /\ Exchanged

LEMMA AllKeptAlways ==
  ASSUME OneSave, {"typing", "deleting", "leaving"} \cap Allow = {}
  PROVE  Spec => []AllKept
<1>1. Init => AllKept
  BY InitKept, InitBackedUp, InitOrderly, InitExchanged DEF AllKept
<1>2. AllKept /\ [Next]_vars => AllKept'
  <2> SUFFICES ASSUME Kept, ImportsOK, BackedUp, Orderly, Exchanged, [Next]_vars
               PROVE  Kept' /\ ImportsOK' /\ BackedUp' /\ Orderly' /\ Exchanged'
    BY DEF AllKept
  <2>1. "typing" \notin Allow /\ "deleting" \notin Allow /\ "leaving" \notin Allow
    OBVIOUS
  <2>2. Kept' /\ ImportsOK' /\ BackedUp' /\ Orderly'
    BY <2>1, KeptStep, BackedUpStep, OrderlyStep
  <2> QED BY <2>1, <2>2, ExchangedStep
<1> QED BY <1>1, <1>2, PTL DEF Spec

(* A document that is not marked as edited holds what is in its file, as far *)
(* as it was last read or written: the end of a save (:997) marks the       *)
(* revision that the text has when the save ends, so that nobody may type    *)
(* during a save; the other hypotheses are those of Orderly and BackedUp.    *)
THEOREM CleanIsOnDisk ==
  ASSUME OneSave, {"typing", "deleting", "leaving"} \cap Allow = {}
  PROVE  Spec => []CleanMeansOnDisk
<1>1. AllKept => CleanMeansOnDisk
  BY DEF AllKept, Exchanged, Clean, CleanMeansOnDisk
<1> QED BY <1>1, AllKeptAlways, PTL

(* The common ancestor of the next merge (OakDocument.mm:1653) is what was   *)
(* last exchanged with the file, unless a save may fail after it has written *)
(* the file, setting its attributes: then nobody takes the snapshot.         *)
THEOREM AncestorIsBase ==
  ASSUME OneSave, {"typing", "deleting", "leaving", "attributes"} \cap Allow = {}
  PROVE  Spec => []SnapshotIsBase
<1>1. "attributes" \notin Allow /\ {"typing", "deleting", "leaving"} \cap Allow = {}
  OBVIOUS
<1>2. AllKept => SnapshotIsBase
  BY <1>1 DEF AllKept, Exchanged, Ancestor, SnapshotIsBase, Saving
<1> QED BY <1>1, <1>2, AllKeptAlways, PTL

(* So that importing another program's changes undoes none of the user's:    *)
(* only a merge with that ancestor or a text without changes is replaced.    *)
THEOREM MergeKeepsEdits ==
  ASSUME OneSave, {"typing", "deleting", "leaving", "attributes"} \cap Allow = {}
  PROVE  Spec => ImportKeepsEdits
<1> DEFINE Keeps == imports # <<>> /\ doc.loaded /\ doc'.loaded /\ doc'.text # doc.text =>
                      /\ doc.text \ base \subseteq doc'.text
                      /\ (base \ doc.text) \cap doc'.text = {}
<1>1. "attributes" \notin Allow /\ {"typing", "deleting", "leaving"} \cap Allow = {}
  OBVIOUS
<1>2. AllKept /\ AllKept' /\ [Next]_vars => [Keeps]_vars
  <2> SUFFICES ASSUME Kept, ImportsOK, BackedUp, Orderly, Exchanged, Kept', Next,
                      imports # <<>>, doc.loaded, doc'.loaded, doc'.text # doc.text
               PROVE  /\ doc.text \ base \subseteq doc'.text
                      /\ (base \ doc.text) \cap doc'.text = {}
    BY DEF AllKept
  <2>1. ImportShow
    <3>1. ~(OpenTab \/ SelectTab \/ SelectOtherTab \/ CloseTab \/ Edit \/ BeginMacro)
      BY DEF OpenTab, SelectTab, SelectOtherTab, CloseTab, Edit, BeginMacro, UserCanAct
    <3>2. ~(EndMacro \/ Activate \/ Deactivate)
      BY DEF EndMacro, Activate, Deactivate
    <3>3. ~(LoadRead \/ (\E i \in 1..Len(imports) : ImportRead(i)) \/ ImportReturn)
      BY ReturnedPlain DEF LoadRead, ImportRead, Orderly
    <3>4. ~(LoadDone \/ LoadFailed \/ Crash)
      BY DEF LoadDone, LoadFailed, Crash, Closed, Kept, Held
    <3>5. ASSUME NEW i \in SaveIds PROVE ~(StartSave(i) \/ WriteSave(i) \/ DidSave(i))
      <4>1. ~StartSave(i)
        BY DEF StartSave, UserCanAct
      <4>2. ~Saving
        BY DEF Orderly
      <4> QED BY <4>1, <4>2 DEF Saving, WriteSave, DidSave
    <3>6. ~(BackupTimerFires \/ SessionTimerFires)
      <4>1. doc \in Documents /\ doc.revision \in Nat
        BY DEF Kept, DocOK
      <4>2. OnlyChanges({"timer", "session", "backup", "backupRevision"}, doc, doc')
              => doc'.text = doc.text
        BY DEF OnlyChanges, Fields, Closed
      <4> QED BY <4>1, <4>2, TimersEffect
    <3>7. ~(ExternalWrite \/ ExternalDelete \/ FileDeleted \/ FileWritten)
      BY EventEffect
    <3> QED BY <3>1, <3>2, <3>3, <3>4, <3>5, <3>6, <3>7 DEF Next
  <2> DEFINE yours == imports[Head(replies)].text
  <2>2. doc' # doc
    OBVIOUS
  <2>3. /\ ~Saving
        /\ \/ doc.text = base
           \/ doc.snapshot # {} /\ doc'.text = Merge(The(doc.snapshot), doc.text, yours)
    BY <2>1, <2>2, ShownText
  <2> HIDE DEF yours
  <2>4. CASE doc.text = base
    BY <2>4
  <2>5. CASE doc.snapshot # {} /\ doc'.text = Merge(The(doc.snapshot), doc.text, yours)
    <3>1. doc.snapshot \subseteq {base}
      BY <1>1, <2>3 DEF Exchanged, Ancestor, Saving
    <3>2. The(doc.snapshot) = base
      <4>1. doc.snapshot = {base}
        BY <2>5, <3>1
      <4> QED BY <4>1, TheOnly
    <3> QED BY <2>5, <3>2 DEF Merge
  <2> QED BY <2>3, <2>4, <2>5
<1> QED BY <1>1, <1>2, AllKeptAlways, PTL DEF Spec, ImportKeepsEdits
=============================================================================
