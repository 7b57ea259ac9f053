---------------------------- MODULE BufferParser ----------------------------
(***************************************************************************)
(* The background parser of ng::buffer_t (Frameworks/buffer): replacements *)
(* leave dirty marks, and the lines that hold one are parsed one at a time *)
(* by a worker whose reply comes back to the main run loop.  It is used    *)
(* when the buffer has still the revision it had when the line was sent,   *)
(* but revisions are only bumped when a group of changes ends, and undo    *)
(* puts old ones back.                                                     *)
(*                                                                         *)
(* A parser state is what a line is parsed from: the grammar and whether a *)
(* string is open.  A line's scopes are one entry at its start, which says *)
(* from which state and which text they were made.  Which lines are drawn  *)
(* together (limit_redraw, batch_start, did_parse) is left out.  Positions *)
(* count from 0, so the character at position p is text[p + 1].            *)
(***************************************************************************)
EXTENDS Integers, Sequences, FiniteSets, FiniteSetsExt

CONSTANTS
  Chars, Newline, Quote,  \* characters; a quote opens or closes a string
  Pieces,       \* what one replacement can put in
  Grammars, NoGrammar,
  Allow,        \* what may happen besides:
                \*   "macros"   replies arrive inside a group, while a command
                \*              of a macro runs
                \*   "grammar"  the grammar changes while a line is parsed or
                \*              a group is open
  MaxText,      \* bound: characters in the buffer
  MaxRevision,  \* bound: revisions
  MaxRecords,   \* bound: replacements that can be undone
  MaxSwitches   \* bound: changes of the grammar

ASSUME ParserAssumption ==
  /\ {Newline, Quote} \subseteq Chars /\ Newline # Quote
  /\ Pieces \subseteq Seq(Chars)
  /\ NoGrammar \notin Grammars
  /\ Allow \subseteq {"macros", "grammar"}
  /\ {MaxText, MaxRevision, MaxRecords, MaxSwitches} \subseteq Nat

VARIABLES
  text, revision, nextRevision,  \* _storage, _revision, _next_revision
  grammar,   \* _grammar
  dirty,     \* _dirty: positions
  states,    \* _parser_states: position -> state, the seed at -1
  scopes,    \* _scopes: position -> the line's entry, without the root at -1
  request,   \* the line at the worker, at most one: _parser_running, and a
             \* _parser_reference that is not reset.  A reset one's reply does nothing.
  group,     \* the undo group: "closed", "open" or "undoing"
  records,   \* the undo manager's records
  switches

marks == <<dirty, states, scopes>>
vars == <<text, revision, nextRevision, grammar, dirty, states, scopes, request, group,
          records, switches>>

States == [grammar : Grammars, open : BOOLEAN]
Seed(g) == [grammar |-> g, open |-> FALSE]

-----------------------------------------------------------------------------
(* Lines. *)

LineStarts(t) == {0} \cup {i \in 1..Len(t) : t[i] = Newline}
Begin(t, p)   == Max({s \in LineStarts(t) : s <= p})
IsLast(t, p)  == \A s \in LineStarts(t) : s <= p
End(t, p)     == IF IsLast(t, p) THEN Len(t) ELSE Min({s \in LineStarts(t) : s > p})
Line(t, p)    == SubSeq(t, Begin(t, p) + 1, End(t, p))

Odd(line) == Cardinality({i \in 1..Len(line) : line[i] = Quote}) % 2 = 1

(* parse::parse: the state after the line. *)
After(state, line) == [state EXCEPT !.open = @ # Odd(line)]

-----------------------------------------------------------------------------
(* indexed_map_t::replace: positions after the replaced range move with the *)
(* text, those inside are removed.  At its edges bindRight keeps the right  *)
(* one and ~bindRight the left one.                                         *)

ReplaceRight(map, from, to, len) ==
  LET by == len - (to - from)
  IN [k \in {j \in DOMAIN map : j < from} \cup {j + by : j \in {i \in DOMAIN map : i >= to}}
        |-> IF k < from THEN map[k] ELSE map[k - by]]

ReplaceLeft(map, from, to, len) ==
  LET by == len - (to - from)
  IN [k \in {j \in DOMAIN map : j <= from} \cup {j + by : j \in {i \in DOMAIN map : i > to}}
        |-> IF k <= from THEN map[k] ELSE map[k - by]]

(* indexed_map_t::set. *)
SetAt(map, pos, value) ==
  [k \in DOMAIN map \cup {pos} |-> IF k = pos THEN value ELSE map[k]]

Splice(t, from, to, s) == SubSeq(t, 1, from) \o s \o SubSeq(t, to + 1, Len(t))

(* The replaced range is marked at its start only, and the scope at its end *)
(* goes on behind the new text.                                             *)
MarkReplacedRight(from, to, len) ==  \* a slip: the states' other edge is kept
  LET inside == {k \in DOMAIN scopes : from < k /\ k <= to}
      moved  == ReplaceRight(scopes, from, to, len) IN
  /\ dirty'  = DOMAIN ReplaceLeft([d \in dirty |-> TRUE], from, to, len) \cup {from}
  /\ states' = ReplaceRight(states, from, to, len)
  /\ scopes' = IF inside = {} THEN moved
               ELSE SetAt(moved, from + len, scopes[Max(inside)])

MarkBefore(from, to, len) ==  \* a slip: the mark is one character too early
  LET inside == {k \in DOMAIN scopes : from < k /\ k <= to}
      moved  == ReplaceRight(scopes, from, to, len) IN
  /\ dirty'  = DOMAIN ReplaceLeft([d \in dirty |-> TRUE], from, to, len) \cup {from - 1}
  /\ states' = ReplaceLeft(states, from, to, len)
  /\ scopes' = IF inside = {} THEN moved
               ELSE SetAt(moved, from + len, scopes[Max(inside)])

MarkReplaced(from, to, len) ==
  LET inside == {k \in DOMAIN scopes : from < k /\ k <= to}
      moved  == ReplaceRight(scopes, from, to, len) IN
  /\ dirty'  = DOMAIN ReplaceLeft([d \in dirty |-> TRUE], from, to, len) \cup {from}
  /\ states' = ReplaceLeft(states, from, to, len)
  /\ scopes' = IF inside = {} THEN moved
               ELSE SetAt(moved, from + len, scopes[Max(inside)])

-----------------------------------------------------------------------------
(* The parser. *)

(* The line of the first dirty mark, if there is a state to parse it from.  *)
FirstDirty(t, d, st) ==
  LET from == Begin(t, Min(d))
      key  == IF from = 0 THEN Min(DOMAIN st) ELSE from
  IN IF d = {} \/ DOMAIN st = {} \/ key \notin DOMAIN st THEN {}
     ELSE {[from |-> from, to |-> End(t, from), line |-> Line(t, from), state |-> st[key]]}

(* What is sent to the worker. *)
Sent(t, rev, d, st) ==
  {[line |-> l, revision |-> rev] : l \in FirstDirty(t, d, st)}

(* initiate_repair, after the other variables have their new values. *)
InitiateRepair == request' = IF request = {} THEN Sent(text', revision', dirty', states')
                             ELSE request

(* update_scopes, for a line of the text t that has been parsed. *)
Updated(t, m, l) ==
  LET atEOF  == IsLast(t, l.from)
      inside(k) == l.from <= k /\ (k < l.to \/ atEOF)
      after  == After(l.state, l.line)
      same   == l.to \in DOMAIN m.states /\ m.states[l.to] = after
      kept   == {d \in m.dirty : ~inside(d)}
  IN [dirty  |-> IF same \/ atEOF THEN kept ELSE kept \cup {l.to},
      states |-> IF same THEN m.states ELSE SetAt(m.states, l.to, after),
      scopes |-> SetAt([k \in {j \in DOMAIN m.scopes : ~inside(j)} |-> m.scopes[k]],
                       l.from, <<l.state, l.line>>)]

Marks == [dirty |-> dirty, states |-> states, scopes |-> scopes]

MarksBecome(m) == dirty' = m.dirty /\ states' = m.states /\ scopes' = m.scopes

(* The loop of wait_for_repair; one line per turn, and a line parsed leaves *)
(* the marks before it alone, so there is a turn for each line.             *)
Repaired ==
  LET turn[n \in 0..MaxText + 1] ==
        IF n = 0 THEN Marks
        ELSE LET m == turn[n - 1]
                 first == FirstDirty(text, m.dirty, m.states)
             IN IF first = {} THEN m
                ELSE Updated(text, m, CHOOSE l \in first : TRUE)
  IN turn[MaxText + 1]

-----------------------------------------------------------------------------
(* A document that has just been loaded: set_grammar before the parsing is  *)
(* asynchronous, then bump_revision.                                        *)
Init ==
  /\ text \in {p \in Pieces : Len(p) <= MaxText} /\ grammar \in Grammars
  /\ revision = 1 /\ nextRevision = 2
  /\ dirty = {0} /\ states = SetAt(<<>>, -1, Seed(grammar)) /\ scopes = <<>>
  /\ request = Sent(text, revision, dirty, states)
  /\ group = "closed" /\ records = <<>> /\ switches = 0

Replace(from, to, s) ==
  /\ group \in {"closed", "open"}
  /\ from <= to /\ to <= Len(text) /\ (from < to \/ s # <<>>)
  /\ Len(Splice(text, from, to, s)) <= MaxText
  /\ nextRevision <= MaxRevision /\ Len(records) < MaxRecords
  /\ text' = Splice(text, from, to, s)
  /\ MarkReplaced(from, to, Len(s))
  /\ records' = Append(records, [from |-> from, len |-> Len(s),
                                 before |-> SubSeq(text, from + 1, to),
                                 opens |-> group = "closed", revision |-> revision])
  /\ group' = "open"
  /\ UNCHANGED <<revision, nextRevision, grammar, request, switches>>

EndGroupKeepingRevision ==  \* a slip: the revision is not bumped
  /\ group = "open" /\ group' = "closed"
  /\ UNCHANGED <<text, revision, nextRevision, grammar, marks, records, switches>>
  /\ InitiateRepair

EndGroup ==
  /\ group = "open" /\ group' = "closed"
  /\ revision' = nextRevision /\ nextRevision' = nextRevision + 1
  /\ UNCHANGED <<text, grammar, marks, records, switches>>
  /\ InitiateRepair

(* undo (): one record per step; the last one of the group puts back the    *)
(* revision it was made at.                                                 *)
Undo ==
  /\ group \in {"closed", "undoing"} /\ records # <<>>
  /\ LET n == Len(records)
         r == records[n] IN
     /\ records' = SubSeq(records, 1, n - 1)
     /\ text' = Splice(text, r.from, r.from + r.len, r.before)
     /\ MarkReplaced(r.from, r.from + r.len, Len(r.before))
     /\ IF r.opens
        THEN group' = "closed" /\ revision' = r.revision /\ InitiateRepair
        ELSE group' = "undoing" /\ UNCHANGED <<revision, request>>
  /\ UNCHANGED <<nextRevision, grammar, switches>>

(* The reply of the worker, on the main run loop. *)
ReplyDropped ==  \* a slip: a reply for another revision is the end of it
  /\ request # {}
  /\ group = "closed" \/ (group = "open" /\ "macros" \in Allow)
  /\ \E r \in request :
       \/ /\ r.revision = revision
          /\ MarksBecome(Updated(text, Marks, r.line))
          /\ request' = Sent(text, revision, dirty', states')
       \/ /\ r.revision # revision
          /\ request' = {} /\ UNCHANGED marks
  /\ UNCHANGED <<text, revision, nextRevision, grammar, group, records, switches>>

Reply ==
  /\ request # {}
  /\ group = "closed" \/ (group = "open" /\ "macros" \in Allow)
  /\ \E r \in request :
       IF r.revision = revision THEN MarksBecome(Updated(text, Marks, r.line))
                                ELSE UNCHANGED marks
  /\ request' = Sent(text, revision, dirty', states')
  /\ UNCHANGED <<text, revision, nextRevision, grammar, group, records, switches>>

(* wait_for_repair, when the symbols are asked for. *)
WaitForRepair ==
  /\ group # "undoing" /\ grammar # NoGrammar
  /\ MarksBecome(Repaired)
  /\ request' = {}
  /\ UNCHANGED <<text, revision, nextRevision, grammar, group, records, switches>>

(* set_grammar, with a grammar that cannot be parsed (NoGrammar) too.  It   *)
(* changes neither the revision nor the reference.                          *)
SetGrammar(g) ==
  /\ group # "undoing" /\ switches < MaxSwitches
  /\ (request # {} \/ group = "open") => "grammar" \in Allow
  /\ UNCHANGED <<text, revision, nextRevision, group, records>>
  /\ switches' = switches + 1
  /\ grammar' = g /\ scopes' = <<>>
  /\ IF g = NoGrammar THEN dirty' = {} /\ states' = <<>> /\ UNCHANGED request
                      ELSE dirty' = {0} /\ states' = SetAt(<<>>, -1, Seed(g)) /\ InitiateRepair

Next ==
  \/ \E from, to \in 0..Len(text) : \E s \in Pieces : Replace(from, to, s)
  \/ EndGroup \/ Undo \/ Reply \/ WaitForRepair
  \/ \E g \in Grammars \cup {NoGrammar} : SetGrammar(g)

Spec == Init /\ [][Next]_vars

(* The worker answers, and a group or an undo that was begun is ended. *)
FairSpec == Spec /\ WF_vars(Reply) /\ WF_vars(EndGroup)
                 /\ WF_vars(group = "undoing" /\ Undo)
-----------------------------------------------------------------------------
(* The types of the state. *)
TypeOK ==
  /\ text \in Seq(Chars) /\ Len(text) <= MaxText
  /\ revision < nextRevision
  /\ grammar \in Grammars \cup {NoGrammar}
  /\ dirty \subseteq 0..Len(text)
  /\ DOMAIN states \subseteq -1..Len(text)
  /\ \A k \in DOMAIN states : states[k] \in States
  /\ DOMAIN scopes \subseteq 0..Len(text)
  /\ \A k \in DOMAIN scopes : scopes[k] \in States \X Seq(Chars)
  /\ Cardinality(request) <= 1

(* The reference: the state the text before p leads to. *)
StateBefore(p) == [grammar |-> grammar, open |-> Odd(SubSeq(text, 1, p))]

(* The line that starts at p has been parsed: its scopes are those of its   *)
(* text and of all the text before it, and there are no others in it.       *)
IsParsed(p) ==
  /\ p = 0 \/ (p \in DOMAIN states /\ states[p] = StateBefore(p))
  /\ {k \in DOMAIN scopes : p <= k /\ (k < End(text, p) \/ IsLast(text, p))} = {p}
  /\ scopes[p] = <<StateBefore(p), Line(text, p)>>

(* Whatever was edited, undone and parsed in which order, all lines before  *)
(* the first dirty one are right; so all are when nothing is dirty, and the *)
(* first dirty one has a state to be parsed from ("No parser state for",    *)
(* parsing.cc:77).                                                          *)
PrefixIsParsed ==
  grammar # NoGrammar =>
    /\ \A p \in LineStarts(text) :
         (\A d \in dirty : p < Begin(text, d)) => IsParsed(p)
    /\ dirty # {} => FirstDirty(text, dirty, states) # {}

(* A reply is used when the revision is the one it was sent with            *)
(* (parsing.cc:59): the line is then still there, and still follows from    *)
(* the text before it, although undo puts old revisions back.               *)
UsedRepliesAreCurrent ==
  group = "closed" =>
    \A r \in request : r.revision = revision =>
      /\ r.line.from \in LineStarts(text)
      /\ r.line.to = End(text, r.line.from) /\ r.line.line = Line(text, r.line.from)
      /\ r.line.state = StateBefore(r.line.from)

(* A reply that is used ends a batch of lines when the next line needs no   *)
(* update, and did_parse is told where the batch ends (parsing.cc:107).     *)
(* spelling_t reads the text up to there, and the text reaches so far       *)
(* ("ASSERT_LE(last, size())", storage.cc:137).                             *)
AnnouncedIsInText ==
  [][Reply => \A r \in request :
       r.revision = revision /\ (dirty' = {} \/ Min(dirty') # r.line.to)
         => r.line.to <= Len(text)]_vars

(* Dirty lines are parsed in the end, when the user pauses. *)
ParsingCatchesUp ==
  dirty # {} /\ grammar # NoGrammar ~> dirty = {} \/ grammar = NoGrammar
=============================================================================
