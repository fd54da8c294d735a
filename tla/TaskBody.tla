------------------------------ MODULE TaskBody ------------------------------
(***************************************************************************)
(* The Markdown body of one task record and the commands that rewrite it:   *)
(* `task comment`, which appends to the comment log, `task cancel`, which   *)
(* records its reason, and `task edit --body` and `--section`, which may    *)
(* change everything else but have to carry that provenance over.           *)
(*                                                                         *)
(* A command reads the body fresh under the record lock and writes it back  *)
(* in the same section (Mutex), so each is one step. The text of an edit,   *)
(* though, its author prepared from a body that he read before (one author  *)
(* at a time). A body is a sequence of lines, and a line without a heading  *)
(* counts as one token. Blank lines, code blocks and texts that begin with  *)
(* # are out.                                                               *)
(***************************************************************************)
EXTENDS Naturals, SequencesExt

CONSTANTS
  Heading,      \* the headings that the authors of bodies use
  Note,         \* the texts they write
  Reason,       \* the texts given to task cancel
  None,         \* no reason, no draft
  Entry,        \* bound: the comments that are made, in this order
  MaxLines      \* bound: lines of a body

Level == {2, 3}
Comments == "Comments"
CancellationReason == "Cancellation Reason"

\* protectedTaskSections.
Protected == {Comments, CancellationReason}

\* The names of sections.
Title == {h.text : h \in Heading} \cup Protected

HeadingLine(l, name) == [level |-> l, text |-> name]
Text(x) == [level |-> 0, text |-> x]

\* Comments begin with the second they were made in: no two are the same (two of
\* the same words in one second are out), and nobody writes or copies one by hand.
ASSUME BodyAssumption ==
  /\ Heading \subseteq [level : Level, text : Title]
  /\ Heading # {}
  /\ None \notin Reason
  /\ Entry \in Seq(Range(Entry)) /\ IsInjective(Entry)
  /\ Range(Entry) \cap (Note \cup Reason) = {}
  /\ MaxLines \in Nat

VARIABLES
  body,     \* the body of the record, a sequence of lines
  draft,    \* the body that the author of an edit has read, or None
  log,      \* history: the numbers of the comments made that nobody gave up
  reason,   \* history: the reason of the last cancel, or None
  made      \* the number of comments made

bodyVars == <<body, draft, log, reason, made>>

AuthorLine == Heading \cup {Text(x) : x \in Note}

Line == [level : {0} \cup Level, text : Title \cup Note \cup Reason \cup Range(Entry)]

\* What an author writes at once: one line or two.
AuthorText == {<<k>> : k \in AuthorLine} \cup {<<k, l>> : k, l \in AuthorLine}

\* task create --body: any text but none.
BodyInit ==
  /\ body \in AuthorText
  /\ draft = None
  /\ log = {}
  /\ reason = None
  /\ made = 0

------------------------------------------------------------------------------
(* Sections *)

IsHeading(b, i, name) == b[i].level \in Level /\ b[i].text = name

\* A section ends before the next heading of its own or a higher level.
End(b, i) ==
  LET after == {j \in DOMAIN b : j > i /\ b[j].level \in 1 .. b[i].level}
  IN IF after = {} THEN Len(b) + 1 ELSE Min(after)

SectionContent(b, i) == SubSeq(b, i + 1, End(b, i) - 1)

\* locateHeadingSections: where the sections of a name begin.
Sections(b, name) == {i \in DOMAIN b : IsHeading(b, i, name)}

\* carriesLeadingRun.
Carries(want, got) == IsPrefix(want, got)

\* allCarried: to[i] has in next the position, among the sections of its name,
\* that i has in b, and carries it at the same depth.
AllCarried(b, next, name) ==
  \E to \in [Sections(b, name) -> Sections(next, name)] :
    /\ \A i, j \in Sections(b, name) : i < j => to[i] < to[j]
    /\ \A i \in Sections(b, name) : \A k \in Sections(next, name) :
         k < to[i] => \E j \in Sections(b, name) : to[j] = k
    /\ \A i \in Sections(b, name) :
         /\ b[i].level = next[to[i]].level
         /\ SectionContent(b, i) = <<>> => SectionContent(next, to[i]) = <<>>
         /\ Carries(SectionContent(b, i), SectionContent(next, to[i]))

\* droppedProtectedSections.
Dropped(current, replacement) ==
  {name \in Protected :
     /\ \E i \in Sections(current, name) : SectionContent(current, i) # <<>>
     /\ ~AllCarried(current, replacement, name)}

\* The text between the heading at i and the end of its section becomes content.
Rewritten(b, i, content) == SubSeq(b, 1, i) \o content \o SubSeq(b, End(b, i), Len(b))

\* appendComment: the log is the first section of level 2.
Logs(b) == {i \in Sections(b, Comments) : b[i].level = 2}
Appended(b, c) ==
  IF Logs(b) = {} THEN b \o <<HeadingLine(2, Comments), Text(c)>>
  ELSE Rewritten(b, Min(Logs(b)), SectionContent(b, Min(Logs(b))) \o <<Text(c)>>)

\* upsertCancellationReason: in the first section of either level.
WithReason(b, r) ==
  IF Sections(b, CancellationReason) = {} THEN b \o <<HeadingLine(2, CancellationReason), Text(r)>>
  ELSE Rewritten(b, Min(Sections(b, CancellationReason)), <<Text(r)>>)

\* replaceTaskSection.
WithSection(b, name, content) ==
  IF Sections(b, name) = {} THEN b \o <<HeadingLine(2, name)>> \o content
  ELSE Rewritten(b, Min(Sections(b, name)), content)

------------------------------------------------------------------------------
(* The commands *)

\* taskCommentLocked.
Comment ==
  /\ made < Len(Entry)
  /\ made' = made + 1
  /\ body' = Appended(body, Entry[made'])
  /\ Len(body') <= MaxLines
  /\ log' = log \cup {made'}
  /\ UNCHANGED <<draft, reason>>

\* The lines of the section that task comment appends to.
LogLines(b) ==
  IF Logs(b) = {} THEN {} ELSE Min(Logs(b)) + 1 .. End(b, Min(Logs(b))) - 1

\* The reason's section lies in the log: an author may write it there, and cancel
\* then replaces what the log holds from there on.
ReasonInLog(b) ==
  Sections(b, CancellationReason) # {} /\ Min(Sections(b, CancellationReason)) \in LogLines(b)

\* taskStatusWithArgsLocked, for Cancelled. Reopened in between, a task can be
\* cancelled again.
Cancel(r) ==
  /\ body' = WithReason(body, r)
  /\ Len(body') <= MaxLines
  /\ reason' = r
  /\ log' = IF ReasonInLog(body)
            THEN {e \in log : Contains(body', Text(Entry[e]))}
            ELSE log
  /\ UNCHANGED <<draft, made>>

\* The author of an edit reads the body.
ReadBody ==
  /\ draft = None
  /\ draft' = body
  /\ UNCHANGED <<body, log, reason, made>>

\* Mutant: the guard compares with the body that the author read.
SaveOverDraft(next) ==
  /\ next # body
  /\ Len(next) <= MaxLines
  /\ draft # None => Dropped(draft, next) = {}
  /\ body' = next
  /\ draft' = None
  /\ UNCHANGED <<log, reason, made>>

\* editTaskFields: without --force an edit that drops provenance is refused.
Save(next) ==
  /\ next # body
  /\ Len(next) <= MaxLines
  /\ Dropped(body, next) = {}
  /\ body' = next
  /\ draft' = None
  /\ UNCHANGED <<log, reason, made>>

\* With --force it is not: its author gives up what he drops.
SaveByForce(next) ==
  /\ Len(next) <= MaxLines
  /\ Dropped(body, next) # {}
  /\ body' = next
  /\ log' = IF Comments \in Dropped(body, next) THEN {} ELSE log
  /\ reason' = IF CancellationReason \in Dropped(body, next) THEN None ELSE reason
  /\ draft' = None
  /\ UNCHANGED made

\* The bodies that an author makes of b: a line more, a line less, another line,
\* or two parts swapped.
Changes(b) ==
  UNION {{InsertAt(b, i, k) : i \in 1 .. Len(b) + 1, k \in AuthorLine},
         {ReplaceAt(b, i, k) : i \in DOMAIN b, k \in AuthorLine},
         {RemoveAt(b, i) : i \in DOMAIN b},
         {SubSeq(b, i, Len(b)) \o SubSeq(b, 1, i - 1) : i \in DOMAIN b}}

\* taskEditLocked with --body: the body as its author wants it, but not empty.
EditBody ==
  draft # None /\ \E next \in Changes(draft) \ {<<>>} : Save(next) \/ SaveByForce(next)

\* With --section: a section that no other command owns.
EditSection ==
  /\ draft = None
  /\ \E h \in {k \in Heading : k.text \notin Protected} :
     \E content \in AuthorText :
       \/ Save(WithSection(body, h.text, content))
       \/ SaveByForce(WithSection(body, h.text, content))

BodyNext == Comment \/ (\E r \in Reason : Cancel(r)) \/ ReadBody \/ EditBody \/ EditSection

BodySpec == BodyInit /\ [][BodyNext]_bodyVars

------------------------------------------------------------------------------
(* Properties *)

\* task-commands.md:291-303: whatever is edited, from whatever draft, without
\* --force, every comment stays in the log that task comment goes on appending
\* to, in the order they were made, as long as no cancel finds its section inside
\* the log.
InOrder(b, comments) ==
  /\ \A e \in comments : \E i \in LogLines(b) : b[i] = Text(Entry[e])
  /\ \A d, e \in comments : \A i, j \in LogLines(b) :
       b[i] = Text(Entry[d]) /\ b[j] = Text(Entry[e]) => (i < j <=> d < e)
LogStands == InOrder(body, log)

\* The reason that the last cancel gave opens the section that the next one will
\* replace, so it reads as it was given, whatever is written after it.
Opens(b, line) ==
  \E i \in Sections(b, CancellationReason) :
    /\ \A k \in Sections(b, CancellationReason) : i <= k
    /\ i + 1 \in DOMAIN b /\ b[i + 1] = line
ReasonStands == reason # None => Opens(body, Text(reason))

\* An edit prepared before a comment or a cancel, and saved after it, takes
\* nothing of what the two recorded (task_edit.go:652-672).
AuditTrailStands == LogStands /\ ReasonStands

------------------------------------------------------------------------------
(* What makes it inductive *)

\* A comment is never in two places, so that its place is its own ...
Once(b) ==
  /\ b \in Seq(Line)
  /\ \A e \in DOMAIN Entry : \A i, j \in DOMAIN b :
       b[i] = Text(Entry[e]) /\ b[j] = Text(Entry[e]) => i = j

\* ... and nowhere before it is made.
Tracked(b) ==
  /\ Once(b)
  /\ \A e \in DOMAIN Entry : \A i \in DOMAIN b : b[i] = Text(Entry[e]) => e <= made

BodyInv ==
  /\ made \in 0 .. Len(Entry) /\ log \subseteq 1 .. made
  /\ reason \in Reason \cup {None}
  /\ Tracked(body)
  /\ draft # None => Tracked(draft)
  /\ AuditTrailStands
==============================================================================
