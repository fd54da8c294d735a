----------------------------- MODULE AdrLifecycle -----------------------------
(***************************************************************************)
(* `ahm adr`: architecture decision records, one file NNN-slug.md each, in *)
(* the checkout. A command holds the record lock, reads all records,       *)
(* decides, and then writes: one file, or two for a supersession (the old  *)
(* record names its successor, then the successor refers back), and the    *)
(* ADR index last. It may stop between any two writes. The files belong to *)
(* the checkout and its branches: beside the commands, and under no lock,  *)
(* users change, spoil, merge and delete them.                             *)
(***************************************************************************)
EXTENDS Naturals, FiniteSets, FiniteSetsExt

CONSTANTS
  MaxNumber,    \* the highest number of three digits (999 in the code)
  MaxSlug,      \* bound: the slugs, in their order
  Title,        \* bound: the slugs that ahm makes of titles
  Given,        \* bound: the statuses that users give records
  None,         \* no file
  MaxStops,     \* bound: commands that stop half-way
  MaxHands      \* bound: changes by hand

\* A file name is a number and a slug. The number after the highest one makes
\* a name with four digits, which no command can read back (splitADRFileName).
Slug == 1 .. MaxSlug
Name == (1 .. MaxNumber + 1) \X Slug
NoName == <<0, 0>>

\* What a user types for a record: its number, with slug 0, or its name.
Ref == (1 .. MaxNumber) \X ({0} \cup Slug)

Plain == {"proposed", "accepted", "rejected", "deprecated"}
Status == Plain \cup {"superseded"}

\* by: the NNN of "superseded by ADR-NNN"; note: the link of the Supersession
\* section; refs: the records that More Information says this one supersedes.
\* Of a file whose front matter cannot be parsed, what the record would say: the
\* front matter is closed by its delimiter (malformed), or not (unclosed).
Unreadable == {"malformed", "unclosed"}
Record == [kind : {"madr", "legacy"} \cup Unreadable, status : Status,
           by : 0 .. MaxNumber, note : Name \cup {NoName}, refs : SUBSET Name]

ASSUME ConstantsAssumption ==
  /\ MaxNumber \in Nat \ {0}
  /\ MaxSlug \in Nat \ {0}
  /\ Title \subseteq 1 .. MaxSlug
  /\ Given \subseteq {"proposed", "accepted", "rejected", "deprecated"}
  /\ MaxStops \in Nat
  /\ MaxHands \in Nat
  /\ None \notin Record

VARIABLES
  adr,      \* adr[f]: the record in the file f, or None
  index,    \* the superseded records in docs/adr/index.md, with their successors
  pc,       \* the write before which the command is
  cmd,      \* what it decided to write
  hands,    \* history: whether users merged or deleted a file
  edited,   \* history: the files whose content users changed or deleted
  stops,    \* the commands that stopped
  changes   \* the changes by hand

vars == <<adr, index, pc, cmd, hands, edited, stops, changes>>

Command == [op : {"none", "create", "set", "supersede"}, old : Name \cup {NoName},
            new : Name \cup {NoName}, status : Status]
NoCommand == [op |-> "none", old |-> NoName, new |-> NoName, status |-> "proposed"]

TypeOK ==
  /\ adr \in [Name -> Record \cup {None}]
  /\ index \subseteq Name \X (1 .. MaxNumber)
  /\ pc \in {"idle", "first", "second", "index"}
  /\ cmd \in Command
  /\ hands \subseteq {"merged", "deleted"}
  /\ edited \subseteq Name
  /\ stops \in 0 .. MaxStops
  /\ changes \in 0 .. MaxHands

Fresh(kind, status) ==
  [kind |-> kind, status |-> status, by |-> 0, note |-> NoName, refs |-> {}]

------------------------------------------------------------------------------
(* collectADRs, resolveADR, nextADRID *)

Present == {f \in Name : adr[f] # None}
KindOf(f) == IF f[1] > MaxNumber THEN "malformed" ELSE adr[f].kind

\* Errors of single files are only warned about: the commands go on with the
\* records they can read (filterReadableADRs).
Readable == {f \in Present : KindOf(f) \notin Unreadable}
Matching(r) == {f \in Readable : f[1] = r[1] /\ r[2] \in {0, f[2]}}

\* The first match in the order of numbers and slugs, if there is one.
Resolved(r) == {f \in Matching(r) : \A g \in Matching(r) : f[2] <= g[2]}

\* Mutant: only the records that can be read count.
NextReadable == Max({0} \cup {f[1] : f \in Readable}) + 1

\* Legacy and unreadable records count by the number in their file name.
NextNumber == Max({0} \cup {f[1] : f \in {g \in Present : g[1] <= MaxNumber}}) + 1

\* renderADRIndex lists what can be read; of its lines we keep those of
\* superseded records, with the successor.
Superseded == {f \in Readable : adr[f].kind = "madr" /\ adr[f].status = "superseded"}
Listing == {<<f, adr[f].by>> : f \in Superseded}

\* There is a first record, with front matter or from before it.
Init ==
  /\ \E kind \in {"madr", "legacy"} :
       adr = [f \in Name |-> IF f = <<1, MaxSlug>> THEN Fresh(kind, "accepted") ELSE None]
  /\ index = Listing
  /\ pc = "idle" /\ cmd = NoCommand
  /\ hands = {} /\ edited = {} /\ stops = 0 /\ changes = 0

------------------------------------------------------------------------------
(* The commands decide on what they read under the lock *)

Decide(c) ==
  /\ cmd' = c /\ pc' = "first"
  /\ UNCHANGED <<adr, index, hands, edited, stops, changes>>

\* adrCreateParsedLocked: refused when a file has exactly the new name.
Create(slug, status) ==
  LET f == <<NextNumber, slug>> IN
  /\ pc = "idle"
  /\ adr[f] = None
  /\ Decide([op |-> "create", old |-> f, new |-> NoName, status |-> status])

\* adrTransitions: from which statuses a verb leads to its status.
AllowedFrom(status) ==
  CASE status \in {"accepted", "rejected"} -> {"proposed"}
    [] status \in {"deprecated", "proposed"} -> {"accepted"}

\* adrSetStatusLocked, when it does not find the status already there.
SetStatus(r, status) ==
  /\ pc = "idle"
  /\ \E f \in Resolved(r) :
    /\ KindOf(f) = "madr"
    /\ adr[f].status \in AllowedFrom(status)
    /\ Decide([op |-> "set", old |-> f, new |-> NoName, status |-> status])

\* Mutant: a superseded record is refused, whatever replaced it.
NoRepeat(old, new) ==
  /\ KindOf(old) = "madr" /\ KindOf(new) = "madr" /\ old[1] # new[1]
  /\ adr[old].status = "accepted" /\ adr[new].status = "accepted"

\* adrSupersedeLocked: the old record is accepted, or superseded by this very
\* number, so that a supersession which stopped can be repeated.
Admitted(old, new) ==
  /\ KindOf(old) = "madr" /\ KindOf(new) = "madr" /\ old[1] # new[1]
  /\ \/ adr[old].status = "accepted"
     \/ adr[old].status = "superseded" /\ adr[old].by = new[1]
  /\ adr[new].status = "accepted"

Supersede(r, s) ==
  /\ pc = "idle"
  /\ \E old \in Resolved(r), new \in Resolved(s) :
    /\ Admitted(old, new)
    /\ Decide([op |-> "supersede", old |-> old, new |-> new, status |-> "superseded"])

------------------------------------------------------------------------------
(* The writes. rewriteADR reads the file again and changes what it has to. *)

\* It needs the delimiters of the front matter, and does not ask whether what is
\* between them can be parsed.
Rewritable(f) == f \in Present /\ adr[f].kind \in {"madr", "malformed"}

\* upsertADRMoreInformationLine: every line with the number of the old record
\* goes, and a link to it comes.
Linked(refs, old) == {f \in refs : f[1] # old[1]} \cup {old}

WriteNew ==
  /\ pc = "first" /\ cmd.op = "create"
  /\ adr' = [adr EXCEPT ![cmd.old] = Fresh("madr", cmd.status)]
  /\ pc' = "index"
  /\ UNCHANGED <<index, cmd, hands, edited, stops, changes>>

WriteStatus ==
  /\ pc = "first" /\ cmd.op = "set"
  /\ Rewritable(cmd.old)
  /\ adr' = [adr EXCEPT ![cmd.old].status = cmd.status, ![cmd.old].by = 0]
  /\ pc' = "index"
  /\ UNCHANGED <<index, cmd, hands, edited, stops, changes>>

\* Mutant: the successor is written first.
WriteSuccessorFirst ==
  /\ pc = "first" /\ cmd.op = "supersede"
  /\ Rewritable(cmd.new) /\ Rewritable(cmd.old)
  /\ adr' = [adr EXCEPT ![cmd.new].refs = Linked(@, cmd.old)]
  /\ pc' = "second"
  /\ UNCHANGED <<index, cmd, hands, edited, stops, changes>>

WriteOld ==
  /\ pc = "first" /\ cmd.op = "supersede"
  /\ Rewritable(cmd.old)
  /\ adr' = [adr EXCEPT ![cmd.old].status = "superseded",
                        ![cmd.old].by = cmd.new[1], ![cmd.old].note = cmd.new]
  /\ pc' = "second"
  /\ UNCHANGED <<index, cmd, hands, edited, stops, changes>>

WriteSuccessor ==
  /\ pc = "second"
  /\ Rewritable(cmd.new)
  /\ adr' = [adr EXCEPT ![cmd.new].refs = Linked(@, cmd.old)]
  /\ pc' = "index"
  /\ UNCHANGED <<index, cmd, hands, edited, stops, changes>>

\* writeIndexes, and the report of success.
WriteIndex ==
  /\ pc = "index"
  /\ index' = Listing
  /\ pc' = "idle" /\ cmd' = NoCommand
  /\ UNCHANGED <<adr, hands, edited, stops, changes>>

Ends ==
  /\ pc' = "idle" /\ cmd' = NoCommand
  /\ UNCHANGED <<adr, index, hands, edited, changes>>

\* The file to rewrite is gone or its front matter not closed: the command fails
\* there.
CannotRewrite ==
  /\ \/ pc = "first" /\ cmd.op # "create" /\ ~Rewritable(cmd.old)
     \/ pc = "second" /\ ~Rewritable(cmd.new)
  /\ Ends /\ UNCHANGED stops

\* A write fails, or the process dies before it.
Stop == pc # "idle" /\ stops < MaxStops /\ stops' = stops + 1 /\ Ends

------------------------------------------------------------------------------
(* Users and their branches, at any moment *)

ByHand ==
  /\ changes < MaxHands /\ changes' = changes + 1
  /\ UNCHANGED <<index, pc, cmd, stops>>

\* Another status, without regard to the lifecycle.
HandEdits(f, status) ==
  /\ ByHand /\ f \in Readable
  /\ adr' = [adr EXCEPT ![f].status = status, ![f].by = 0]
  /\ edited' = edited \cup {f} /\ UNCHANGED hands

\* Conflict markers in the front matter, or across its delimiter; and their removal.
HandSpoils(f, kind) ==
  /\ ByHand /\ f \in Readable /\ adr[f].kind = "madr"
  /\ adr' = [adr EXCEPT ![f].kind = kind]
  /\ UNCHANGED <<hands, edited>>

HandRepairs(f) ==
  /\ f \in Present /\ adr[f].kind \in Unreadable
  /\ adr' = [adr EXCEPT ![f].kind = "madr"]
  /\ UNCHANGED <<index, pc, cmd, hands, edited, stops, changes>>

\* A file that was created on another branch, where its number was free too.
HandMerges(f) ==
  /\ ByHand /\ f[1] <= MaxNumber /\ adr[f] = None
  /\ adr' = [adr EXCEPT ![f] = Fresh("madr", "accepted")]
  /\ hands' = hands \cup {"merged"} /\ UNCHANGED edited

HandDeletes(f) ==
  /\ ByHand /\ f \in Present
  /\ adr' = [adr EXCEPT ![f] = None]
  /\ hands' = hands \cup {"deleted"} /\ edited' = edited \cup {f}

Next ==
  \/ \E slug \in Title, status \in Given : Create(slug, status)
  \/ \E r \in Ref, status \in Plain : SetStatus(r, status)
  \/ \E r, s \in Ref : Supersede(r, s)
  \/ WriteNew \/ WriteStatus \/ WriteOld \/ WriteSuccessor \/ WriteIndex
  \/ CannotRewrite \/ Stop
  \/ \E f \in Name : \/ \E status \in Given : HandEdits(f, status)
                     \/ \E kind \in Unreadable : HandSpoils(f, kind)
                     \/ HandRepairs(f)
                     \/ HandMerges(f) \/ HandDeletes(f)

Spec == Init /\ [][Next]_vars

------------------------------------------------------------------------------
(* What must hold *)

\* validateADRs: the numbers of more than one file, and the records superseded
\* by a number that no file has.
Holders(n) == {f \in Present : f[1] = n /\ n <= MaxNumber}
DuplicateID == {n \in 1 .. MaxNumber : Cardinality(Holders(n)) > 1}
SupersedeMissing == {f \in Superseded : Holders(adr[f].by) = {}}

\* Superseded records all of whose successors are among them.
Circular(S) ==
  S # {} /\ \A f \in S : \E g \in S : g[1] = adr[f].by

\* Whatever stops, and whatever users do to the content of records: the
\* commands alone never give two files one number (adr_duplicate_id), leave a
\* record superseded by nothing (adr_supersede_missing), or supersede records
\* in a circle, so that whoever follows "superseded by" gets to the decision
\* that stands. What can: a merge of branches, and for the second a deletion.
SuccessionIsSound ==
  "merged" \notin hands =>
    /\ DuplicateID = {}
    /\ "deleted" \notin hands => SupersedeMissing = {}
    /\ \A S \in SUBSET Superseded : ~Circular(S)

\* The two writes of a supersession come in this order: where a record says
\* that it supersedes another one, that one says so too, also after a stop in
\* between, and no later command of the lifecycle takes it back.
ReferencesAreBacked ==
  \A new \in Present : \A old \in adr[new].refs \ edited :
    adr[old] # None /\ adr[old].status = "superseded" /\ adr[old].by = new[1]

HalfDone(old, new) ==
  /\ adr[old] # None /\ adr[old].status = "superseded" /\ adr[old].note = new
  /\ adr[new] # None /\ old \notin adr[new].refs

Succeeds == pc' = "idle" /\ stops' = stops

Whole(old, new) ==
  /\ adr[old].status = "superseded" /\ adr[old].by = new[1] /\ adr[old].note = new
  /\ old \in adr[new].refs
  /\ <<old, new[1]>> \in index

\* A supersession that stopped half-way is not lost: it can be repeated as long
\* as its successor is accepted; and when the command reports success, the
\* first time or as a repetition, both records refer to each other and the
\* index says so, unless users changed one of the two.
SupersessionIsFinished ==
  [][ /\ pc = "idle" => \A old, new \in Readable \ edited :
           HalfDone(old, new) /\ adr[new].status = "accepted" => Admitted(old, new)
      /\ pc = "index" /\ Succeeds /\ cmd.op = "supersede" =>
           \A old \in {cmd.old} \cap (Readable \ edited), new \in {cmd.new} \ edited :
             Whole(old, new)' ]_vars

------------------------------------------------------------------------------
(* Why it holds: the inductive invariant *)

\* The superseded records, the spoilt ones included.
Replaced == {f \in Present : adr[f].status = "superseded"}

\* The file n has a record with front matter, unless users had to do with it.
Stands(n) == n \in edited \/ (adr[n] # None /\ adr[n].kind # "legacy")

\* Without merges every number has one record, and the number that a create is
\* about to use, or the one of the successor, no other.
NumbersAreUnique ==
  "merged" \notin hands =>
    /\ \A f, g \in Present : f[1] = g[1] /\ f[1] <= MaxNumber => f = g
    /\ pc = "first" /\ cmd.op = "create" =>
         \A g \in Present : g[1] = cmd.old[1] => g[1] > MaxNumber
    /\ pc = "first" /\ cmd.op = "supersede" =>
         \A g \in Present : g[1] = cmd.new[1] => g = cmd.new

\* A superseded record names another one, in the same way twice.
SuccessorsAreNamed ==
  \A f \in Replaced :
    /\ adr[f].kind # "legacy" /\ f[1] <= MaxNumber
    /\ adr[f].note \in Name /\ adr[f].note[1] <= MaxNumber
    /\ adr[f].by = adr[f].note[1] /\ adr[f].by # f[1]
    /\ Stands(adr[f].note)
    /\ "deleted" \notin hands => adr[adr[f].note] # None

NoCircle == "merged" \notin hands => \A S \in SUBSET Replaced : ~Circular(S)

\* What a command has decided stays right until it has written it. Users may
\* change a record meanwhile, but not to the status superseded.
SupersessionStands ==
  pc # "idle" /\ cmd.op = "supersede" =>
    /\ cmd.old \in Name /\ cmd.new \in Name /\ cmd.old[1] # cmd.new[1]
    /\ cmd.old[1] <= MaxNumber /\ cmd.new[1] <= MaxNumber
    /\ Stands(cmd.new)
    /\ "deleted" \notin hands => adr[cmd.new] # None
    /\ pc = "first" =>
         /\ cmd.new \notin Replaced
         /\ cmd.old \in Replaced => adr[cmd.old].by = cmd.new[1]
    /\ pc \in {"second", "index"} =>
         cmd.old \in edited \/ (cmd.old \in Replaced /\ adr[cmd.old].note = cmd.new)
    /\ pc = "index" =>
         cmd.new \in edited \/ (adr[cmd.new] # None /\ cmd.old \in adr[cmd.new].refs)

CommandStands ==
  /\ pc = "second" => cmd.op = "supersede"
  /\ pc # "idle" /\ cmd.op \in {"create", "set"} =>
       /\ cmd.old \in Name /\ cmd.status \in Plain
       /\ pc = "first" => cmd.old \notin Replaced
  /\ SupersessionStands

IInv ==
  /\ TypeOK /\ NumbersAreUnique /\ SuccessorsAreNamed /\ NoCircle
  /\ ReferencesAreBacked /\ CommandStands
===============================================================================
