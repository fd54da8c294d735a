-------------------------- MODULE AdrLifecycleProofs --------------------------
(***************************************************************************)
(* Proofs about AdrLifecycle, for every number of records, every set of    *)
(* titles and of statuses that users give, and any number of stops and of  *)
(* changes by hand.                                                        *)
(***************************************************************************)
EXTENDS AdrLifecycle, FiniteSetTheorems, WellFoundedInduction, TLAPS

------------------------------------------------------------------------------
(* Names, records and numbers *)

LEMMA NameShape ==
  ASSUME NEW f \in Name
  PROVE  f = <<f[1], f[2]>> /\ f[1] \in 1 .. MaxNumber + 1 /\ f[2] \in Slug /\ f # NoName
BY ConstantsAssumption DEF Name, NoName, Slug

LEMMA FreshTyped ==
  ASSUME NEW kind \in {"madr", "legacy"}, NEW status \in Plain
  PROVE  /\ Fresh(kind, status) \in Record
         /\ Fresh(kind, status) # None
         /\ Fresh(kind, status).status # "superseded"
BY ConstantsAssumption DEF Fresh, Record, Status, Plain

\* The record x with another status and successor.
With(x, status, by) == [x EXCEPT !.status = status, !.by = by]

LEMMA StatusChanged ==
  ASSUME NEW x \in Record, NEW status \in Status, NEW by \in 0 .. MaxNumber
  PROVE  /\ With(x, status, by) \in Record /\ With(x, status, by) # None
         /\ With(x, status, by).status = status /\ With(x, status, by).by = by
         /\ With(x, status, by).kind = x.kind /\ With(x, status, by).note = x.note
         /\ With(x, status, by).refs = x.refs
<1> DEFINE r == With(x, status, by)
<1>1. r \in Record
  BY DEF Record, With
<1>2. /\ r.status = status /\ r.by = by
      /\ r.kind = x.kind /\ r.note = x.note /\ r.refs = x.refs
  BY DEF Record, With
<1> QED
  BY <1>1, <1>2, ConstantsAssumption

LEMMA RecordTyped ==
  ASSUME TypeOK, NEW f \in Present
  PROVE  f \in Name /\ adr[f] \in Record /\ adr[f] # None
BY DEF TypeOK, Present

\* A set of naturals with an upper bound has a greatest element, which Max gives.
LEMMA MaxIsGreatest ==
  ASSUME NEW N \in Nat, NEW S \in SUBSET (0 .. N), S # {}
  PROVE  Max(S) \in S /\ \A y \in S : y <= Max(S)
<1> DEFINE Bound == {u \in Nat : \A y \in S : y <= u}
<1>1. N \in Bound
  OBVIOUS
<1>2. PICK g \in Bound : \A u \in Bound : ~(<<u, g>> \in OpToRel(<, Nat))
  BY <1>1, NatLessThanWellFounded, WFMin, Zenon
<1>3. g \in S
  <2> SUFFICES ASSUME g \notin S PROVE FALSE
    OBVIOUS
  <2>1. PICK y \in S : TRUE
    OBVIOUS
  <2>2. y <= g /\ y # g /\ y \in Nat /\ g \in Nat
    BY <2>1
  <2>3. g - 1 \in Bound
    BY <2>2
  <2>4. <<g - 1, g>> \in OpToRel(<, Nat)
    BY <2>2 DEF OpToRel
  <2> QED
    BY <2>3, <2>4, <1>2
<1>4. \A y \in S : g >= y
  BY <1>3
<1>5. Max(S) \in S /\ \A y \in S : Max(S) >= y
  BY <1>3, <1>4, Zenon DEF Max
<1> QED
  BY <1>5

\* nextADRID is above the number of every file whose name has three digits.
LEMMA NextNumberIsFree ==
  ASSUME TypeOK
  PROVE  /\ NextNumber \in 1 .. MaxNumber + 1
         /\ \A g \in Present : g[1] = NextNumber => g[1] > MaxNumber
<1> DEFINE T == {f[1] : f \in {g \in Present : g[1] <= MaxNumber}}
<1> DEFINE S == {0} \cup T
<1>1. \A g \in Present : g[1] \in 1 .. MaxNumber + 1
  BY NameShape, RecordTyped
<1>2. S \in SUBSET (0 .. MaxNumber) /\ S # {} /\ MaxNumber \in Nat
  BY <1>1, ConstantsAssumption
<1>3. Max(S) \in S /\ \A y \in S : y <= Max(S)
  BY <1>2, MaxIsGreatest
<1>4. NextNumber = Max(S) + 1
  BY DEF NextNumber
<1>5. NextNumber \in 1 .. MaxNumber + 1
  BY <1>2, <1>3, <1>4
<1>6. ASSUME NEW g \in Present, g[1] = NextNumber, g[1] <= MaxNumber
      PROVE  FALSE
  <2>1. g[1] \in S
    BY <1>6
  <2>2. g[1] <= Max(S)
    BY <2>1, <1>3
  <2>3. Max(S) \in Nat
    BY <1>2, <1>3
  <2> HIDE DEF S, T
  <2> QED
    BY <2>2, <2>3, <1>4, <1>6
<1>7. \A g \in Present : g[1] = NextNumber => g[1] > MaxNumber
  BY <1>1, <1>6, ConstantsAssumption
<1> QED
  BY <1>5, <1>7

LEMMA ResolvedIsReadable ==
  ASSUME TypeOK, NEW r, NEW f \in Resolved(r)
  PROVE  /\ f \in Present /\ f[1] <= MaxNumber
         /\ KindOf(f) = adr[f].kind /\ adr[f].kind \notin Unreadable
<1>1. f \in Present /\ KindOf(f) \notin Unreadable
  BY DEF Resolved, Matching, Readable
<1>2. f[1] \in 1 .. MaxNumber + 1
  BY <1>1, NameShape, RecordTyped
<1> QED
  BY <1>1, <1>2, ConstantsAssumption DEF KindOf, Unreadable

LEMMA RewritableShape ==
  ASSUME TypeOK, NEW f \in Name, Rewritable(f)
  PROVE  f \in Present /\ adr[f] \in Record /\ adr[f].kind # "legacy"
<1>1. f \in Present /\ adr[f].kind # "legacy"
  BY DEF Rewritable
<1> QED
  BY <1>1, RecordTyped

------------------------------------------------------------------------------
(* What most steps have in common: they supersede nothing and refer to nothing *)

\* Superseded records may go, or be edited, and references may go; those that
\* stay are as they were.
Mild ==
  /\ edited \subseteq edited'
  /\ hands \subseteq hands'
  /\ "deleted" \notin hands' => Present \subseteq Present'
  /\ \A n \in Name : Stands(n) => Stands(n)'
  /\ \A f \in Replaced' : /\ f \in Replaced /\ adr'[f].kind # "legacy"
                          /\ adr'[f].by = adr[f].by /\ adr'[f].note = adr[f].note
  /\ \A f \in Replaced : f \in Replaced' \/ f \in edited'

NoNewReference ==
  \A n \in Present' : \/ adr'[n].refs = {}
                      \/ n \in Present /\ adr'[n].refs = adr[n].refs

\* No action of users puts records into a file that a command may be about.
Aside ==
  /\ "merged" \notin hands' => Present' \subseteq Present
  /\ \A n \in Present : n \in edited' \/ (n \in Present' /\ adr'[n].refs = adr[n].refs)

LEMMA MildKeepsSuccessors ==
  ASSUME IInv, Mild
  PROVE  SuccessorsAreNamed'
<1> SUFFICES ASSUME NEW f \in Replaced'
             PROVE  /\ adr'[f].kind # "legacy" /\ f[1] <= MaxNumber
                    /\ adr'[f].note \in Name /\ adr'[f].note[1] <= MaxNumber
                    /\ adr'[f].by = adr'[f].note[1] /\ adr'[f].by # f[1]
                    /\ Stands(adr[f].note)'
                    /\ "deleted" \notin hands' => adr'[adr'[f].note] # None
  BY DEF SuccessorsAreNamed
<1>1. /\ f \in Replaced /\ adr'[f].kind # "legacy"
      /\ adr'[f].by = adr[f].by /\ adr'[f].note = adr[f].note
  BY DEF Mild
<1>2. /\ f[1] <= MaxNumber
      /\ adr[f].note \in Name /\ adr[f].note[1] <= MaxNumber
      /\ adr[f].by = adr[f].note[1] /\ adr[f].by # f[1]
      /\ Stands(adr[f].note)
      /\ "deleted" \notin hands => adr[adr[f].note] # None
  BY <1>1 DEF IInv, SuccessorsAreNamed
<1>3. \A n \in Name : Stands(n) => Stands(n)'
  BY DEF Mild
<1>4. Stands(adr[f].note)'
  BY <1>1, <1>2, <1>3 DEF Stands
<1>5. "deleted" \notin hands' => adr'[adr[f].note] # None
  BY <1>2 DEF Mild, Present
<1> QED
  BY <1>1, <1>2, <1>4, <1>5

\* A circle of superseded records would have been there before.
LEMMA MildKeepsCircles ==
  ASSUME IInv, Mild
  PROVE  NoCircle'
<1> SUFFICES ASSUME "merged" \notin hands', NEW S \in SUBSET Replaced', Circular(S)'
             PROVE  FALSE
  BY DEF NoCircle
<1>1. "merged" \notin hands /\ S \in SUBSET Replaced
  BY DEF Mild
<1>2. \A f \in S : adr'[f].by = adr[f].by
  BY DEF Mild
<1>3. Circular(S)
  BY <1>2 DEF Circular
<1> QED
  BY <1>1, <1>3 DEF IInv, NoCircle

LEMMA MildKeepsReferences ==
  ASSUME IInv, Mild, NoNewReference
  PROVE  ReferencesAreBacked'
<1> SUFFICES ASSUME NEW new \in Present', NEW old \in adr'[new].refs \ edited'
             PROVE  adr'[old] # None /\ adr'[old].status = "superseded" /\ adr'[old].by = new[1]
  BY DEF ReferencesAreBacked
<1>1. new \in Present /\ old \in adr[new].refs \ edited
  BY DEF Mild, NoNewReference
<1>2. adr[old] # None /\ adr[old].status = "superseded" /\ adr[old].by = new[1]
  BY <1>1 DEF IInv, ReferencesAreBacked
<1>3. old \in Name
  BY <1>1, RecordTyped DEF Record, IInv
<1>4. old \in Replaced
  BY <1>2, <1>3 DEF Replaced, Present
<1>5. old \in Replaced' /\ adr'[old].by = adr[old].by
  BY <1>4 DEF Mild
<1> QED
  BY <1>2, <1>5 DEF Replaced, Present

\* The step of somebody else leaves to a command what it relies on.
LEMMA AsideKeeps ==
  ASSUME IInv, TypeOK', Mild, NoNewReference, Aside, UNCHANGED <<pc, cmd>>
  PROVE  IInv'
<1>1. NumbersAreUnique'
  BY DEF IInv, NumbersAreUnique, Mild, Aside
<1>2. SupersessionStands'
  <2> SUFFICES ASSUME pc # "idle", cmd.op = "supersede"
               PROVE  SupersessionStands'
    BY DEF SupersessionStands
  <2>1. SupersessionStands
    BY DEF IInv, CommandStands
  <2>2. /\ cmd.old \in Name /\ cmd.new \in Name /\ cmd.old[1] # cmd.new[1]
        /\ cmd.old[1] <= MaxNumber /\ cmd.new[1] <= MaxNumber
        /\ Stands(cmd.new)
        /\ "deleted" \notin hands => adr[cmd.new] # None
    BY <2>1 DEF SupersessionStands
  <2>3. Stands(cmd.new)'
    <3>1. \A n \in Name : Stands(n) => Stands(n)'
      BY DEF Mild
    <3> QED
      BY <2>2, <3>1 DEF Stands
  <2>4. "deleted" \notin hands' => adr'[cmd.new] # None
    BY <2>2 DEF Mild, Present
  <2>5. pc = "first" =>
          /\ cmd.new \notin Replaced'
          /\ cmd.old \in Replaced' => adr'[cmd.old].by = cmd.new[1]
    BY <2>1 DEF SupersessionStands, Mild
  <2>6. pc \in {"second", "index"} =>
          cmd.old \in edited' \/ (cmd.old \in Replaced' /\ adr'[cmd.old].note = cmd.new)
    BY <2>1 DEF SupersessionStands, Mild
  <2>7. pc = "index" =>
          cmd.new \in edited' \/ (adr'[cmd.new] # None /\ cmd.old \in adr'[cmd.new].refs)
    BY <2>1, <2>2 DEF SupersessionStands, Mild, Aside, Present
  <2> QED
    BY <2>2, <2>3, <2>4, <2>5, <2>6, <2>7 DEF SupersessionStands
<1>3. CommandStands'
  BY <1>2 DEF IInv, CommandStands, Mild
<1> QED
  BY <1>1, <1>3, MildKeepsSuccessors, MildKeepsCircles, MildKeepsReferences DEF IInv

------------------------------------------------------------------------------
(* Steps that change one file *)

LEMMA OneFile ==
  ASSUME TypeOK, NEW f \in Name, NEW r \in Record \cup {None},
         adr' = [adr EXCEPT ![f] = r]
  PROVE  /\ adr' \in [Name -> Record \cup {None}]
         /\ adr'[f] = r
         /\ \A g \in Name \ {f} : adr'[g] = adr[g]
         /\ Present' \subseteq Present \cup {f}
         /\ r # None => Present' = Present \cup {f}
BY DEF TypeOK, Present

\* What has to be seen of the one file that a mild step changes.
LEMMA MildAtOneFile ==
  ASSUME TypeOK, NEW f \in Name, NEW r \in Record \cup {None},
         adr' = [adr EXCEPT ![f] = r],
         edited \subseteq edited', hands \subseteq hands',
         "deleted" \notin hands' => (adr[f] # None => r # None),
         f \in edited' \/ (adr[f] # None /\ adr[f].kind # "legacy" => r # None /\ r.kind # "legacy"),
         r # None /\ r.status = "superseded" =>
           /\ adr[f] # None /\ adr[f].status = "superseded" /\ r.kind # "legacy"
           /\ r.by = adr[f].by /\ r.note = adr[f].note,
         adr[f] # None /\ adr[f].status = "superseded" =>
           f \in edited' \/ (r # None /\ r.status = "superseded"),
         \A g \in Replaced : adr[g].kind # "legacy"
  PROVE  /\ Mild
         /\ (r # None => r.refs = {} \/ (adr[f] # None /\ r.refs = adr[f].refs))
              => NoNewReference
<1>1. /\ adr'[f] = r
      /\ \A g \in Name \ {f} : adr'[g] = adr[g]
  BY OneFile
<1>2. "deleted" \notin hands' => Present \subseteq Present'
  BY <1>1 DEF Present
<1>3. ASSUME NEW n \in Name, Stands(n)
      PROVE  Stands(n)'
  BY <1>1, <1>3 DEF Stands
<1>4. ASSUME NEW g \in Replaced'
      PROVE  /\ g \in Replaced /\ adr'[g].kind # "legacy"
             /\ adr'[g].by = adr[g].by /\ adr'[g].note = adr[g].note
  <2>1. g \in Name /\ adr'[g] # None /\ adr'[g].status = "superseded"
    BY <1>4 DEF Replaced, Present
  <2>2. CASE g = f
    BY <1>1, <2>1, <2>2 DEF Replaced, Present
  <2>3. CASE g # f
    <3>1. g \in Replaced
      BY <1>1, <2>1, <2>3 DEF Replaced, Present
    <3> QED
      BY <1>1, <2>1, <2>3, <3>1
  <2> QED
    BY <2>2, <2>3
<1>5. \A g \in Replaced : g \in Replaced' \/ g \in edited'
  BY <1>1 DEF Replaced, Present
<1>6. (r # None => r.refs = {} \/ (adr[f] # None /\ r.refs = adr[f].refs))
        => NoNewReference
  BY <1>1 DEF NoNewReference, Present
<1> QED
  BY <1>2, <1>3, <1>4, <1>5, <1>6 DEF Mild

LEMMA HandEditsKeeps ==
  ASSUME IInv, NEW f \in Name, NEW status \in Given, HandEdits(f, status)
  PROVE  IInv'
<1> DEFINE r == With(adr[f], status, 0)
<1>1. f \in Present /\ adr[f] \in Record /\ adr[f] # None /\ TypeOK
  BY RecordTyped DEF HandEdits, Readable, IInv
<1>2. status \in Plain
  BY ConstantsAssumption DEF Plain
<1>3. /\ r \in Record /\ r # None /\ r.status = status /\ r.refs = adr[f].refs
      /\ r.kind = adr[f].kind
  <2>1. status \in Status /\ 0 \in 0 .. MaxNumber
    BY <1>2, ConstantsAssumption DEF Status
  <2> QED
    BY <1>1, <2>1, StatusChanged
<1>4. adr' = [adr EXCEPT ![f] = r]
  BY <1>1 DEF HandEdits, TypeOK, With
<1>5. /\ edited' = edited \cup {f} /\ hands' = hands
      /\ index' = index /\ pc' = pc /\ cmd' = cmd /\ stops' = stops
      /\ changes < MaxHands /\ changes' = changes + 1
  BY DEF HandEdits, ByHand
<1> HIDE DEF r
<1>6. TypeOK'
  BY <1>1, <1>3, <1>4, <1>5, OneFile, ConstantsAssumption DEF TypeOK
<1>7. Mild /\ NoNewReference
  BY <1>1, <1>2, <1>3, <1>4, <1>5, MildAtOneFile DEF IInv, SuccessorsAreNamed, Plain
<1>8. Aside
  BY <1>1, <1>3, <1>4, <1>5, OneFile DEF Aside, Present
<1> QED
  BY <1>5, <1>6, <1>7, <1>8, AsideKeeps

LEMMA HandSpoilsKeeps ==
  ASSUME IInv, NEW f \in Name,
         (\E kind \in Unreadable : HandSpoils(f, kind)) \/ HandRepairs(f)
  PROVE  IInv'
<1>1. /\ f \in Present /\ adr[f] \in Record /\ adr[f] # None /\ adr[f].kind # "legacy"
      /\ TypeOK
  BY RecordTyped DEF HandSpoils, HandRepairs, Readable, Unreadable, IInv
<1>2. PICK kind \in {"madr"} \cup Unreadable : adr' = [adr EXCEPT ![f].kind = kind]
  BY DEF HandSpoils, HandRepairs
<1> DEFINE r == [adr[f] EXCEPT !.kind = kind]
<1>3. /\ r \in Record /\ r # None /\ r.status = adr[f].status /\ r.refs = adr[f].refs
      /\ r.kind = kind /\ r.by = adr[f].by /\ r.note = adr[f].note
      /\ r.kind # "legacy"
  BY <1>1, ConstantsAssumption DEF Record, Unreadable
<1>4. adr' = [adr EXCEPT ![f] = r]
  BY <1>1, <1>2 DEF TypeOK
<1>5. /\ edited' = edited /\ hands' = hands
      /\ index' = index /\ pc' = pc /\ cmd' = cmd /\ stops' = stops
      /\ changes' \in 0 .. MaxHands
  BY <1>1, ConstantsAssumption DEF HandSpoils, HandRepairs, ByHand, TypeOK
<1> HIDE DEF r
<1>6. TypeOK'
  BY <1>1, <1>3, <1>4, <1>5, OneFile DEF TypeOK
<1>7. Mild /\ NoNewReference
  BY <1>1, <1>3, <1>4, <1>5, MildAtOneFile DEF IInv, SuccessorsAreNamed
<1>8. Aside
  BY <1>1, <1>3, <1>4, <1>5, OneFile DEF Aside, Present
<1> QED
  BY <1>5, <1>6, <1>7, <1>8, AsideKeeps

LEMMA HandMergesKeeps ==
  ASSUME IInv, NEW f \in Name, HandMerges(f)
  PROVE  IInv'
<1> DEFINE r == Fresh("madr", "accepted")
<1>1. f \notin Present /\ TypeOK
  BY DEF HandMerges, Present, IInv
<1>2. /\ r \in Record /\ r # None /\ r.status # "superseded"
      /\ r.refs = {} /\ r.kind = "madr"
  BY FreshTyped DEF Plain, Fresh
<1>3. adr' = [adr EXCEPT ![f] = r]
  BY DEF HandMerges
<1>4. /\ edited' = edited /\ hands' = hands \cup {"merged"}
      /\ index' = index /\ pc' = pc /\ cmd' = cmd /\ stops' = stops
      /\ changes' \in 0 .. MaxHands
  BY <1>1, ConstantsAssumption DEF HandMerges, ByHand, TypeOK
<1> HIDE DEF r
<1>5. TypeOK'
  BY <1>1, <1>2, <1>3, <1>4, OneFile DEF TypeOK
<1>6. Mild /\ NoNewReference
  BY <1>1, <1>2, <1>3, <1>4, MildAtOneFile DEF IInv, SuccessorsAreNamed, Present
<1>7. Aside
  BY <1>1, <1>2, <1>3, <1>4, OneFile DEF Aside, Present
<1> QED
  BY <1>4, <1>5, <1>6, <1>7, AsideKeeps

LEMMA HandDeletesKeeps ==
  ASSUME IInv, NEW f \in Name, HandDeletes(f)
  PROVE  IInv'
<1>1. TypeOK /\ None \in Record \cup {None} /\ adr' = [adr EXCEPT ![f] = None]
  BY DEF HandDeletes, IInv
<1>2. /\ edited' = edited \cup {f} /\ hands' = hands \cup {"deleted"}
      /\ index' = index /\ pc' = pc /\ cmd' = cmd /\ stops' = stops
      /\ changes' \in 0 .. MaxHands
  BY <1>1, ConstantsAssumption DEF HandDeletes, ByHand, TypeOK
<1>3. TypeOK'
  BY <1>1, <1>2, OneFile DEF TypeOK
<1>4. Mild /\ NoNewReference
  BY <1>1, <1>2, MildAtOneFile DEF IInv, SuccessorsAreNamed
<1>5. Aside
  BY <1>1, <1>2, OneFile DEF Aside, Present
<1> QED
  BY <1>2, <1>3, <1>4, <1>5, AsideKeeps

------------------------------------------------------------------------------
(* Steps that change no record *)

LEMMA QuietIsMild ==
  ASSUME IInv, UNCHANGED <<adr, hands, edited>>
  PROVE  /\ Mild /\ NoNewReference /\ Present' = Present /\ Replaced' = Replaced
         /\ \A n : Stands(n)' <=> Stands(n)
<1>1. Present' = Present
  BY DEF Present
<1>2. Replaced' = Replaced
  BY <1>1 DEF Replaced
<1>3. \A n : Stands(n)' <=> Stands(n)
  BY DEF Stands
<1>4. \A f \in Replaced : adr[f].kind # "legacy"
  BY DEF IInv, SuccessorsAreNamed
<1> QED
  BY <1>1, <1>2, <1>3, <1>4 DEF Mild, NoNewReference

LEMMA EndingKeeps ==
  ASSUME IInv, CannotRewrite \/ Stop \/ WriteIndex
  PROVE  IInv'
<1>1. /\ UNCHANGED <<adr, hands, edited, changes>>
      /\ pc' = "idle" /\ cmd' = NoCommand
      /\ stops' \in 0 .. MaxStops
  BY ConstantsAssumption DEF IInv, TypeOK, CannotRewrite, Stop, WriteIndex, Ends
<1>2. Mild /\ NoNewReference /\ Present' = Present
  BY <1>1, QuietIsMild
<1>3. index' \subseteq Name \X (1 .. MaxNumber)
  <2>1. CASE WriteIndex
    <3> SUFFICES ASSUME NEW f \in Superseded
                 PROVE  f \in Name /\ adr[f].by \in 1 .. MaxNumber
      BY <2>1 DEF WriteIndex, Listing
    <3>1. f \in Replaced /\ f \in Name
      BY DEF Superseded, Readable, Replaced, Present
    <3>2. adr[f].note \in Name /\ adr[f].by = adr[f].note[1] /\ adr[f].by <= MaxNumber
      BY <3>1 DEF IInv, SuccessorsAreNamed
    <3>3. adr[f].by \in 1 .. MaxNumber + 1
      BY <3>2, NameShape
    <3> QED
      BY <3>1, <3>2, <3>3, ConstantsAssumption
  <2>2. CASE CannotRewrite \/ Stop
    BY <2>2 DEF CannotRewrite, Stop, Ends, IInv, TypeOK
  <2> QED
    BY <2>1, <2>2
<1>4. NoCommand \in Command
  BY DEF NoCommand, Command, Status, Plain
<1>5. TypeOK'
  BY <1>1, <1>3, <1>4 DEF IInv, TypeOK
<1>6. NumbersAreUnique'
  BY <1>1, <1>2 DEF IInv, NumbersAreUnique
<1>7. CommandStands'
  BY <1>1 DEF CommandStands, SupersessionStands
<1> QED
  BY <1>2, <1>5, <1>6, <1>7, MildKeepsSuccessors, MildKeepsCircles, MildKeepsReferences
     DEF IInv

\* A command that decides has to have decided right.
LEMMA DecideKeeps ==
  ASSUME IInv, NEW c \in Command, Decide(c),
         c.op \in {"create", "set"} =>
           c.old \in Name /\ c.status \in Plain /\ c.old \notin Replaced,
         c.op = "create" => \A g \in Present : g[1] = c.old[1] => g[1] > MaxNumber,
         c.op = "supersede" =>
           /\ c.old \in Present /\ c.new \in Present /\ c.old[1] # c.new[1]
           /\ c.old[1] <= MaxNumber /\ c.new[1] <= MaxNumber
           /\ adr[c.new].kind = "madr" /\ c.new \notin Replaced
           /\ c.old \in Replaced => adr[c.old].by = c.new[1]
  PROVE  IInv'
<1>1. /\ UNCHANGED <<adr, index, hands, edited, stops, changes>>
      /\ pc' = "first" /\ cmd' = c
  BY DEF Decide
<1>2. /\ Mild /\ NoNewReference /\ Present' = Present /\ Replaced' = Replaced
      /\ \A n : Stands(n)' <=> Stands(n)
  BY <1>1, QuietIsMild
<1>3. TypeOK'
  BY <1>1 DEF IInv, TypeOK
<1>4. NumbersAreUnique'
  BY <1>1, <1>2 DEF IInv, NumbersAreUnique
<1>5. SupersessionStands'
  BY <1>1, <1>2 DEF SupersessionStands, Stands, Present
<1>6. CommandStands'
  BY <1>1, <1>2, <1>5 DEF CommandStands
<1> QED
  BY <1>2, <1>3, <1>4, <1>6, MildKeepsSuccessors, MildKeepsCircles, MildKeepsReferences
     DEF IInv

LEMMA CreateKeeps ==
  ASSUME IInv, NEW slug \in Title, NEW status \in Given, Create(slug, status)
  PROVE  IInv'
<1> DEFINE f == <<NextNumber, slug>>
<1> DEFINE c == [op |-> "create", old |-> f, new |-> NoName, status |-> status]
<1>1. TypeOK
  BY DEF IInv
<1>2. f \in Name /\ \A g \in Present : g[1] = f[1] => g[1] > MaxNumber
  BY <1>1, NextNumberIsFree, ConstantsAssumption DEF Name, Slug
<1>3. status \in Plain
  BY ConstantsAssumption DEF Plain
<1>4. adr[f] = None /\ Decide(c)
  BY DEF Create
<1>5. c \in Command
  BY <1>2, <1>3 DEF Command, Status
<1>6. f \notin Replaced
  BY <1>4 DEF Replaced, Present
<1>7. c.op = "create" /\ c.old = f /\ c.status = status
  OBVIOUS
<1> HIDE DEF c, f
<1> QED
  BY <1>2, <1>3, <1>4, <1>5, <1>6, <1>7, DecideKeeps

LEMMA SetStatusKeeps ==
  ASSUME IInv, NEW r \in Ref, NEW status \in Plain, SetStatus(r, status)
  PROVE  IInv'
<1>1. PICK f \in Resolved(r) :
        /\ adr[f].status \in AllowedFrom(status)
        /\ Decide([op |-> "set", old |-> f, new |-> NoName, status |-> status])
  BY DEF SetStatus
<1> DEFINE c == [op |-> "set", old |-> f, new |-> NoName, status |-> status]
<1>2. f \in Present /\ f \in Name
  BY ResolvedIsReadable, RecordTyped DEF IInv
<1>3. f \notin Replaced
  BY <1>1 DEF Replaced, AllowedFrom, Plain
<1>4. c \in Command
  BY <1>2 DEF Command, Status
<1>5. c.op = "set" /\ c.old = f /\ c.status = status
  OBVIOUS
<1>6. Decide(c)
  BY <1>1
<1> HIDE DEF c
<1> QED
  BY <1>2, <1>3, <1>4, <1>5, <1>6, DecideKeeps

LEMMA SupersedeKeeps ==
  ASSUME IInv, NEW r \in Ref, NEW s \in Ref, Supersede(r, s)
  PROVE  IInv'
<1>1. PICK old \in Resolved(r), new \in Resolved(s) :
        /\ Admitted(old, new)
        /\ Decide([op |-> "supersede", old |-> old, new |-> new, status |-> "superseded"])
  BY DEF Supersede
<1> DEFINE c == [op |-> "supersede", old |-> old, new |-> new, status |-> "superseded"]
<1>2. /\ old \in Present /\ old \in Name /\ old[1] <= MaxNumber /\ KindOf(old) = adr[old].kind
      /\ new \in Present /\ new \in Name /\ new[1] <= MaxNumber /\ KindOf(new) = adr[new].kind
  BY ResolvedIsReadable, RecordTyped DEF IInv
<1>3. /\ adr[new].kind = "madr" /\ old[1] # new[1] /\ new \notin Replaced
      /\ old \in Replaced => adr[old].by = new[1]
  BY <1>1, <1>2 DEF Admitted, Replaced
<1>4. c \in Command
  BY <1>2 DEF Command, Status
<1>5. c.op = "supersede" /\ c.old = old /\ c.new = new
  OBVIOUS
<1>6. Decide(c)
  BY <1>1
<1> HIDE DEF c
<1> QED
  BY <1>2, <1>3, <1>4, <1>5, <1>6, DecideKeeps

------------------------------------------------------------------------------
(* The writes *)

LEMMA WriteNewKeeps ==
  ASSUME IInv, WriteNew
  PROVE  IInv'
<1> DEFINE f == cmd.old
<1> DEFINE r == Fresh("madr", cmd.status)
<1>1. /\ pc = "first" /\ cmd.op = "create" /\ adr' = [adr EXCEPT ![f] = r]
      /\ pc' = "index" /\ UNCHANGED <<index, cmd, hands, edited, stops, changes>>
  BY DEF WriteNew
<1>2. TypeOK /\ f \in Name /\ cmd.status \in Plain /\ f \notin Replaced
  BY <1>1 DEF IInv, CommandStands
<1>3. /\ r \in Record /\ r # None /\ r.status # "superseded"
      /\ r.refs = {} /\ r.kind = "madr"
  BY <1>2, FreshTyped DEF Fresh
<1> HIDE DEF f, r
<1>4. TypeOK'
  BY <1>1, <1>2, <1>3, OneFile DEF TypeOK
<1>5. adr[f] # None => adr[f].status # "superseded"
  BY <1>2 DEF Replaced, Present
<1>6. Mild /\ NoNewReference
  BY <1>1, <1>2, <1>3, <1>5, MildAtOneFile DEF IInv, SuccessorsAreNamed
<1>7. NumbersAreUnique'
  <2>1. Present' = Present \cup {f}
    BY <1>1, <1>2, <1>3, OneFile
  <2>2. "merged" \notin hands =>
          /\ \A g, h \in Present : g[1] = h[1] /\ g[1] <= MaxNumber => g = h
          /\ \A g \in Present : g[1] = f[1] => g[1] > MaxNumber
    BY <1>1 DEF IInv, NumbersAreUnique, f
  <2>3. \A g \in Present \cup {f} : g[1] \in Nat /\ MaxNumber \in Nat
    BY <1>2, NameShape, RecordTyped, ConstantsAssumption
  <2> QED
    BY <1>1, <2>1, <2>2, <2>3 DEF NumbersAreUnique
<1>8. CommandStands'
  BY <1>1, <1>2 DEF CommandStands, SupersessionStands, f
<1> QED
  BY <1>4, <1>6, <1>7, <1>8, MildKeepsSuccessors, MildKeepsCircles, MildKeepsReferences
     DEF IInv

LEMMA WriteStatusKeeps ==
  ASSUME IInv, WriteStatus
  PROVE  IInv'
<1> DEFINE f == cmd.old
<1> DEFINE r == With(adr[f], cmd.status, 0)
<1>1. /\ pc = "first" /\ cmd.op = "set" /\ Rewritable(f)
      /\ adr' = [adr EXCEPT ![f].status = cmd.status, ![f].by = 0]
      /\ pc' = "index" /\ UNCHANGED <<index, cmd, hands, edited, stops, changes>>
  BY DEF WriteStatus
<1>2. TypeOK /\ f \in Name /\ cmd.status \in Plain /\ f \notin Replaced
  BY <1>1 DEF IInv, CommandStands
<1>3. f \in Present /\ adr[f] \in Record /\ adr[f] # None /\ adr[f].kind # "legacy"
  BY <1>1, <1>2, RewritableShape, RecordTyped
<1>4. /\ r \in Record /\ r # None /\ r.status = cmd.status
      /\ r.refs = adr[f].refs /\ r.kind # "legacy"
  <2>1. cmd.status \in Status /\ 0 \in 0 .. MaxNumber
    BY <1>2, ConstantsAssumption DEF Status
  <2> HIDE DEF f
  <2> QED
    BY <1>3, <2>1, StatusChanged
<1>5. adr' = [adr EXCEPT ![f] = r]
  BY <1>1, <1>2, <1>3 DEF TypeOK, With
<1> HIDE DEF f, r
<1>6. TypeOK'
  BY <1>1, <1>2, <1>4, <1>5, OneFile DEF TypeOK
<1>7. Mild /\ NoNewReference
  <2>1. adr[f].status # "superseded" /\ r.status # "superseded"
    BY <1>2, <1>3, <1>4 DEF Replaced, Plain
  <2>2. edited \subseteq edited' /\ hands \subseteq hands'
    BY <1>1
  <2>3. \A g \in Replaced : adr[g].kind # "legacy"
    BY DEF IInv, SuccessorsAreNamed
  <2> QED
    BY <1>2, <1>3, <1>4, <1>5, <2>1, <2>2, <2>3, MildAtOneFile
<1>8. NumbersAreUnique'
  <2>1. Present' = Present \cup {f}
    BY <1>2, <1>4, <1>5, OneFile
  <2>2. Present' = Present
    BY <1>3, <2>1
  <2> QED
    BY <1>1, <2>2 DEF IInv, NumbersAreUnique
<1>9. CommandStands'
  BY <1>1, <1>2 DEF CommandStands, SupersessionStands, f
<1> QED
  BY <1>6, <1>7, <1>8, <1>9, MildKeepsSuccessors, MildKeepsCircles, MildKeepsReferences
     DEF IInv

\* The record x superseded by the record in the file new.
Under(x, new) == [x EXCEPT !.status = "superseded", !.by = new[1], !.note = new]

LEMMA UnderTyped ==
  ASSUME NEW x \in Record, NEW new \in Name, new[1] <= MaxNumber
  PROVE  /\ Under(x, new) \in Record /\ Under(x, new) # None
         /\ Under(x, new).status = "superseded"
         /\ Under(x, new).by = new[1] /\ Under(x, new).note = new
         /\ Under(x, new).kind = x.kind /\ Under(x, new).refs = x.refs
<1> DEFINE r == Under(x, new)
<1>1. new[1] \in 0 .. MaxNumber /\ "superseded" \in Status
  BY NameShape, ConstantsAssumption DEF Status
<1>2. r \in Record
  BY <1>1 DEF Record, Under
<1>3. /\ r.status = "superseded" /\ r.by = new[1] /\ r.note = new
      /\ r.kind = x.kind /\ r.refs = x.refs
  BY DEF Record, Under
<1> QED
  BY <1>2, <1>3, ConstantsAssumption

\* The first write of a supersession: the old record names its successor. The
\* successor is not superseded itself, and the only record with its number: so
\* the old record is in no circle.
LEMMA WriteOldKeeps ==
  ASSUME IInv, WriteOld
  PROVE  IInv'
<1> DEFINE f == cmd.old
<1> DEFINE new == cmd.new
<1> DEFINE r == Under(adr[f], new)
<1>1. /\ pc = "first" /\ cmd.op = "supersede" /\ Rewritable(f)
      /\ adr' = [adr EXCEPT ![f].status = "superseded", ![f].by = new[1], ![f].note = new]
      /\ pc' = "second" /\ UNCHANGED <<index, cmd, hands, edited, stops, changes>>
  BY DEF WriteOld
<1>2. /\ TypeOK /\ f \in Name /\ new \in Name /\ f[1] # new[1]
      /\ f[1] <= MaxNumber /\ new[1] <= MaxNumber /\ Stands(new)
      /\ "deleted" \notin hands => adr[new] # None
      /\ new \notin Replaced
      /\ f \in Replaced => adr[f].by = new[1]
  BY <1>1 DEF IInv, CommandStands, SupersessionStands
<1>3. f \in Present /\ adr[f] \in Record /\ adr[f] # None /\ adr[f].kind # "legacy"
  BY <1>1, <1>2, RewritableShape, RecordTyped
<1>4. /\ r \in Record /\ r # None /\ r.status = "superseded" /\ r.by = new[1]
      /\ r.note = new /\ r.refs = adr[f].refs /\ r.kind # "legacy"
  <2> HIDE DEF f, new
  <2> QED
    BY <1>2, <1>3, UnderTyped
<1>5. adr' = [adr EXCEPT ![f] = r]
  BY <1>1, <1>2, <1>3 DEF TypeOK, Under
<1>6. UNCHANGED <<index, cmd, hands, edited, stops, changes>> /\ pc' = "second"
  BY <1>1
<1>7. "merged" \notin hands => \A g \in Present : g[1] = new[1] => g = new
  BY <1>1 DEF IInv, NumbersAreUnique
<1> HIDE DEF f, new, r
<1>8. /\ adr'[f] = r
      /\ \A g \in Name \ {f} : adr'[g] = adr[g]
      /\ Present' = Present
  <2>1. /\ adr'[f] = r
        /\ \A g \in Name \ {f} : adr'[g] = adr[g]
        /\ Present' = Present \cup {f}
    BY <1>2, <1>4, <1>5, OneFile
  <2> QED
    BY <1>3, <2>1
<1>9. Replaced' = Replaced \cup {f}
  BY <1>2, <1>3, <1>4, <1>8 DEF Replaced, Present
<1>10. \A n \in Name : Stands(n) => Stands(n)'
  BY <1>3, <1>4, <1>6, <1>8 DEF Stands
<1>11. TypeOK'
  BY <1>2, <1>4, <1>5, <1>6, OneFile DEF TypeOK
<1>12. NumbersAreUnique'
  BY <1>6, <1>8 DEF IInv, NumbersAreUnique
<1>13. SuccessorsAreNamed'
  <2>1. ASSUME NEW g \in Replaced, g # f
        PROVE  /\ adr'[g] = adr[g] /\ adr[g].kind # "legacy" /\ g[1] <= MaxNumber
               /\ adr[g].note \in Name /\ adr[g].note[1] <= MaxNumber
               /\ adr[g].by = adr[g].note[1] /\ adr[g].by # g[1]
               /\ Stands(adr[g].note)
               /\ "deleted" \notin hands => adr[adr[g].note] # None
    BY <1>8, <2>1 DEF IInv, SuccessorsAreNamed, Replaced, Present
  <2>2. \A n \in Name : adr[n] # None => adr'[n] # None
    BY <1>4, <1>8
  <2>3. ASSUME NEW n \in Name, NEW g \in Replaced', adr'[g].note = n, Stands(n)
        PROVE  Stands(adr[g].note)'
    BY <1>10, <2>3 DEF Stands
  <2> QED
    BY <1>2, <1>4, <1>6, <1>8, <1>9, <2>1, <2>2, <2>3 DEF SuccessorsAreNamed
<1>14. NoCircle'
  <2> SUFFICES ASSUME "merged" \notin hands', NEW S \in SUBSET Replaced', Circular(S)'
               PROVE  FALSE
    BY DEF NoCircle
  <2>1. f \notin S
    <3> SUFFICES ASSUME f \in S PROVE FALSE
      OBVIOUS
    <3>1. PICK g \in S : g[1] = new[1]
      BY <1>4, <1>8 DEF Circular
    <3>2. g \in Present /\ g \in Replaced'
      BY <1>8, <1>9, <3>1 DEF Replaced
    <3>3. g = new
      BY <1>6, <1>7, <3>1, <3>2
    <3> QED
      BY <1>2, <1>9, <3>2, <3>3
  <2>2. S \in SUBSET Replaced /\ \A g \in S : adr'[g] = adr[g]
    BY <1>8, <1>9, <2>1 DEF Replaced, Present
  <2>3. Circular(S)
    BY <2>2 DEF Circular
  <2> QED
    BY <1>6, <2>2, <2>3 DEF IInv, NoCircle
<1>15. ReferencesAreBacked'
  <2> SUFFICES ASSUME NEW n \in Present', NEW old \in adr'[n].refs \ edited'
               PROVE  adr'[old] # None /\ adr'[old].status = "superseded" /\ adr'[old].by = n[1]
    BY DEF ReferencesAreBacked
  <2>1. n \in Present /\ old \in adr[n].refs \ edited
    BY <1>4, <1>6, <1>8 DEF Present
  <2>2. adr[old] # None /\ adr[old].status = "superseded" /\ adr[old].by = n[1]
    BY <2>1 DEF IInv, ReferencesAreBacked
  <2>3. old \in Name
    BY <1>2, <2>1, RecordTyped DEF Record
  <2>4. old \in Replaced
    BY <2>2, <2>3 DEF Replaced, Present
  <2> QED
    BY <1>2, <1>4, <1>8, <2>2, <2>3, <2>4
<1>16. CommandStands'
  <2>1. Stands(cmd.new)'
    BY <1>2, <1>6, <1>10 DEF Stands, new
  <2>2. "deleted" \notin hands => adr'[new] # None
    BY <1>2, <1>4, <1>8
  <2>3. f \in Replaced' /\ adr'[f].note = new
    BY <1>4, <1>8, <1>9
  <2> QED
    BY <1>1, <1>2, <1>6, <2>1, <2>2, <2>3 DEF CommandStands, SupersessionStands, f, new
<1> QED
  BY <1>11, <1>12, <1>13, <1>14, <1>15, <1>16 DEF IInv

\* The record x with a link to the record in the file old.
Linking(x, old) == [x EXCEPT !.refs = Linked(@, old)]

LEMMA LinkingTyped ==
  ASSUME NEW x \in Record, NEW old \in Name
  PROVE  /\ Linking(x, old) \in Record /\ Linking(x, old) # None
         /\ Linking(x, old).status = x.status
         /\ Linking(x, old).by = x.by /\ Linking(x, old).note = x.note
         /\ Linking(x, old).kind = x.kind
         /\ Linking(x, old).refs \subseteq x.refs \cup {old}
         /\ old \in Linking(x, old).refs
<1> DEFINE r == Linking(x, old)
<1>1. Linked(x.refs, old) \subseteq x.refs \cup {old} /\ old \in Linked(x.refs, old)
  BY DEF Linked
<1>2. r = [x EXCEPT !.refs = Linked(x.refs, old)]
  BY DEF Record, Linking
<1>3. x.refs \in SUBSET Name
  BY DEF Record
<1>4. Linked(x.refs, old) \in SUBSET Name
  BY <1>1, <1>3
<1> HIDE DEF r
<1>5. r \in Record
  BY <1>2, <1>4 DEF Record
<1>6. /\ r.status = x.status /\ r.by = x.by /\ r.note = x.note /\ r.kind = x.kind
      /\ r.refs = Linked(x.refs, old)
  BY <1>2 DEF Record
<1> USE DEF r
<1> QED
  BY <1>1, <1>5, <1>6, ConstantsAssumption

\* The second write: the successor refers back to the old record, which says so
\* since the first.
LEMMA WriteSuccessorKeeps ==
  ASSUME IInv, WriteSuccessor
  PROVE  IInv'
<1> DEFINE f == cmd.new
<1> DEFINE old == cmd.old
<1> DEFINE r == Linking(adr[f], old)
<1>1. /\ pc = "second" /\ cmd.op = "supersede" /\ Rewritable(f)
      /\ adr' = [adr EXCEPT ![f].refs = Linked(@, old)]
      /\ pc' = "index" /\ UNCHANGED <<index, cmd, hands, edited, stops, changes>>
  BY DEF WriteSuccessor, IInv, CommandStands
<1>2. /\ TypeOK /\ f \in Name /\ old \in Name /\ f[1] # old[1]
      /\ f[1] <= MaxNumber /\ old[1] <= MaxNumber
      /\ old \in edited \/ (old \in Replaced /\ adr[old].note = f)
  BY <1>1 DEF IInv, CommandStands, SupersessionStands
<1>3. f \in Present /\ adr[f] \in Record /\ adr[f] # None /\ adr[f].kind # "legacy"
  BY <1>1, <1>2, RewritableShape, RecordTyped
<1>4. /\ r \in Record /\ r # None /\ r.status = adr[f].status /\ r.by = adr[f].by
      /\ r.note = adr[f].note /\ r.kind # "legacy"
      /\ r.refs \subseteq adr[f].refs \cup {old} /\ old \in r.refs
  <2> HIDE DEF f, old
  <2> QED
    BY <1>2, <1>3, LinkingTyped
<1>5. adr' = [adr EXCEPT ![f] = r]
  BY <1>1, <1>2, <1>3 DEF TypeOK, Linking
<1>6. UNCHANGED <<index, cmd, hands, edited, stops, changes>> /\ pc' = "index"
  BY <1>1
<1> HIDE DEF f, old, r
<1>7. /\ adr'[f] = r
      /\ \A g \in Name \ {f} : adr'[g] = adr[g]
      /\ Present' = Present
  <2>1. /\ adr'[f] = r
        /\ \A g \in Name \ {f} : adr'[g] = adr[g]
        /\ Present' = Present \cup {f}
    BY <1>2, <1>4, <1>5, OneFile
  <2> QED
    BY <1>3, <2>1
<1>8. TypeOK'
  BY <1>2, <1>4, <1>5, <1>6, OneFile DEF TypeOK
<1>9. Mild
  <2>1. \A g \in Replaced : adr[g].kind # "legacy"
    BY DEF IInv, SuccessorsAreNamed
  <2> QED
    BY <1>2, <1>3, <1>4, <1>5, <1>6, <2>1, MildAtOneFile
<1>10. \A g \in Present : /\ adr'[g] # None /\ adr'[g].status = adr[g].status
                          /\ adr'[g].by = adr[g].by /\ adr'[g].note = adr[g].note
  BY <1>4, <1>7 DEF Present
<1>11. NumbersAreUnique'
  BY <1>6, <1>7 DEF IInv, NumbersAreUnique
<1>12. ReferencesAreBacked'
  <2> SUFFICES ASSUME NEW n \in Present', NEW o \in adr'[n].refs \ edited'
               PROVE  adr'[o] # None /\ adr'[o].status = "superseded" /\ adr'[o].by = n[1]
    BY DEF ReferencesAreBacked
  <2>1. CASE o \in adr[n].refs
    <3>1. adr[o] # None /\ adr[o].status = "superseded" /\ adr[o].by = n[1]
      BY <1>6, <1>7, <2>1 DEF IInv, ReferencesAreBacked
    <3>2. o \in Name
      BY <1>2, <1>7, <2>1, RecordTyped DEF Record
    <3>3. o \in Present
      BY <3>1, <3>2 DEF Present
    <3> QED
      BY <1>10, <3>1, <3>3
  <2>2. CASE o \notin adr[n].refs
    <3>1. n = f /\ o = old
      BY <1>4, <1>7, <2>2 DEF Present
    <3>2. old \in Replaced /\ adr[old].note = f
      BY <1>2, <1>6, <3>1
    <3>3. old \in Present /\ adr[old].status = "superseded" /\ adr[old].by = f[1]
      BY <3>2 DEF IInv, SuccessorsAreNamed, Replaced
    <3> QED
      BY <1>10, <3>1, <3>3
  <2> QED
    BY <2>1, <2>2
<1>13. CommandStands'
  <2>1. Stands(cmd.new)'
    BY <1>4, <1>6, <1>7 DEF Stands, f
  <2>2. adr'[f] # None /\ old \in adr'[f].refs
    BY <1>4, <1>7
  <2>3. old \in edited' \/ (old \in Replaced' /\ adr'[old].note = f)
    BY <1>2, <1>6, <1>7, <1>10 DEF Replaced
  <2> QED
    BY <1>1, <1>2, <1>6, <2>1, <2>2, <2>3
       DEF CommandStands, SupersessionStands, f, old
<1> QED
  BY <1>8, <1>9, <1>11, <1>12, <1>13, MildKeepsSuccessors, MildKeepsCircles DEF IInv

------------------------------------------------------------------------------
(* The theorems *)

LEMMA InitIsSound == Init => IInv
<1> SUFFICES ASSUME Init PROVE IInv
  OBVIOUS
<1>1. PICK kind \in {"madr", "legacy"} :
        adr = [f \in Name |-> IF f = <<1, MaxSlug>> THEN Fresh(kind, "accepted") ELSE None]
  BY DEF Init
<1>2. /\ Fresh(kind, "accepted") \in Record
      /\ Fresh(kind, "accepted") # None
      /\ Fresh(kind, "accepted").status # "superseded"
      /\ Fresh(kind, "accepted").refs = {}
  BY FreshTyped DEF Plain, Fresh
<1>3. /\ adr \in [Name -> Record \cup {None}]
      /\ Present \subseteq {<<1, MaxSlug>>} /\ Replaced = {}
      /\ \A f \in Present : adr[f].refs = {}
  BY <1>1, <1>2 DEF Present, Replaced
<1>4. index = {}
  BY <1>3 DEF Init, Listing, Superseded, Readable, Replaced
<1>5. NoCommand \in Command
  BY DEF NoCommand, Command, Status, Plain
<1>6. TypeOK
  BY <1>3, <1>4, <1>5, ConstantsAssumption DEF Init, TypeOK
<1>7. NoCircle
  BY <1>3 DEF NoCircle, Circular
<1>8. NumbersAreUnique
  BY <1>3 DEF Init, NumbersAreUnique
<1>9. SuccessorsAreNamed /\ ReferencesAreBacked
  BY <1>3 DEF SuccessorsAreNamed, ReferencesAreBacked
<1>10. CommandStands
  BY DEF Init, CommandStands, SupersessionStands
<1> QED
  BY <1>6, <1>7, <1>8, <1>9, <1>10 DEF IInv

LEMMA StutterKeeps ==
  ASSUME IInv, UNCHANGED vars
  PROVE  IInv'
<1>1. UNCHANGED <<adr, index, pc, cmd, hands, edited, stops, changes>>
  BY DEF vars
<1>2. Mild /\ NoNewReference /\ Present' = Present
  BY <1>1, QuietIsMild
<1>3. Aside
  BY <1>1, <1>2 DEF Aside
<1>4. TypeOK'
  BY <1>1 DEF IInv, TypeOK
<1> QED
  BY <1>1, <1>2, <1>3, <1>4, AsideKeeps

LEMMA StepKeeps ==
  ASSUME IInv, [Next]_vars
  PROVE  IInv'
<1>1. ASSUME NEW slug \in Title, NEW status \in Given, Create(slug, status)
      PROVE  IInv'
  BY <1>1, CreateKeeps
<1>2. ASSUME NEW r \in Ref, NEW status \in Plain, SetStatus(r, status)
      PROVE  IInv'
  BY <1>2, SetStatusKeeps
<1>3. ASSUME NEW r \in Ref, NEW s \in Ref, Supersede(r, s)
      PROVE  IInv'
  BY <1>3, SupersedeKeeps
<1>4. CASE WriteNew \/ WriteStatus \/ WriteOld \/ WriteSuccessor
  BY <1>4, WriteNewKeeps, WriteStatusKeeps, WriteOldKeeps, WriteSuccessorKeeps
<1>5. CASE WriteIndex \/ CannotRewrite \/ Stop
  BY <1>5, EndingKeeps
<1>6. ASSUME NEW f \in Name,
             \/ \E status \in Given : HandEdits(f, status)
             \/ \E kind \in Unreadable : HandSpoils(f, kind)
             \/ HandRepairs(f) \/ HandMerges(f) \/ HandDeletes(f)
      PROVE  IInv'
  BY <1>6, HandEditsKeeps, HandSpoilsKeeps, HandMergesKeeps, HandDeletesKeeps
<1>7. CASE UNCHANGED vars
  BY <1>7, StutterKeeps
<1> QED
  BY <1>1, <1>2, <1>3, <1>4, <1>5, <1>6, <1>7 DEF Next

\* What the commands rely on holds in every state: the numbers of records are
\* different, a superseded record names its successor in the same way twice, and
\* what a command decided stays right until it has written it.
THEOREM InvariantHolds == Spec => []IInv
BY InitIsSound, StepKeeps, PTL DEF Spec

\* The records, the index and what a command has in memory keep their types.
THEOREM TypeCorrect == Spec => []TypeOK
<1>1. IInv => TypeOK
  BY DEF IInv
<1> QED
  BY <1>1, InvariantHolds, PTL

\* adrSupersedeLocked writes the old record before its successor: where a record
\* says that it supersedes another one, that one says so too, also after a stop
\* between the two writes, and nothing that a command does takes it back.
THEOREM ReferencesBacked == Spec => []ReferencesAreBacked
<1>1. IInv => ReferencesAreBacked
  BY DEF IInv
<1> QED
  BY <1>1, InvariantHolds, PTL

LEMMA OneHolder ==
  ASSUME IInv, "merged" \notin hands
  PROVE  DuplicateID = {}
<1> SUFFICES ASSUME NEW n \in 1 .. MaxNumber, Cardinality(Holders(n)) > 1
             PROVE  FALSE
  BY DEF DuplicateID
<1>1. \A f, g \in Holders(n) : f = g
  BY DEF IInv, NumbersAreUnique, Holders
<1>2. CASE Holders(n) = {}
  BY <1>2, FS_EmptySet
<1>3. CASE Holders(n) # {}
  <2>1. PICK f \in Holders(n) : TRUE
    BY <1>3
  <2>2. Holders(n) = {f}
    BY <1>1, <2>1
  <2>3. Cardinality({f}) = 1
    BY FS_Singleton
  <2> QED
    BY <2>2, <2>3
<1> QED
  BY <1>2, <1>3

\* As long as users merge no file, the commands give no two records one number,
\* leave none superseded by a number that no record has (unless users delete a
\* file), and supersede no records in a circle (validateADRs).
THEOREM SuccessionSound == Spec => []SuccessionIsSound
<1>1. ASSUME IInv PROVE SuccessionIsSound
  <2> SUFFICES ASSUME "merged" \notin hands
               PROVE  /\ DuplicateID = {}
                      /\ "deleted" \notin hands => SupersedeMissing = {}
                      /\ \A S \in SUBSET Superseded : ~Circular(S)
    BY DEF SuccessionIsSound
  <2>1. Superseded \subseteq Replaced
    BY DEF Superseded, Readable, Replaced
  <2>2. ASSUME "deleted" \notin hands, NEW f \in Superseded
        PROVE  Holders(adr[f].by) # {}
    <3>1. /\ adr[f].note \in Name /\ adr[f].note[1] <= MaxNumber
          /\ adr[f].by = adr[f].note[1] /\ adr[adr[f].note] # None
      BY <1>1, <2>1, <2>2 DEF IInv, SuccessorsAreNamed
    <3>2. adr[f].note \in Holders(adr[f].by)
      BY <3>1 DEF Holders, Present
    <3> QED
      BY <3>2
  <2>3. \A S \in SUBSET Superseded : ~Circular(S)
    BY <1>1, <2>1 DEF IInv, NoCircle
  <2> QED
    BY <1>1, <2>2, <2>3, OneHolder DEF SupersedeMissing
<1> QED
  BY <1>1, InvariantHolds, PTL

\* A supersession that stopped half-way can be repeated as long as its successor
\* is accepted, and when the command reports success both records refer to each
\* other and the index says so, unless users changed one of the two.
THEOREM SupersessionFinished == Spec => SupersessionIsFinished
<1> DEFINE Repeatable ==
      \A old, new \in Readable \ edited :
        HalfDone(old, new) /\ adr[new].status = "accepted" => Admitted(old, new)
<1> DEFINE Done ==
      pc = "index" /\ Succeeds /\ cmd.op = "supersede" =>
        \A old \in {cmd.old} \cap (Readable \ edited), new \in {cmd.new} \ edited :
          Whole(old, new)'
<1>1. ASSUME IInv PROVE Repeatable
  <2> SUFFICES ASSUME NEW old \in Readable \ edited, NEW new \in Readable \ edited,
                      HalfDone(old, new), adr[new].status = "accepted"
               PROVE  Admitted(old, new)
    OBVIOUS
  <2>1. old \in Replaced /\ adr[old].note = new
    BY DEF HalfDone, Replaced, Readable
  <2>2. /\ adr[old].kind # "legacy" /\ old[1] <= MaxNumber /\ new[1] <= MaxNumber
        /\ adr[old].by = new[1] /\ new[1] # old[1] /\ Stands(adr[old].note)
    BY <1>1, <2>1 DEF IInv, SuccessorsAreNamed
  <2>3. adr[new].kind # "legacy"
    BY <2>1, <2>2 DEF Stands
  <2>4. /\ adr[old] \in Record /\ adr[new] \in Record
        /\ old[1] \in 1 .. MaxNumber + 1 /\ new[1] \in 1 .. MaxNumber + 1
    BY <1>1, RecordTyped, NameShape DEF IInv, Readable
  <2>5. KindOf(old) = adr[old].kind /\ KindOf(new) = adr[new].kind
    BY <2>2, <2>4, ConstantsAssumption DEF KindOf
  <2>6. adr[old].kind = "madr" /\ adr[new].kind = "madr"
    BY <2>2, <2>3, <2>4, <2>5 DEF Readable, Record, Unreadable
  <2> QED
    BY <2>1, <2>2, <2>5, <2>6 DEF Admitted, Replaced
<1>2. ASSUME IInv, [Next]_vars PROVE Done
  <2> SUFFICES ASSUME pc = "index", Succeeds, cmd.op = "supersede",
                      NEW old \in Readable \ edited, old = cmd.old,
                      NEW new, new = cmd.new, new \notin edited
               PROVE  Whole(old, new)'
    OBVIOUS
  <2>1. /\ old \in Replaced /\ adr[old].note = new
        /\ adr[new] # None /\ old \in adr[new].refs
    BY <1>2 DEF IInv, CommandStands, SupersessionStands
  <2>2. adr[old].by = new[1]
    BY <1>2, <2>1 DEF IInv, SuccessorsAreNamed
  <2>3. WriteIndex
    BY <1>2 DEF Succeeds, Next, vars, Create, SetStatus, Supersede, WriteNew, WriteStatus,
                WriteOld, WriteSuccessor, CannotRewrite, Stop, IInv, TypeOK,
                HandEdits, HandSpoils, HandRepairs, HandMerges, HandDeletes, ByHand
  <2>4. old \in Superseded
    <3>1. adr[old].kind # "legacy" /\ old[1] <= MaxNumber
      BY <1>2, <2>1 DEF IInv, SuccessorsAreNamed
    <3>2. adr[old] \in Record /\ old[1] \in 1 .. MaxNumber + 1
      BY <1>2, RecordTyped, NameShape DEF IInv, Readable
    <3>3. KindOf(old) = adr[old].kind
      BY <3>1, <3>2, ConstantsAssumption DEF KindOf
    <3>4. adr[old].kind = "madr"
      BY <3>1, <3>2, <3>3 DEF Readable, Record, Unreadable
    <3> QED
      BY <2>1, <3>4 DEF Superseded, Replaced
  <2>5. adr' = adr /\ index' = Listing
    BY <2>3 DEF WriteIndex
  <2>6. <<old, new[1]>> \in index'
    BY <2>2, <2>4, <2>5 DEF Listing
  <2> QED
    BY <2>1, <2>2, <2>5, <2>6 DEF Whole, Replaced
<1>3. IInv /\ [Next]_vars =>
        [/\ pc = "idle" => Repeatable
         /\ Done]_vars
  BY <1>1, <1>2
<1> QED
  BY <1>3, InvariantHolds, PTL DEF Spec, SupersessionIsFinished

===============================================================================
