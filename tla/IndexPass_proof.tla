--------------------------- MODULE IndexPass_proof ---------------------------
(***************************************************************************)
(* Proofs about IndexPass, for every file system, every configuration of    *)
(* passes and indexers, and with or without failures:                       *)
(*   TypeCorrect        the type invariant,                                 *)
(*   OwnershipCorrect   every entry has exactly one owner or was deleted,   *)
(*   AtomicityCorrect   a failing pass leaves no trace in a shared index,   *)
(*   LeftoversCorrect   no pass hands pending entries to the next one,      *)
(*   MissingCorrect     a missing file reaches the index only unnoticed,    *)
(*   IndexCorrect       the index of a regular project is the project.      *)
(***************************************************************************)
EXTENDS ProjectIndex, Recursion, SequenceTheorems, FiniteSetTheorems, FunctionTheorems, TLAPS

-----------------------------------------------------------------------------
(***************************************************************************)
(* What a sink owns when an entry is pushed or popped, and when one sink is *)
(* poured into another.                                                     *)
(***************************************************************************)
LEMMA PushOwns ==
  ASSUME NEW s \in Seq(Entry), NEW e \in Entry
  PROVE  /\ Append(s, e) \in Seq(Entry)
         /\ Ids(Append(s, e)) = Ids(s) \cup {e.id}
         /\ Distinct(s) /\ e.id \notin Ids(s) => Distinct(Append(s, e))
  <1> DEFINE a == Append(s, e)
  <1>1. a \in Seq(Entry) /\ Len(a) = Len(s) + 1 /\ Len(s) \in Nat
    OBVIOUS
  <1>2. a[Len(s) + 1] = e /\ \A k \in 1..Len(s) : a[k] = s[k]
    OBVIOUS
  <1>3. DOMAIN a = 1..(Len(s) + 1) /\ DOMAIN s = 1..Len(s)
    BY <1>1, LenProperties
  <1> HIDE DEF a
  <1>4. DOMAIN a = DOMAIN s \cup {Len(s) + 1}
    BY <1>1, <1>3
  <1>5. Ids(a) = Ids(s) \cup {e.id}
    BY <1>2, <1>3, <1>4 DEF Ids
  <1>6. Distinct(s) /\ e.id \notin Ids(s) => Distinct(a)
    BY <1>2, <1>3, <1>4 DEF Ids, Distinct
  <1> QED
    BY <1>1, <1>5, <1>6 DEF a

LEMMA PopOwns ==
  ASSUME NEW s \in Seq(Entry), s # <<>>
  PROVE  LET f == SubSeq(s, 1, Len(s) - 1)
             e == s[Len(s)]
         IN  /\ f \in Seq(Entry)
             /\ e \in Entry
             /\ Ids(s) = Ids(f) \cup {e.id}
             /\ Distinct(s) => Distinct(f) /\ e.id \notin Ids(f)
  <1> DEFINE f == SubSeq(s, 1, Len(s) - 1)
             e == s[Len(s)]
  <1>1. Len(s) \in Nat \ {0} /\ DOMAIN s = 1..Len(s) /\ \A k \in 1..Len(s) : s[k] \in Entry
    BY LenProperties, ElementOfSeq, EmptySeq
  <1>2. /\ f \in Seq(Entry) /\ Len(f) = Len(s) - 1
        /\ \A k \in 1..(Len(s) - 1) : f[k] = s[k]
    BY <1>1, SubSeqProperties
  <1>3. DOMAIN f = 1..(Len(s) - 1)
    BY <1>2, LenProperties
  <1>4. DOMAIN s = DOMAIN f \cup {Len(s)} /\ Len(s) \notin DOMAIN f
    BY <1>1, <1>3
  <1> HIDE DEF f
  <1>5. Ids(s) = Ids(f) \cup {e.id}
    BY <1>2, <1>3, <1>4 DEF Ids
  <1>6. Distinct(s) => Distinct(f)
    BY <1>2, <1>3, <1>4 DEF Distinct
  <1>7. Distinct(s) => e.id \notin Ids(f)
    BY <1>2, <1>3, <1>4 DEF Ids, Distinct
  <1> QED
    BY <1>1, <1>2, <1>5, <1>6, <1>7 DEF f

LEMMA PourOwns ==
  ASSUME NEW s \in Seq(Entry), NEW t \in Seq(Entry)
  PROVE  /\ s \o t \in Seq(Entry)
         /\ Ids(s \o t) = Ids(s) \cup Ids(t)
         /\ Distinct(s) /\ Distinct(t) /\ Ids(s) \cap Ids(t) = {} => Distinct(s \o t)
  <1> DEFINE u == s \o t
  <1>1. /\ u \in Seq(Entry) /\ Len(u) = Len(s) + Len(t)
        /\ Len(s) \in Nat /\ Len(t) \in Nat
        /\ DOMAIN s = 1..Len(s) /\ DOMAIN t = 1..Len(t) /\ DOMAIN u = 1..(Len(s) + Len(t))
    BY LenProperties, ConcatProperties
  <1>2. \A k \in 1..Len(s) : u[k] = s[k]
    BY <1>1, ConcatProperties
  <1>3. \A k \in 1..Len(t) : u[Len(s) + k] = t[k]
    BY <1>1, ConcatProperties
  <1> HIDE DEF u
  <1>4. \A k \in DOMAIN u : k \in 1..Len(s) \/ (k - Len(s) \in 1..Len(t) /\ u[k] = t[k - Len(s)])
    <2> TAKE k \in DOMAIN u
    <2>1. CASE k <= Len(s)
      BY <2>1, <1>1
    <2>2. CASE ~(k <= Len(s))
      <3>1. k - Len(s) \in 1..Len(t) /\ Len(s) + (k - Len(s)) = k
        BY <2>2, <1>1
      <3> QED
        BY <3>1, <1>3
    <2> QED
      BY <2>1, <2>2
  <1>5. Ids(u) \subseteq Ids(s) \cup Ids(t)
    BY <1>1, <1>2, <1>3, <1>4 DEF Ids
  <1>6. Ids(s) \subseteq Ids(u)
    BY <1>1, <1>2 DEF Ids
  <1>7. Ids(t) \subseteq Ids(u)
    <2>1. \A k \in 1..Len(t) : Len(s) + k \in DOMAIN u
      BY <1>1
    <2> QED
      BY <2>1, <1>3 DEF Ids
  <1>8. ASSUME Distinct(s), Distinct(t), Ids(s) \cap Ids(t) = {}
        PROVE  Distinct(u)
    <2> SUFFICES ASSUME NEW j \in DOMAIN u, NEW k \in DOMAIN u, u[j].id = u[k].id
                 PROVE  j = k
      BY DEF Distinct
    <2>1. CASE j \in 1..Len(s) /\ k \in 1..Len(s)
      BY <2>1, <1>1, <1>2, <1>8 DEF Distinct
    <2>2. CASE j \notin 1..Len(s) /\ k \notin 1..Len(s)
      <3>1. j - Len(s) = k - Len(s)
        BY <2>2, <1>1, <1>4, <1>8 DEF Distinct
      <3> QED
        BY <3>1, <1>1
    <2>3. CASE j \in 1..Len(s) /\ k \notin 1..Len(s)
      BY <2>3, <1>1, <1>2, <1>4, <1>8 DEF Ids
    <2>4. CASE j \notin 1..Len(s) /\ k \in 1..Len(s)
      BY <2>4, <1>1, <1>2, <1>4, <1>8 DEF Ids
    <2> QED
      BY <2>1, <2>2, <2>3, <2>4
  <1> QED
    BY <1>1, <1>5, <1>6, <1>7, <1>8 DEF u

LEMMA ReverseOwns ==
  ASSUME NEW s \in Seq(Entry)
  PROVE  /\ Reverse(s) \in Seq(Entry)
         /\ Ids(Reverse(s)) = Ids(s)
         /\ Distinct(s) => Distinct(Reverse(s))
  <1> DEFINE r == Reverse(s)
  <1>1. /\ Len(s) \in Nat /\ DOMAIN s = 1..Len(s) /\ DOMAIN r = 1..Len(s)
        /\ \A k \in 1..Len(s) : s[k] \in Entry
    BY LenProperties, ElementOfSeq DEF Reverse
  <1>2. \A k \in 1..Len(s) : Len(s) - k + 1 \in 1..Len(s) /\ Len(s) - (Len(s) - k + 1) + 1 = k
    BY <1>1
  <1>3. \A k \in 1..Len(s) : r[k] = s[Len(s) - k + 1]
    BY <1>1 DEF Reverse
  <1>4. r \in Seq(Entry)
    <2>1. r \in [1..Len(s) -> Entry]
      BY <1>1, <1>2 DEF Reverse
    <2> QED
      BY <1>1, <2>1
  <1> HIDE DEF r
  <1>5. \A k \in 1..Len(s) : s[k] = r[Len(s) - k + 1]
    BY <1>2, <1>3
  <1>6. Ids(r) = Ids(s)
    BY <1>1, <1>2, <1>3, <1>5 DEF Ids
  <1>7. Distinct(s) => Distinct(r)
    <2> SUFFICES ASSUME Distinct(s), NEW j \in 1..Len(s), NEW k \in 1..Len(s), r[j].id = r[k].id
                 PROVE  j = k
      BY <1>1 DEF Distinct
    <2>1. Len(s) - j + 1 = Len(s) - k + 1
      BY <1>1, <1>2, <1>3 DEF Distinct
    <2> QED
      BY <2>1, <1>1
  <1> QED
    BY <1>4, <1>6, <1>7 DEF r

LEMMA IdsAreNumbers ==
  ASSUME NEW s \in Seq(Entry)
  PROVE  Ids(s) \subseteq Nat \ {0}
  <1>1. \A k \in DOMAIN s : s[k] \in Entry
    BY LenProperties, ElementOfSeq
  <1> QED
    BY <1>1 DEF Ids, Entry

LEMMA SmallSinks ==
  ASSUME NEW s \in Seq(Entry)
  PROVE  /\ Ids(<<>>) = {} /\ Distinct(<<>>)
         /\ Len(s) <= 1 => Distinct(s)
         /\ \A e \in Entry : Ids(<<e>>) = {e.id} /\ <<e>> \in Seq(Entry) /\ Len(<<e>>) = 1
  BY DEF Ids, Distinct


-----------------------------------------------------------------------------
(***************************************************************************)
(* What an indexer may return: a failing one creates nothing afterwards.    *)
(***************************************************************************)
Returned ==
  {o \in [result : Outcomes, handled : BOOLEAN, status : Outcomes, new : Seq(Draft)] :
     o.result = "failed" => o.new = <<>>}

LEMMA ObjectsTyped ==
  ASSUME NEW p \in Paths
  PROVE  /\ FS[p].kind \in {"dir", "file", "missing"}
         /\ FS[p].members \in Seq(Paths)
         /\ FS[p].strings \in Nat
         /\ FS[p].text \in Paths \cup {NoPath}
         /\ FS[p].flags \in SUBSET Flags
  BY FSAssumption DEF FSObject

LEMMA OutcomesTyped ==
  /\ \A h \in BOOLEAN : Fails(h) \in Returned /\ Unreadable(h) \subseteq Returned
  /\ \A h \in BOOLEAN, s \in Outcomes : Untouched(h, s) \in Returned /\ Computed(h, s) \in Returned
  /\ \A h \in BOOLEAN, s \in Outcomes, new \in Seq(Draft) : Outcome("ok", h, s, new) \in Returned
  <1>1. <<>> \in Seq(Draft)
    BY EmptySeq
  <1>2. ASSUME NEW r \in Outcomes, NEW h \in BOOLEAN, NEW s \in Outcomes, NEW new \in Seq(Draft),
               r = "failed" => new = <<>>
        PROVE  Outcome(r, h, s, new) \in Returned
    <2>1. Outcome(r, h, s, new) \in
            [result : Outcomes, handled : BOOLEAN, status : Outcomes, new : Seq(Draft)]
      BY DEF Outcome
    <2>2. Outcome(r, h, s, new).result = r /\ Outcome(r, h, s, new).new = new
      BY DEF Outcome
    <2> QED
      BY <1>2, <2>1, <2>2 DEF Returned
  <1>3. "ok" \in Outcomes /\ "failed" \in Outcomes
    BY DEF Outcomes
  <1>4. \A h \in BOOLEAN : Fails(h) \in Returned
    BY <1>1, <1>2, <1>3 DEF Fails
  <1> QED
    BY <1>1, <1>2, <1>3, <1>4 DEF Unreadable, Untouched, Computed

LEMMA DraftsTyped ==
  ASSUME NEW e \in Entry
  PROVE  /\ Children(e.path) \in Seq(Draft)
         /\ Contents(e) \in Seq(Draft)
         /\ <<ValueEntry(e.path, "Embedded")>> \in Seq(Draft)
         /\ \A fmt \in Containers : Matches(e, fmt) => Redirect(e, fmt) \in Seq(Draft)
  <1>1. e.path \in Paths /\ e.item \in Items
    BY DEF Entry
  <1>2. \A p \in Paths, f \in SUBSET Flags : PathEntry(p, f) \in Draft
    BY DEF PathEntry, Draft, Items
  <1>3. \A p \in Paths, it \in Items : ValueEntry(p, it) \in Draft
    BY DEF ValueEntry, Draft, Flags
  <1>4. \A p \in Paths, fmt \in Containers : ContentEntry(p, fmt) \in Draft
    BY DEF ContentEntry, Draft, Items, Flags
  <1>5. /\ FS[e.path].members \in Seq(Paths) /\ Len(FS[e.path].members) \in Nat
        /\ \A k \in 1..Len(FS[e.path].members) : FS[e.path].members[k] \in Paths
    BY <1>1, ObjectsTyped, LenProperties, ElementOfSeq
  <1>6. Children(e.path) \in Seq(Draft)
    <2>1. Children(e.path) \in [1..Len(FS[e.path].members) -> Draft]
      BY <1>2, <1>5, ObjectsTyped DEF Children
    <2> QED
      BY <2>1, <1>5
  <1>7. Contents(e) \in Seq(Draft)
    <2>1. CASE e.item = "resfiles"
      <3>1. Contents(e) \in [1..Len(FS[e.path].members) -> Draft]
        BY <2>1, <1>2, <1>5 DEF Contents
      <3> QED
        BY <3>1, <1>5
    <2>2. CASE e.item # "resfiles"
      <3>1. Contents(e) \in [1..FS[e.path].strings -> Draft]
        BY <2>2, <1>1, <1>3, ObjectsTyped DEF Contents, Items
      <3> QED
        BY <3>1, <1>1, ObjectsTyped
    <2> QED
      BY <2>1, <2>2
  <1>8. \A fmt \in Containers : Matches(e, fmt) => Redirect(e, fmt) \in Seq(Draft)
    <2> SUFFICES ASSUME NEW fmt \in Containers, Matches(e, fmt)
                 PROVE  Redirect(e, fmt) \in Seq(Draft)
      OBVIOUS
    <2>1. Denotes(e) \in Paths
      BY <1>1, ObjectsTyped DEF Matches, Denotes
    <2> QED
      BY <2>1, <1>4 DEF Redirect
  <1> QED
    BY <1>1, <1>3, <1>6, <1>7, <1>8 DEF Items

LEMMA IndexerStepTyped ==
  ASSUME NEW i \in Indexers, NEW e \in Entry, NEW h \in BOOLEAN, NEW s \in Outcomes
  PROVE  IndexerStep(i, e, h, s) \subseteq Returned
  <1> USE OutcomesTyped, DraftsTyped
  <1>1. e.path \in Paths /\ e.item \in Items
    BY DEF Entry
  <1>2. ParseStep(e, s) \subseteq Returned
    BY DEF ParseStep
  <1>3. FolderStep(e, h, s) \subseteq Returned
    <2>1. FS[e.path].kind \in {"dir", "file", "missing"}
      BY <1>1, ObjectsTyped
    <2>2. Untouched("index" \notin e.flags, "ok") \in Returned
      BY DEF Outcomes
    <2> QED
      BY <2>1, <2>2 DEF FolderStep
  <1>4. \A fmt \in Containers : TextStep(fmt, e, h, s) \subseteq Returned
    BY <1>2 DEF TextStep, Matches
  <1>5. ReswStep(e, h, s) \subseteq Returned
    BY <1>2 DEF ReswStep, Containers
  <1>6. \A fmt \in Containers : PriStep(fmt, e, h, s) \subseteq Returned
    BY <1>2 DEF PriStep, Matches, Outcomes
  <1>7. EmbedStep(e, h, s) \subseteq Returned
    <2>1. CASE ~InFiles(e) \/ Denotes(e) = NoPath
      BY <2>1 DEF EmbedStep
    <2>2. CASE ~(~InFiles(e) \/ Denotes(e) = NoPath)
      <3>1. FS[Denotes(e)].kind \in {"dir", "file", "missing"}
        BY <2>2, <1>1, ObjectsTyped DEF Denotes
      <3> QED
        BY <2>2, <3>1 DEF EmbedStep
    <2> QED
      BY <2>1, <2>2
  <1> QED
    BY <1>3, <1>4, <1>5, <1>6, <1>7 DEF IndexerStep, Indexers, Containers

-----------------------------------------------------------------------------
(***************************************************************************)
(* The variables of IndexPass always have their types: in particular there  *)
(* is a current entry exactly while it is indexed, kept or drained.         *)
(***************************************************************************)
LEMMA DraftBecomesEntry ==
  ASSUME NEW d \in Draft, fresh \in Nat \ {0}
  PROVE  New(d) \in Entry /\ New(d).id = fresh
  BY DEF New, Draft, Entry

LEMMA RootTyped ==
  ASSUME TypeOK
  PROVE  /\ PathEntry(passes[pass].root, {"traverse"}) \in Draft
         /\ passes[pass].main \in Seq(Indexers) /\ passes[pass].final \in Seq(Indexers)
  <1>1. passes \in Seq(PassConfig)
    BY ConfigurationsAssumption DEF TypeOK
  <1>2. passes[pass] \in PassConfig
    BY <1>1, ElementOfSeq DEF TypeOK
  <1> QED
    BY <1>2 DEF PassConfig, PathEntry, Draft, Items, Flags

LEMMA InitTyped == Init => TypeOK
  <1> SUFFICES ASSUME Init PROVE TypeOK
    OBVIOUS
  <1>1. passes \in Seq(PassConfig) /\ passes # <<>>
    BY ConfigurationsAssumption DEF Init
  <1>2. 1 \in 1..Len(passes)
    BY <1>1, EmptySeq
  <1>3. <<>> \in Seq(Entry) /\ <<>> \in Seq(Draft) /\ <<>> \in Seq(Indexers) /\ Len(<<>>) = 0
    BY EmptySeq
  <1> QED
    <2>1. /\ passes \in Configurations /\ pass \in 1..Len(passes)
          /\ traversal \in Seq(Entry) /\ index \in Seq(Entry) /\ output \in Seq(Entry)
          /\ before \in Seq(Entry) /\ entry \in Seq(Entry) /\ Len(entry) = 0
          /\ todo \in Seq(Indexers) /\ work \in Seq(Draft) /\ work = <<>> /\ lost \in Seq(Draft)
      BY <1>2, <1>3 DEF Init
    <2>2. /\ group \in {"main", "final"} /\ seen \subseteq Paths
          /\ result \in Outcomes /\ status \in Outcomes
          /\ fresh \in Nat \ {0} /\ freed \subseteq Nat /\ pc = "enter"
      BY DEF Init, Outcomes
    <2>3. private \in BOOLEAN /\ handled \in BOOLEAN /\ retain \in BOOLEAN
      BY Zenon DEF Init
    <2> QED
      BY <2>1, <2>2, <2>3 DEF TypeOK

LEMMA StepTyped == TypeOK /\ [Next]_vars => TypeOK'
  <1> SUFFICES ASSUME TypeOK, [Next]_vars PROVE TypeOK'
    OBVIOUS
  <1> USE DEF loop, sinks
  <1>0. <<>> \in Seq(Entry) /\ <<>> \in Seq(Draft) /\ Len(<<>>) = 0
    BY EmptySeq
  <1>1. CASE Enter
    <2>1. New(PathEntry(passes[pass].root, {"traverse"})) \in Entry
      BY RootTyped, DraftBecomesEntry DEF TypeOK
    <2>2. traversal' \in Seq(Entry)
      BY <1>1, <2>1, SmallSinks, PourOwns DEF Enter, TypeOK
    <2> QED
      BY <1>1, <2>2 DEF Enter, TypeOK, OwnSinkNeeded
  <1>2. CASE PopEntry
    <2>1. traversal' \in Seq(Entry) /\ traversal[Len(traversal)] \in Entry
      BY <1>2, PopOwns DEF PopEntry, TypeOK
    <2>2. entry' \in Seq(Entry) /\ Len(entry') = 1
      BY <1>2, <2>1, SmallSinks DEF PopEntry, TypeOK
    <2>3. /\ UNCHANGED <<passes, pass, index, output, before, private, handled, work, seen, lost,
                         result, status, fresh, freed>>
          /\ pc' \in {"index", "keep"} /\ pc # "create" /\ retain' \in BOOLEAN
      BY <1>2 DEF PopEntry
    <2>4. group' \in {"main", "final"} /\ todo' \in Seq(Indexers)
      <3>1. passes[pass].main \in Seq(Indexers)
        BY RootTyped DEF TypeOK
      <3> QED
        BY <1>2, <3>1 DEF PopEntry, TypeOK
    <2>5. UNCHANGED work /\ work = <<>> /\ pc' # "create"
      BY <2>3 DEF TypeOK
    <2> QED
      BY <2>1, <2>2, <2>3, <2>4, <2>5 DEF TypeOK
  <1>3. CASE TraversalDone
    BY <1>3 DEF TraversalDone, TypeOK
  <1>4. CASE RunIndexer
    <2>1. entry[1] \in Entry
      <3>1. entry \in Seq(Entry) /\ Len(entry) = 1
        BY <1>4 DEF RunIndexer, TypeOK
      <3> QED
        BY <3>1, ElementOfSeq
    <2>2. Head(todo) \in Indexers /\ Tail(todo) \in Seq(Indexers)
      BY <1>4, HeadTailProperties DEF RunIndexer, TypeOK
    <2>3. PICK o \in IndexerStep(Head(todo), entry[1], handled, status) :
            /\ handled' = o.handled /\ status' = o.status /\ result' = o.result
            /\ work' = o.new /\ seen' = {}
            /\ IF o.result = "failed"
               THEN pc' = "drain" /\ UNCHANGED <<retain, todo>>
               ELSE /\ pc' = (IF o.new = <<>> THEN "index" ELSE "create")
                    /\ retain' = Retains(retain, o.handled)
                    /\ todo' = Tail(todo)
      BY <1>4 DEF RunIndexer
    <2>4. o \in Returned
      BY <2>1, <2>2, IndexerStepTyped DEF TypeOK
    <2>5. /\ handled' \in BOOLEAN /\ status' \in Outcomes /\ result' \in Outcomes
          /\ work' \in Seq(Draft) /\ (o.result = "failed" => work' = <<>>)
      BY <2>3, <2>4 DEF Returned
    <2> QED
      BY <1>4, <2>2, <2>3, <2>5 DEF RunIndexer, TypeOK, Retains
  <1>5. CASE CreateEntry
    <2>1. Head(work) \in Draft /\ Tail(work) \in Seq(Draft)
      BY <1>5, HeadTailProperties DEF CreateEntry, TypeOK
    <2>2. New(Head(work)) \in Entry
      BY <2>1, DraftBecomesEntry DEF TypeOK
    <2>3. traversal' \in Seq(Entry)
      BY <1>5, <2>2, PushOwns DEF CreateEntry, TypeOK
    <2>4. /\ UNCHANGED <<passes, pass, index, output, entry, before, private, group, todo, lost, handled,
                         retain, result, status, freed>>
          /\ pc = "create" /\ work' = Tail(work) /\ fresh' = fresh + 1
          /\ pc' = (IF Tail(work) = <<>> THEN "index" ELSE "create")
      BY <1>5 DEF CreateEntry, LoopOn
    <2>5. seen' \subseteq Paths
      BY <1>5, <2>1 DEF CreateEntry, TypeOK, Draft
    <2>6. pc' \in {"index", "create"} /\ (pc' = "create" <=> work' # <<>>) /\ Len(entry') = 1
      BY <2>4 DEF TypeOK
    <2>7. work' \in Seq(Draft) /\ fresh' \in Nat \ {0}
      BY <2>1, <2>4 DEF TypeOK
    <2> QED
      BY <2>3, <2>4, <2>5, <2>6, <2>7 DEF TypeOK
  <1>6. CASE SkipDraft
    <2>1. Tail(work) \in Seq(Draft)
      BY <1>6, HeadTailProperties DEF SkipDraft, TypeOK
    <2> QED
      BY <1>6, <2>1 DEF SkipDraft, LoopOn, TypeOK
  <1>14. CASE LoseDraft
    <2>1. Head(work) \in Draft /\ Tail(work) \in Seq(Draft)
      BY <1>14, HeadTailProperties DEF LoseDraft, TypeOK
    <2>2. lost' \in Seq(Draft)
      BY <1>14, <2>1, AppendProperties DEF LoseDraft, TypeOK
    <2> QED
      BY <1>14, <2>1, <2>2 DEF LoseDraft, LoopOn, TypeOK
  <1>7. CASE CreationFails
    BY <1>0, <1>7 DEF CreationFails, TypeOK, Outcomes
  <1>8. CASE EndGroup
    BY <1>8, RootTyped DEF EndGroup, FinalGroupDue, TypeOK
  <1>9. CASE Drain
    <2>1. Ids(entry) \subseteq Nat /\ Ids(traversal) \subseteq Nat
      BY IdsAreNumbers DEF TypeOK
    <2> QED
      <3>1. freed' \subseteq Nat /\ entry' = <<>> /\ traversal' = <<>> /\ pc' = "close"
        BY <1>9, <2>1 DEF Drain, TypeOK
      <3>2. work = <<>>
        BY <1>9 DEF Drain, TypeOK
      <3> QED
        BY <1>0, <1>9, <3>1, <3>2 DEF Drain, TypeOK
  <1>10. CASE KeepEntry
    <2>1. Ids(entry) \subseteq Nat
      BY IdsAreNumbers DEF TypeOK
    <2>2. output \o entry \in Seq(Entry) /\ index \o entry \in Seq(Entry)
      BY PourOwns DEF TypeOK
    <2> QED
      <3>1. freed' \subseteq Nat /\ entry' = <<>> /\ pc' = "pop"
        BY <1>10, <2>1 DEF KeepEntry, TypeOK
      <3>2. output' \in Seq(Entry) /\ index' \in Seq(Entry)
        BY <1>10, <2>2 DEF KeepEntry, TypeOK
      <3>3. work = <<>>
        BY <1>10 DEF KeepEntry, TypeOK
      <3>4. handled' \in BOOLEAN
        BY <1>10, Zenon DEF KeepEntry
      <3> QED
        BY <1>0, <1>10, <3>1, <3>2, <3>3, <3>4 DEF KeepEntry, TypeOK
  <1>11. CASE DisplayQualifierInfo
    BY <1>11 DEF DisplayQualifierInfo, ReportedResult, TypeOK, Outcomes
  <1>12. CASE ClosePass
    <2>1. Discarded \subseteq Nat
      BY IdsAreNumbers DEF TypeOK, Discarded
    <2>2. index \o Reverse(output) \in Seq(Entry)
      BY ReverseOwns, PourOwns DEF TypeOK
    <2>3. passes \in Seq(PassConfig)
      BY ConfigurationsAssumption DEF TypeOK
    <2>4. pass' \in 1..Len(passes)
      BY <1>12, <2>3, LenProperties DEF ClosePass, TypeOK
    <2> QED
      BY <1>0, <1>12, <2>1, <2>2, <2>4 DEF ClosePass, TypeOK
  <1>13. CASE UNCHANGED vars
    BY <1>13 DEF vars, TypeOK
  <1> QED
    BY <1>1, <1>2, <1>3, <1>4, <1>5, <1>6, <1>7, <1>8, <1>9, <1>10, <1>11, <1>12, <1>13, <1>14
       DEF Next, Step, Terminated

\* An entry is current exactly while CIndexPass::Process works on it.
THEOREM TypeCorrect == Spec => []TypeOK
  BY InitTyped, StepTyped, PTL DEF Spec

-----------------------------------------------------------------------------
(***************************************************************************)
(* Ownership: OwnedOnce is inductive together with TypeOK.                  *)
(***************************************************************************)

\* An entry is created with an identity nobody has yet, and pushed.
LEMMA CreationOwns ==
  ASSUME TypeOK, OwnedOnce, NEW e \in Entry, e.id = fresh,
         traversal' = Append(traversal, e), fresh' = fresh + 1,
         UNCHANGED <<index, output, entry, freed>>
  PROVE  OwnedOnce'
  <1>1. /\ Ids(traversal)' = Ids(traversal) \cup {fresh}
        /\ Ids(index)' = Ids(index) /\ Ids(output)' = Ids(output) /\ Ids(entry)' = Ids(entry)
    <2>1. traversal \in Seq(Entry)
      BY DEF TypeOK
    <2>2. Ids(traversal') = Ids(traversal) \cup {fresh}
      BY <2>1, PushOwns
    <2> QED
      BY <2>2
  <1>2. fresh \notin Owned \cup freed
    BY DEF OwnedOnce, TypeOK
  <1>3. Distinct(traversal)' /\ Distinct(index)' /\ Distinct(output)'
    <2>1. Distinct(traversal)'
      BY <1>2, PushOwns DEF TypeOK, OwnedOnce, Owned
    <2> QED
      BY <2>1 DEF OwnedOnce, Distinct
  <1>4. (Owned \cup freed)' = 1..(fresh' - 1)
    <2>1. (Owned \cup freed)' = (Owned \cup freed) \cup {fresh}
      BY <1>1 DEF Owned
    <2>2. 1..(fresh' - 1) = 1..(fresh - 1) \cup {fresh}
      BY DEF TypeOK
    <2> QED
      BY <2>1, <2>2 DEF OwnedOnce
  <1>5. (Owned \cap freed)' = {}
    BY <1>1, <1>2 DEF OwnedOnce, Owned
  <1> QED
    BY <1>1, <1>2, <1>3, <1>4, <1>5 DEF OwnedOnce, Owned

\* Entries move between the owners, or are freed, and no two owners share one.
LEMMA MovingOwns ==
  ASSUME OwnedOnce, UNCHANGED fresh,
         (Owned \cup freed)' = Owned \cup freed,
         (Owned \cap freed)' = {},
         (Ids(traversal) \cap Ids(index))' = {}, (Ids(traversal) \cap Ids(output))' = {},
         (Ids(traversal) \cap Ids(entry))' = {}, (Ids(index) \cap Ids(output))' = {},
         (Ids(index) \cap Ids(entry))' = {}, (Ids(output) \cap Ids(entry))' = {},
         Distinct(traversal)', Distinct(index)', Distinct(output)'
  PROVE  OwnedOnce'
  BY DEF OwnedOnce

LEMMA SinksKept ==
  ASSUME OwnedOnce, UNCHANGED <<sinks, fresh, freed>>
  PROVE  OwnedOnce'
  <1>1. /\ Ids(traversal)' = Ids(traversal) /\ Ids(index)' = Ids(index)
        /\ Ids(output)' = Ids(output) /\ Ids(entry)' = Ids(entry)
        /\ Distinct(traversal)' = Distinct(traversal) /\ Distinct(index)' = Distinct(index)
        /\ Distinct(output)' = Distinct(output)
    BY DEF sinks
  <1> QED
    BY <1>1 DEF OwnedOnce, Owned

LEMMA StepOwns == TypeOK /\ OwnedOnce /\ [Next]_vars => OwnedOnce'
  <1> SUFFICES ASSUME TypeOK, OwnedOnce, [Next]_vars PROVE OwnedOnce'
    OBVIOUS
  <1>0. /\ Ids(<<>>) = {} /\ Distinct(<<>>)
        /\ traversal \in Seq(Entry) /\ index \in Seq(Entry)
        /\ output \in Seq(Entry) /\ entry \in Seq(Entry)
    BY SmallSinks, EmptySeq DEF TypeOK
  <1>1. CASE Enter
    <2> DEFINE root == New(PathEntry(passes[pass].root, {"traverse"}))
    <2>1. root \in Entry /\ root.id = fresh
      BY RootTyped, DraftBecomesEntry DEF TypeOK
    <2> HIDE DEF root
    <2>2. traversal' = Append(traversal, root)
      BY <1>0, <1>1, <2>1 DEF Enter, root
    <2> QED
      BY <1>1, <2>1, <2>2, CreationOwns DEF Enter
  <1>2. CASE PopEntry
    <2> DEFINE e == traversal[Len(traversal)]
    <2>1. /\ e \in Entry /\ Ids(traversal) = Ids(traversal') \cup {e.id}
          /\ Distinct(traversal') /\ e.id \notin Ids(traversal')
      BY <1>0, <1>2, PopOwns DEF PopEntry, OwnedOnce
    <2>2. entry' = <<e>> /\ entry = <<>> /\ UNCHANGED <<index, output, fresh, freed>>
      <3>1. Len(entry) <= 1 /\ Len(entry) # 1
        BY <1>2 DEF PopEntry, TypeOK
      <3>2. Len(entry) \in Nat
        BY <1>0, LenProperties
      <3>3. entry = <<>>
        <4>1. Len(entry) = 0
          BY <3>1, <3>2
        <4> QED
          BY <1>0, <4>1, EmptySeq
      <3>4. entry' = <<e>> /\ UNCHANGED <<index, output, fresh, freed>>
        BY <1>2 DEF PopEntry
      <3> QED
        BY <3>3, <3>4
    <2> HIDE DEF e
    <2>3. Ids(entry') = {e.id} /\ Ids(entry) = {}
      BY <1>0, <2>1, <2>2, SmallSinks
    <2> QED
      BY <2>1, <2>2, <2>3, MovingOwns DEF OwnedOnce, Owned
  <1>3. CASE CreateEntry
    <2> DEFINE new == New(Head(work))
    <2>1. new \in Entry /\ new.id = fresh
      BY <1>3, HeadTailProperties, DraftBecomesEntry DEF CreateEntry, TypeOK
    <2> QED
      BY <1>3, <2>1, CreationOwns DEF CreateEntry
  <1>4. CASE Drain
    <2>1. /\ Ids(entry') = {} /\ Ids(traversal') = {} /\ Distinct(traversal')
          /\ freed' = freed \cup Ids(entry) \cup Ids(traversal)
          /\ UNCHANGED <<index, output, fresh>>
      BY <1>0, <1>4 DEF Drain
    <2> QED
      BY <2>1, MovingOwns DEF OwnedOnce, Owned
  <1>5. CASE KeepEntry
    <2>1. entry' = <<>> /\ Ids(entry') = {} /\ Distinct(entry) /\ UNCHANGED <<traversal, fresh>>
      BY <1>0, <1>5, SmallSinks DEF KeepEntry, TypeOK
    <2>2. CASE retain /\ private
      <3>1. output' = output \o entry /\ UNCHANGED <<index, freed>>
        BY <1>5, <2>2 DEF KeepEntry
      <3>2. Distinct(output) /\ Ids(output) \cap Ids(entry) = {}
        BY DEF OwnedOnce
      <3>3. Ids(output') = Ids(output) \cup Ids(entry) /\ Distinct(output')
        BY <1>0, <2>1, <3>1, <3>2, PourOwns
      <3> QED
        BY <2>1, <3>1, <3>3, MovingOwns DEF OwnedOnce, Owned
    <2>3. CASE retain /\ ~private
      <3>1. index' = index \o entry /\ UNCHANGED <<output, freed>>
        BY <1>5, <2>3 DEF KeepEntry
      <3>2. Distinct(index) /\ Ids(index) \cap Ids(entry) = {}
        BY DEF OwnedOnce
      <3>3. Ids(index') = Ids(index) \cup Ids(entry) /\ Distinct(index')
        BY <1>0, <2>1, <3>1, <3>2, PourOwns
      <3> QED
        BY <2>1, <3>1, <3>3, MovingOwns DEF OwnedOnce, Owned
    <2>4. CASE ~retain
      <3>1. freed' = freed \cup Ids(entry) /\ UNCHANGED <<index, output>>
        BY <1>5, <2>4 DEF KeepEntry
      <3> QED
        BY <2>1, <3>1, MovingOwns DEF OwnedOnce, Owned
    <2> QED
      BY <2>2, <2>3, <2>4
  <1>6. CASE ClosePass
    <2>1. output' = <<>> /\ Ids(output') = {} /\ Distinct(output')
          /\ UNCHANGED <<traversal, entry, fresh>>
      BY <1>0, <1>6 DEF ClosePass
    <2>2. CASE result = "ok"
      <3>1. Reverse(output) \in Seq(Entry) /\ Ids(Reverse(output)) = Ids(output)
            /\ Distinct(Reverse(output))
        BY <1>0, ReverseOwns DEF OwnedOnce
      <3>2. index' = index \o Reverse(output) /\ freed' = freed
        BY <1>6, <2>2 DEF ClosePass
      <3>3. Distinct(index) /\ Ids(index) \cap Ids(Reverse(output)) = {}
        BY <3>1 DEF OwnedOnce
      <3>4. Ids(index') = Ids(index) \cup Ids(output) /\ Distinct(index')
        BY <1>0, <3>1, <3>2, <3>3, PourOwns
      <3> QED
        BY <2>1, <3>2, <3>4, MovingOwns DEF OwnedOnce, Owned
    <2>3. CASE result # "ok"
      <3>1. index' = index /\ freed' = freed \cup Ids(output)
        BY <1>6, <2>3 DEF ClosePass, Discarded
      <3> QED
        BY <2>1, <3>1, MovingOwns DEF OwnedOnce, Owned
    <2> QED
      BY <2>2, <2>3
  <1>7. CASE \/ TraversalDone \/ RunIndexer \/ SkipDraft \/ LoseDraft \/ CreationFails
             \/ EndGroup \/ DisplayQualifierInfo \/ UNCHANGED vars
    <2>1. UNCHANGED <<sinks, fresh, freed>>
      BY <1>7 DEF TraversalDone, RunIndexer, SkipDraft, LoseDraft, CreationFails, EndGroup,
                  DisplayQualifierInfo, vars
    <2> QED
      BY <2>1, SinksKept
  <1> QED
    BY <1>1, <1>2, <1>3, <1>4, <1>5, <1>6, <1>7 DEF Next, Step, Terminated

(***************************************************************************)
(* OwnershipCorrect: along every path through every pass, each entry that   *)
(* was allocated is owned by exactly one of the sinks or the walk, or has   *)
(* been deleted once.                                                      *)
(***************************************************************************)
THEOREM OwnershipCorrect == Spec => []OwnedOnce
  <1>1. Init => OwnedOnce
    <2> SUFFICES ASSUME Init PROVE OwnedOnce
      OBVIOUS
    <2>1. Ids(<<>>) = {} /\ Distinct(<<>>)
      BY SmallSinks, EmptySeq
    <2>2. /\ traversal = <<>> /\ index = <<>> /\ output = <<>> /\ entry = <<>>
          /\ freed = {} /\ 1..(fresh - 1) = {}
      BY DEF Init
    <2> QED
      BY <2>1, <2>2 DEF OwnedOnce, Owned
  <1> QED
    BY <1>1, InitTyped, StepTyped, StepOwns, PTL DEF Spec

-----------------------------------------------------------------------------
(***************************************************************************)
(* AtomicityCorrect: a pass that found entries in the index leaves it as it *)
(* was, until the pass has succeeded.  It is inductive with the fact that   *)
(* such a pass writes to a sink of its own.                                 *)
(***************************************************************************)
Separate == pc # "enter" /\ before # <<>> => private

\* A pass that fails leaves the index to its predecessors as they left it.
THEOREM AtomicityCorrect == Spec => []PassIsAtomic
  <1> DEFINE IInv == Separate /\ PassIsAtomic
  <1>1. Init => IInv
    BY DEF Init, PassIsAtomic, Separate
  <1>2. IInv /\ [Next]_vars => IInv'
    <2> SUFFICES ASSUME IInv, [Next]_vars PROVE IInv'
      OBVIOUS
    <2> USE DEF PassIsAtomic, Separate, sinks
    <2>1. CASE Enter
      BY <2>1 DEF Enter, OwnSinkNeeded
    <2>2. CASE KeepEntry
      BY <2>2 DEF KeepEntry
    <2>3. CASE ClosePass
      BY <2>3 DEF ClosePass
    <2>4. CASE \/ PopEntry \/ TraversalDone \/ RunIndexer \/ CreateEntry \/ SkipDraft
               \/ LoseDraft \/ CreationFails \/ EndGroup \/ Drain \/ DisplayQualifierInfo
      BY <2>4 DEF PopEntry, TraversalDone, RunIndexer, CreateEntry, SkipDraft,
                  LoseDraft, CreationFails, EndGroup, Drain, DisplayQualifierInfo
    <2>5. CASE UNCHANGED vars
      BY <2>5 DEF vars
    <2> QED
      BY <2>1, <2>2, <2>3, <2>4, <2>5 DEF Next, Step, Terminated
  <1>3. IInv => PassIsAtomic
    OBVIOUS
  <1> QED
    BY <1>1, <1>2, <1>3, PTL DEF Spec

-----------------------------------------------------------------------------
(***************************************************************************)
(* LeftoversCorrect: no pass hands pending entries to the next one.  The    *)
(* traversal sink is already empty when the qualifiers are displayed.       *)
(***************************************************************************)
TraversalEmptied ==
  pc \in {"enter", "display", "close", "finished", "aborted"} => traversal = <<>>

\* No path through a pass leaves an entry in the traversal sink for the next.
THEOREM LeftoversCorrect == Spec => []NoLeftovers
  <1>1. Init => TraversalEmptied
    BY DEF Init, TraversalEmptied
  <1>2. TraversalEmptied /\ [Next]_vars => TraversalEmptied'
    <2> SUFFICES ASSUME TraversalEmptied, [Next]_vars PROVE TraversalEmptied'
      OBVIOUS
    <2> USE DEF TraversalEmptied, sinks
    <2>1. CASE TraversalDone
      BY <2>1 DEF TraversalDone
    <2>2. CASE Drain
      BY <2>2 DEF Drain
    <2>3. CASE ClosePass \/ DisplayQualifierInfo
      BY <2>3 DEF ClosePass, DisplayQualifierInfo
    <2>4. CASE \/ Enter \/ PopEntry \/ RunIndexer \/ CreateEntry \/ SkipDraft
               \/ LoseDraft \/ CreationFails \/ EndGroup \/ KeepEntry
      <3>1. pc' \in {"pop", "index", "keep", "drain", "create"}
        BY <2>4 DEF Enter, PopEntry, RunIndexer, CreateEntry, SkipDraft, LoseDraft, LoopOn,
                    CreationFails, EndGroup, KeepEntry
      <3> QED
        BY <3>1
    <2>5. CASE UNCHANGED vars
      BY <2>5 DEF vars
    <2> QED
      BY <2>1, <2>2, <2>3, <2>4, <2>5 DEF Next, Step, Terminated
  <1>3. TraversalEmptied => NoLeftovers
    BY DEF TraversalEmptied, NoLeftovers
  <1> QED
    BY <1>1, <1>2, <1>3, PTL DEF Spec

-----------------------------------------------------------------------------
(***************************************************************************)
(* A file that is not there was named by a listing or is the root of a      *)
(* pass, so that its entry is traversed.  If a folder indexer meets it the  *)
(* pass ends; any other indexer that looks it up ends the pass or leaves an *)
(* error in the status, which only a folder indexer forgets.  MissingInv    *)
(* says this of every entry on its way from the traversal sink to the index.*)
(***************************************************************************)
Gone(e) == e.item = "Path" /\ FS[e.path].kind = "missing"

\* What is not there is traversed.
Drafts  == {d \in Draft : Gone(d) => "traverse" \in d.flags}
Entries == {e \in Entry : Gone(e) => "traverse" \in e.flags}

Overlooked(p, n) == \A m \in DOMAIN passes[n].main : ~LooksUp(p, passes[n].main[m])

NoFolder ==
  /\ \A m \in DOMAIN passes[pass].main : passes[pass].main[m] # "folder"
  /\ \A m \in DOMAIN passes[pass].final : passes[pass].final[m] # "folder"

\* The error that is recorded will not be forgotten before the pass ends.
Recorded == status = "failed" /\ NoFolder

Excused(p) == Recorded \/ \E n \in 1..pass : Overlooked(p, n)

Held == {e \in Entry : Gone(e) => Excused(e.path)}

LetBy(p, indexer, s) == indexer # "folder" /\ (LooksUp(p, indexer) => s = "failed")
Cleared(p, indexer)  == LetBy(p, indexer, status)

\* Each indexer of the group being run that has not run yet is one of the pass,
\* and those that have run let the current entry pass.
Running ==
  /\ \A j \in DOMAIN todo : \/ \E m \in DOMAIN passes[pass].main : todo[j] = passes[pass].main[m]
                            \/ \E m \in DOMAIN passes[pass].final : todo[j] = passes[pass].final[m]
  /\ Gone(entry[1]) =>
       /\ \A m \in DOMAIN passes[pass].main :
            \/ Cleared(entry[1].path, passes[pass].main[m])
            \/ group = "main" /\ \E j \in DOMAIN todo : todo[j] = passes[pass].main[m]
       /\ \A m \in DOMAIN passes[pass].final :
            \/ group = "main" \/ passes[pass].final[m] # "folder"
            \/ \E j \in DOMAIN todo : todo[j] = passes[pass].final[m]

MissingInv ==
  /\ traversal \in Seq(Entries) /\ entry \in Seq(Entries) /\ work \in Seq(Drafts)
  /\ index \in Seq(Held) /\ output \in Seq(Held)
  /\ pc \in {"enter", "finished"} => status = "ok"
  /\ pc = "close" /\ result = "ok" => status = "ok"
  /\ pc = "drain" => result = "failed"
  /\ pc \in {"index", "create"} => Running
  /\ pc = "keep" /\ retain /\ Gone(entry[1]) => Excused(entry[1].path)

\* A sequence of a smaller set is one whose elements are.
LEMMA SeqWithin ==
  ASSUME NEW S, NEW T, NEW s \in Seq(S), \A k \in DOMAIN s : s[k] \in T
  PROVE  s \in Seq(T)
  OBVIOUS

\* A sequence of a set is one of a larger set.
LEMMA SeqGrows ==
  ASSUME NEW T, NEW U, T \subseteq U, NEW s \in Seq(T)
  PROVE  s \in Seq(U)
  OBVIOUS

\* A sequence and its reverse hold the same.
LEMMA SeqReversed ==
  ASSUME NEW T, NEW s \in Seq(T)
  PROVE  Reverse(s) \in Seq(T)
  <1>1. Len(s) \in Nat /\ \A k \in 1..Len(s) : s[k] \in T
    OBVIOUS
  <1>2. \A k \in 1..Len(s) : Len(s) - k + 1 \in 1..Len(s)
    BY <1>1
  <1>3. Reverse(s) \in [1..Len(s) -> T]
    BY <1>1, <1>2 DEF Reverse
  <1> QED
    BY <1>1, <1>3

\* What an indexer says of an entry whose file is not there.
LEMMA GoneIsNoticed ==
  ASSUME NEW i \in Indexers, NEW e \in Entry, NEW h \in BOOLEAN, NEW s \in Outcomes, Gone(e),
         NEW o \in IndexerStep(i, e, h, s), o.result # "failed"
  PROVE  /\ i # "folder"
         /\ LooksUp(e.path, i) => o.status = "failed"
         /\ o.status = s \/ o.status = "failed"
         /\ o.new = <<>>
  <1>1. /\ e.path \in Paths /\ e.item = "Path" /\ InFiles(e) /\ Denotes(e) = e.path /\ Denotes(e) # NoPath
        /\ FS[Denotes(e)].kind = "missing"
    BY FSAssumption DEF Entry, Gone, InFiles, Denotes
  <1>2. CASE i = "folder"
    BY <1>1, <1>2 DEF IndexerStep, FolderStep, Fails, Outcome
  <1>3. CASE i = "embedfiles"
    BY <1>1, <1>3 DEF IndexerStep, EmbedStep, Fails, Outcome, Unreadable
  <1>4. CASE i \in {"resfiles", "resjson"}
    BY <1>1, <1>4 DEF IndexerStep, TextStep, Fails, Outcome, Computed, Matches, LooksUp
  <1>5. CASE i = "resw"
    BY <1>1, <1>5 DEF IndexerStep, ReswStep, Fails, Outcome, Computed, Matches, LooksUp
  <1>6. CASE i \in {"priinfo", "pri"}
    BY <1>1, <1>6 DEF IndexerStep, PriStep, Fails, Outcome, Untouched, Matches, LooksUp
  <1> QED
    BY <1>2, <1>3, <1>4, <1>5, <1>6 DEF Indexers, Containers

\* Only the folder indexer forgets an error.
LEMMA OnlyFoldersForget ==
  ASSUME NEW i \in Indexers, NEW e \in Entry, NEW h \in BOOLEAN, NEW o \in IndexerStep(i, e, h, "failed"),
         i # "folder"
  PROVE  o.status = "failed"
  <1> DEFINE Failed == {x \in Returned : x.status = "failed"}
  <1>1. /\ \A hh \in BOOLEAN : Fails(hh) \in Failed /\ Unreadable(hh) \subseteq Failed
        /\ \A hh \in BOOLEAN : Untouched(hh, "failed") \in Failed /\ Computed(hh, "failed") \in Failed
        /\ \A hh \in BOOLEAN, new \in Seq(Draft) : Outcome("ok", hh, "failed", new) \in Failed
    <2>1. \A hh \in BOOLEAN : Fails(hh).status = "failed" /\ \A x \in Unreadable(hh) : x.status = "failed"
      BY DEF Fails, Unreadable, Outcome
    <2>2. \A hh \in BOOLEAN :
            Untouched(hh, "failed").status = "failed" /\ Computed(hh, "failed").status = "failed"
      BY DEF Untouched, Computed, Outcome
    <2>3. \A hh \in BOOLEAN, new \in Seq(Draft) : Outcome("ok", hh, "failed", new).status = "failed"
      BY DEF Outcome
    <2>4. "failed" \in Outcomes
      BY DEF Outcomes
    <2> QED
      BY <2>1, <2>2, <2>3, <2>4, OutcomesTyped
  <1> HIDE DEF Failed
  <1>2. EmbedStep(e, h, "failed") \subseteq Failed
    <2>1. CASE ~InFiles(e) \/ Denotes(e) = NoPath
      BY <1>1, <2>1 DEF EmbedStep
    <2>2. CASE ~(~InFiles(e) \/ Denotes(e) = NoPath)
      <3>1. FS[Denotes(e)].kind \in {"dir", "file", "missing"}
        BY <2>2, ObjectsTyped DEF Denotes, Entry
      <3> QED
        BY <1>1, <2>2, <3>1 DEF EmbedStep
    <2> QED
      BY <2>1, <2>2
  <1>3. \A fmt \in Containers : TextStep(fmt, e, h, "failed") \subseteq Failed
    BY <1>1 DEF TextStep, ParseStep, Matches
  <1>4. ReswStep(e, h, "failed") \subseteq Failed
    BY <1>1 DEF ReswStep, ParseStep
  <1>5. \A fmt \in Containers : PriStep(fmt, e, h, "failed") \subseteq Failed
    BY <1>1, DraftsTyped DEF PriStep, ParseStep, Matches
  <1>6. o \in Failed
    BY <1>2, <1>3, <1>4, <1>5 DEF IndexerStep, Indexers, Containers
  <1> QED
    BY <1>6 DEF Failed

\* What an indexer creates is there or traversed.
LEMMA NewIsTraversed ==
  ASSUME NEW i \in Indexers, NEW e \in Entry, NEW h \in BOOLEAN, NEW s \in Outcomes,
         NEW o \in IndexerStep(i, e, h, s)
  PROVE  o.new \in Seq(Drafts)
  <1>1. e.path \in Paths
    BY DEF Entry
  <1>2. <<>> \in Seq(Drafts)
    OBVIOUS
  <1>3. FS[e.path].kind = "dir" => Children(e.path) \in Seq(Drafts)
    <2> SUFFICES ASSUME FS[e.path].kind = "dir"
                 PROVE  Children(e.path) \in Seq(Drafts)
      OBVIOUS
    <2>0. Children(e.path) \in Seq(Draft)
      BY DraftsTyped
    <2>1. ASSUME NEW k \in DOMAIN Children(e.path)
          PROVE  Children(e.path)[k] \in Drafts
      <3>1. k \in 1..Len(FS[e.path].members) /\ FS[e.path].members \in Seq(Paths)
        BY <1>1, ObjectsTyped DEF Children
      <3>2. k \in DOMAIN FS[e.path].members
        BY <3>1
      <3>3. FS[FS[e.path].members[k]].kind # "missing"
        BY <1>1, <3>2, FSAssumption
      <3>4. Children(e.path)[k] \in Draft
        BY <2>0
      <3> QED
        BY <3>1, <3>3, <3>4 DEF Children, PathEntry, Gone, Drafts
    <2> QED
      BY <2>0, <2>1, SeqWithin
  <1>4. Contents(e) \in Seq(Drafts)
    <2>1. \A k \in DOMAIN Contents(e) : Gone(Contents(e)[k]) => "traverse" \in Contents(e)[k].flags
      <3>1. CASE e.item = "resfiles"
        BY <3>1 DEF Contents, PathEntry, Flags
      <3>2. CASE e.item # "resfiles"
        BY <3>2 DEF Contents, ValueEntry, Gone
      <3> QED
        BY <3>1, <3>2
    <2>2. Contents(e) \in Seq(Draft)
      BY DraftsTyped
    <2>3. \A k \in DOMAIN Contents(e) : Contents(e)[k] \in Drafts
      BY <2>1, <2>2 DEF Drafts
    <2> QED
      BY <2>2, <2>3, SeqWithin
  <1>5. /\ <<ValueEntry(e.path, "Embedded")>> \in Seq(Drafts)
        /\ \A fmt \in Containers : Matches(e, fmt) => Redirect(e, fmt) \in Seq(Drafts)
    <2>1. ~Gone(ValueEntry(e.path, "Embedded")) /\ \A fmt \in Containers : ~Gone(Redirect(e, fmt)[1])
      BY DEF ValueEntry, Gone, Redirect, ContentEntry, Containers
    <2>2. ValueEntry(e.path, "Embedded") \in Draft
      BY <1>1 DEF ValueEntry, Draft, Flags, Items
    <2>3. \A fmt \in Containers :
            Matches(e, fmt) => Redirect(e, fmt) \in Seq(Draft) /\ Len(Redirect(e, fmt)) = 1
      BY DraftsTyped DEF Redirect
    <2>4. \A fmt \in Containers : Matches(e, fmt) => Redirect(e, fmt) \in Seq(Drafts)
      <3> SUFFICES ASSUME NEW fmt \in Containers, Matches(e, fmt)
                   PROVE  Redirect(e, fmt) \in Seq(Drafts)
        OBVIOUS
      <3>1. Redirect(e, fmt) \in Seq(Draft) /\ Len(Redirect(e, fmt)) = 1 /\ ~Gone(Redirect(e, fmt)[1])
        BY <2>1, <2>3
      <3>2. \A k \in DOMAIN Redirect(e, fmt) : Redirect(e, fmt)[k] \in Drafts
        BY <3>1 DEF Drafts
      <3> QED
        BY <3>1, <3>2, SeqWithin
    <2> QED
      BY <2>1, <2>2, <2>4 DEF Drafts
  <1> DEFINE Good == {x \in Returned : x.new \in Seq(Drafts)}
  <1>6. /\ \A hh \in BOOLEAN : Fails(hh) \in Good /\ Unreadable(hh) \subseteq Good
        /\ \A hh \in BOOLEAN, ss \in Outcomes : Untouched(hh, ss) \in Good /\ Computed(hh, ss) \in Good
        /\ \A hh \in BOOLEAN, ss \in Outcomes, new \in Seq(Draft) :
             new \in Seq(Drafts) => Outcome("ok", hh, ss, new) \in Good
    <2>1. \A hh \in BOOLEAN : Fails(hh).new = <<>> /\ \A x \in Unreadable(hh) : x.new = <<>>
      BY DEF Fails, Unreadable, Outcome
    <2>2. \A hh \in BOOLEAN, ss \in Outcomes : Untouched(hh, ss).new = <<>> /\ Computed(hh, ss).new = <<>>
      BY DEF Untouched, Computed, Outcome
    <2>3. \A hh \in BOOLEAN, ss \in Outcomes, new \in Seq(Draft) : Outcome("ok", hh, ss, new).new = new
      BY DEF Outcome
    <2>4. \A hh \in BOOLEAN : Fails(hh) \in Good /\ Unreadable(hh) \subseteq Good
      BY <1>2, <2>1, OutcomesTyped
    <2>5. \A hh \in BOOLEAN, ss \in Outcomes : Untouched(hh, ss) \in Good /\ Computed(hh, ss) \in Good
      BY <1>2, <2>2, OutcomesTyped
    <2>6. \A hh \in BOOLEAN, ss \in Outcomes, new \in Seq(Draft) :
            new \in Seq(Drafts) => Outcome("ok", hh, ss, new) \in Good
      BY <2>3, OutcomesTyped
    <2> HIDE DEF Good
    <2> QED
      BY <2>4, <2>5, <2>6
  <1> HIDE DEF Good
  <1>7. ParseStep(e, s) \subseteq Good
    BY <1>4, <1>6, DraftsTyped DEF ParseStep
  <1>8. FolderStep(e, h, s) \subseteq Good
    <2>1. FS[e.path].kind \in {"dir", "file", "missing"}
      BY <1>1, ObjectsTyped
    <2>2. Untouched("index" \notin e.flags, "ok") \in Good
      BY <1>6 DEF Outcomes
    <2> QED
      BY <1>3, <1>6, <2>1, <2>2, DraftsTyped DEF FolderStep
  <1>9. EmbedStep(e, h, s) \subseteq Good
    <2>1. CASE ~InFiles(e) \/ Denotes(e) = NoPath
      BY <1>6, <2>1 DEF EmbedStep
    <2>2. CASE ~(~InFiles(e) \/ Denotes(e) = NoPath)
      <3>1. FS[Denotes(e)].kind \in {"dir", "file", "missing"}
        BY <2>2, <1>1, ObjectsTyped DEF Denotes, Entry
      <3> QED
        BY <1>5, <1>6, <2>2, <3>1, DraftsTyped DEF EmbedStep
    <2> QED
      BY <2>1, <2>2
  <1>10. \A fmt \in Containers : TextStep(fmt, e, h, s) \subseteq Good
    BY <1>5, <1>6, <1>7, DraftsTyped DEF TextStep, Matches
  <1>11. ReswStep(e, h, s) \subseteq Good
    BY <1>5, <1>6, <1>7, DraftsTyped DEF ReswStep, Containers
  <1>12. \A fmt \in Containers : PriStep(fmt, e, h, s) \subseteq Good
    BY <1>5, <1>6, <1>7, DraftsTyped DEF PriStep, Matches, Outcomes
  <1>13. o \in Good
    BY <1>8, <1>9, <1>10, <1>11, <1>12 DEF IndexerStep, Indexers, Containers
  <1> QED
    BY <1>13 DEF Good

\* Whatever path is excused stays excused when the pass goes on.
ExcusesKept == \A p \in Paths : Excused(p) => Excused(p)'

\* So what a sink holds it may go on holding.
LEMMA HeldKept ==
  ASSUME ExcusesKept, NEW s \in Seq(Held), Held \subseteq Entry
  PROVE  s \in Seq(Held)'
  <1>1. Held \subseteq Held'
    BY DEF Held, ExcusesKept, Entry, Gone
  <1> QED
    BY <1>1, SeqGrows

\* The pass goes on with the status it has.
LEMMA ExcusesStay ==
  ASSUME UNCHANGED <<passes, pass, status>>
  PROVE  ExcusesKept /\ Held' = Held
  BY DEF ExcusesKept, Excused, Recorded, NoFolder, Overlooked, Held

\* The indexers of a pass are indexers of the program.
LEMMA GroupsTyped ==
  ASSUME TypeOK
  PROVE  /\ pass \in Nat /\ pass \in 1..pass /\ pass \in DOMAIN passes
         /\ \A m \in DOMAIN passes[pass].main : passes[pass].main[m] \in Indexers
         /\ \A m \in DOMAIN passes[pass].final : passes[pass].final[m] \in Indexers
  <1>1. passes[pass].main \in Seq(Indexers) /\ passes[pass].final \in Seq(Indexers)
    BY RootTyped
  <1>2. passes \in Seq(PassConfig) /\ pass \in 1..Len(passes)
    BY ConfigurationsAssumption DEF TypeOK
  <1> QED
    BY <1>1, <1>2

\* A sequence is its head and its tail.
LEMMA Uncons ==
  ASSUME NEW S, NEW s \in Seq(S), s # <<>>
  PROVE  /\ Head(s) \in S /\ Tail(s) \in Seq(S)
         /\ \A j \in DOMAIN s : s[j] = Head(s) \/ \E l \in DOMAIN Tail(s) : s[j] = Tail(s)[l]
         /\ \A j \in DOMAIN Tail(s) : \E l \in DOMAIN s : Tail(s)[j] = s[l]
         /\ \E l \in DOMAIN s : Head(s) = s[l]
  <1>1. /\ Head(s) \in S /\ Tail(s) \in Seq(S) /\ Head(s) = s[1] /\ Len(s) \in Nat \ {0}
        /\ Len(Tail(s)) = Len(s) - 1 /\ \A j \in 1..(Len(s) - 1) : Tail(s)[j] = s[j + 1]
    OBVIOUS
  <1>2. DOMAIN s = 1..Len(s) /\ DOMAIN Tail(s) = 1..(Len(s) - 1)
    BY <1>1, LenProperties
  <1>3. \A j \in DOMAIN s : s[j] = Head(s) \/ \E l \in DOMAIN Tail(s) : s[j] = Tail(s)[l]
    <2> TAKE j \in DOMAIN s
    <2>1. CASE j = 1
      BY <1>1, <2>1
    <2>2. CASE j # 1
      <3>1. j - 1 \in DOMAIN Tail(s) /\ (j - 1) + 1 = j
        BY <1>1, <1>2, <2>2
      <3>2. Tail(s)[j - 1] = s[j]
        BY <1>1, <1>2, <3>1
      <3> QED
        BY <3>1, <3>2
    <2> QED
      BY <2>1, <2>2
  <1>4. \A j \in DOMAIN Tail(s) : j + 1 \in DOMAIN s /\ Tail(s)[j] = s[j + 1]
    BY <1>1, <1>2
  <1>5. 1 \in DOMAIN s
    BY <1>1, <1>2
  <1> QED
    BY <1>1, <1>3, <1>4, <1>5

\* An indexer that looks up the file of the current entry fails, or records the error.
LEMMA RunIndexerKeeps ==
  ASSUME TypeOK, TypeOK', MissingInv, RunIndexer
  PROVE  MissingInv'
  <1> DEFINE i == Head(todo)
             e == entry[1]
  <1>1. e \in Entry /\ e \in Entries /\ e.path \in Paths
    <2>1. entry \in Seq(Entry) /\ entry \in Seq(Entries) /\ Len(entry) = 1
      BY DEF RunIndexer, TypeOK, MissingInv
    <2>2. e \in Entry /\ e \in Entries
      BY <2>1, ElementOfSeq
    <2> QED
      BY <2>2 DEF Entry
  <1>2. /\ todo # <<>> /\ todo \in Seq(Indexers) /\ i \in Indexers /\ Tail(todo) \in Seq(Indexers)
        /\ \A j \in DOMAIN todo : todo[j] = i \/ \E l \in DOMAIN Tail(todo) : todo[j] = Tail(todo)[l]
        /\ \A j \in DOMAIN Tail(todo) : \E l \in DOMAIN todo : Tail(todo)[j] = todo[l]
        /\ \E l \in DOMAIN todo : i = todo[l]
    <2>1. todo # <<>> /\ todo \in Seq(Indexers)
      BY DEF RunIndexer, TypeOK
    <2> QED
      BY <2>1, Uncons
  <1>3. PICK o \in IndexerStep(i, e, handled, status) :
          /\ handled' = o.handled /\ status' = o.status /\ result' = o.result
          /\ work' = o.new
          /\ IF o.result = "failed"
             THEN pc' = "drain" /\ UNCHANGED <<retain, todo>>
             ELSE /\ pc' = (IF o.new = <<>> THEN "index" ELSE "create")
                  /\ retain' = Retains(retain, o.handled)
                  /\ todo' = Tail(todo)
    BY DEF RunIndexer
  <1>4. /\ pc = "index" /\ Running
        /\ UNCHANGED <<passes, pass, traversal, index, output, entry, private, group, fresh, before, freed>>
    BY DEF RunIndexer, MissingInv, sinks
  <1>5. work' \in Seq(Drafts)
    BY <1>1, <1>2, <1>3, NewIsTraversed DEF TypeOK
  <1>6. ExcusesKept
    <2> SUFFICES ASSUME Recorded PROVE Recorded'
      BY <1>4 DEF ExcusesKept, Excused, Overlooked
    <2>1. i # "folder"
      BY <1>2, <1>4 DEF Running, Recorded, NoFolder
    <2>2. o \in IndexerStep(i, e, handled, "failed")
      BY <1>3 DEF Recorded
    <2>3. o.status = "failed"
      BY <1>1, <1>2, <2>1, <2>2, OnlyFoldersForget DEF TypeOK
    <2> QED
      BY <1>3, <1>4, <2>3 DEF Recorded, NoFolder
  <1>7. ASSUME o.result # "failed"
        PROVE  Running'
    <2>1. \A j \in DOMAIN todo' : \/ \E m \in DOMAIN passes[pass].main : todo'[j] = passes[pass].main[m]
                                  \/ \E m \in DOMAIN passes[pass].final : todo'[j] = passes[pass].final[m]
      <3>1. todo' = Tail(todo)
        BY <1>3, <1>7
      <3>2. \A j \in DOMAIN todo' : \E l \in DOMAIN todo : todo'[j] = todo[l]
        BY <1>2, <3>1
      <3> QED
        BY <1>4, <3>2 DEF Running
    <2>2. ASSUME Gone(e)
          PROVE  /\ \A m \in DOMAIN passes[pass].main :
                      \/ LetBy(e.path, passes[pass].main[m], status')
                      \/ group = "main" /\ \E j \in DOMAIN todo' : todo'[j] = passes[pass].main[m]
                 /\ \A m \in DOMAIN passes[pass].final :
                      \/ group = "main" \/ passes[pass].final[m] # "folder"
                      \/ \E j \in DOMAIN todo' : todo'[j] = passes[pass].final[m]
      <3>1. /\ i # "folder"
            /\ LooksUp(e.path, i) => status' = "failed"
            /\ status' = status \/ status' = "failed"
        <4>1. handled \in BOOLEAN /\ status \in Outcomes
          BY DEF TypeOK
        <4>2. /\ i # "folder"
              /\ LooksUp(e.path, i) => o.status = "failed"
              /\ o.status = status \/ o.status = "failed"
          BY <1>1, <1>2, <1>7, <2>2, <4>1, GoneIsNoticed
        <4> QED
          BY <1>3, <4>2
      <3> HIDE DEF i, e
      <3>2. LetBy(e.path, i, status')
        BY <3>1 DEF LetBy
      <3>3. \A x : LetBy(e.path, x, status) => LetBy(e.path, x, status')
        BY <3>1 DEF LetBy
      <3>4. \A x : (\E j \in DOMAIN todo : todo[j] = x) => x = i \/ \E j \in DOMAIN todo' : todo'[j] = x
        BY <1>2, <1>3, <1>7
      <3>5. /\ \A m \in DOMAIN passes[pass].main :
                 \/ LetBy(e.path, passes[pass].main[m], status)
                 \/ group = "main" /\ \E j \in DOMAIN todo : todo[j] = passes[pass].main[m]
            /\ \A m \in DOMAIN passes[pass].final :
                 \/ group = "main" \/ passes[pass].final[m] # "folder"
                 \/ \E j \in DOMAIN todo : todo[j] = passes[pass].final[m]
        BY <1>4, <2>2 DEF Running, Cleared, e
      <3>6. \A m \in DOMAIN passes[pass].main :
              \/ LetBy(e.path, passes[pass].main[m], status')
              \/ group = "main" /\ \E j \in DOMAIN todo' : todo'[j] = passes[pass].main[m]
        BY <3>2, <3>3, <3>4, <3>5
      <3>7. \A m \in DOMAIN passes[pass].final :
              \/ group = "main" \/ passes[pass].final[m] # "folder"
              \/ \E j \in DOMAIN todo' : todo'[j] = passes[pass].final[m]
        BY <3>1, <3>4, <3>5
      <3> QED
        BY <3>6, <3>7
    <2> QED
      BY <1>4, <2>1, <2>2 DEF Running, Gone, Cleared
  <1>8. index' \in Seq(Held)' /\ output' \in Seq(Held)'
    BY <1>4, <1>6, HeldKept DEF MissingInv, Held
  <1>9. /\ pc' \in {"index", "create"} => o.result # "failed"
        /\ pc' = "drain" => result' = "failed"
        /\ pc' \in {"drain", "index", "create"}
        /\ traversal' \in Seq(Entries)' /\ entry' \in Seq(Entries)'
        /\ work' \in Seq(Drafts)'
    BY <1>3, <1>4, <1>5 DEF MissingInv, Entries, Drafts, Gone, Entry
  <1> QED
    BY <1>7, <1>8, <1>9 DEF MissingInv

\* The root of a pass is traversed, whether it is there or not.
LEMMA EnterKeeps ==
  ASSUME TypeOK, TypeOK', MissingInv, Enter
  PROVE  MissingInv'
  <1>1. UNCHANGED <<passes, pass, status, index, output, entry, work>> /\ pc = "enter" /\ pc' = "pop"
    BY DEF Enter, loop
  <1>2. index' \in Seq(Held)' /\ output' \in Seq(Held)'
    BY <1>1, ExcusesStay DEF MissingInv
  <1>3. traversal' \in Seq(Entries)
    <2>1. New(PathEntry(passes[pass].root, {"traverse"})) \in Entry
      BY RootTyped, DraftBecomesEntry DEF TypeOK
    <2>2. New(PathEntry(passes[pass].root, {"traverse"})) \in Entries
      BY <2>1 DEF New, PathEntry, Entries
    <2> QED
      BY <2>2 DEF Enter, MissingInv
  <1>4. entry' \in Seq(Entries)' /\ work' \in Seq(Drafts)' /\ traversal' \in Seq(Entries)'
    BY <1>1, <1>3 DEF MissingInv, Entries, Drafts, Gone, Entry
  <1> QED
    BY <1>1, <1>2, <1>4 DEF MissingInv

\* An entry that is not traversed is there.
LEMMA PopEntryKeeps ==
  ASSUME TypeOK, TypeOK', MissingInv, PopEntry
  PROVE  MissingInv'
  <1> DEFINE e == traversal[Len(traversal)]
  <1>1. /\ UNCHANGED <<passes, pass, status, index, output, work>> /\ pc' \in {"index", "keep"}
        /\ entry' = <<e>> /\ traversal' = SubSeq(traversal, 1, Len(traversal) - 1)
    BY DEF PopEntry
  <1>2. index' \in Seq(Held)' /\ output' \in Seq(Held)'
    BY <1>1, ExcusesStay DEF MissingInv
  <1>3. /\ traversal \in Seq(Entries) /\ traversal # <<>>
        /\ e \in Entries /\ traversal' \in Seq(Entries)
    <2>1. traversal \in Seq(Entries) /\ traversal # <<>>
      BY DEF MissingInv, PopEntry
    <2>2. Len(traversal) \in Nat \ {0}
      BY <2>1, EmptySeq, LenProperties
    <2>3. SubSeq(traversal, 1, Len(traversal) - 1) \in Seq(Entries)
      BY <2>1, <2>2, SubSeqProperties
    <2> QED
      BY <1>1, <2>1, <2>2, <2>3, ElementOfSeq
  <1>4. entry' \in Seq(Entries) /\ entry'[1] = e
    BY <1>1, <1>3
  <1>5. ASSUME pc' = "keep"
        PROVE  ~Gone(entry'[1])
    BY <1>3, <1>4, <1>5 DEF PopEntry, Entries
  <1>6. ASSUME pc' = "index"
        PROVE  Running'
    <2>1. group' = "main" /\ todo' = passes[pass].main
      BY <1>6 DEF PopEntry
    <2> QED
      BY <1>1, <2>1 DEF Running
  <1>7. entry' \in Seq(Entries)' /\ work' \in Seq(Drafts)' /\ traversal' \in Seq(Entries)'
    BY <1>1, <1>3, <1>4 DEF MissingInv, Entries, Drafts, Gone, Entry
  <1> QED
    BY <1>1, <1>2, <1>5, <1>6, <1>7 DEF MissingInv, Gone

\* What is created is there or traversed; a failure is an error in the status.
LEMMA CreationKeeps ==
  ASSUME TypeOK, TypeOK', MissingInv, CreateEntry \/ SkipDraft \/ LoseDraft \/ CreationFails
  PROVE  MissingInv'
  <1>0. /\ pc = "create" /\ UNCHANGED <<passes, pass, index, output, entry, group, todo, retain>>
        /\ work \in Seq(Draft) /\ work \in Seq(Drafts) /\ work # <<>>
    BY DEF CreateEntry, SkipDraft, LoseDraft, CreationFails, MissingInv, TypeOK, sinks
  <1>1. Head(work) \in Drafts /\ Head(work) \in Draft /\ Tail(work) \in Seq(Drafts)
    BY <1>0, Uncons
  <1>2. work' \in Seq(Drafts)
    <2>1. <<>> \in Seq(Drafts)
      BY EmptySeq
    <2>2. work' = Tail(work) \/ work' = <<>>
      BY DEF CreateEntry, SkipDraft, LoseDraft, CreationFails
    <2> QED
      BY <1>1, <2>1, <2>2
  <1>3. traversal' \in Seq(Entries)
    <2>1. CASE CreateEntry
      <3>1. New(Head(work)) \in Entry
        BY <1>1, DraftBecomesEntry DEF TypeOK
      <3>2. New(Head(work)) \in Entries
        BY <1>1, <3>1 DEF New, Entries, Drafts, Gone
      <3> QED
        BY <2>1, <3>2 DEF CreateEntry, MissingInv
    <2>2. CASE SkipDraft \/ LoseDraft \/ CreationFails
      BY <2>2 DEF SkipDraft, LoseDraft, CreationFails, MissingInv, sinks
    <2> QED
      BY <2>1, <2>2
  <1>4. /\ entry' \in Seq(Entries)' /\ work' \in Seq(Drafts)' /\ traversal' \in Seq(Entries)'
        /\ index' \in Seq(Held) /\ output' \in Seq(Held)
    BY <1>0, <1>2, <1>3 DEF MissingInv, Entries, Drafts, Gone, Entry
  <1>5. CASE CreateEntry \/ SkipDraft \/ LoseDraft
    <2>1. UNCHANGED status /\ pc' \in {"index", "create"}
      BY <1>5 DEF CreateEntry, SkipDraft, LoseDraft, LoopOn
    <2>2. Running /\ Running' = Running
      BY <1>0, <2>1 DEF MissingInv, Running, Cleared, Gone
    <2>3. Held' = Held
      BY <1>0, <2>1, ExcusesStay
    <2> QED
      BY <1>4, <2>1, <2>2, <2>3 DEF MissingInv
  <1>6. CASE CreationFails
    <2>1. status' = "failed" /\ pc' = "drain" /\ result' = "failed"
      BY <1>6 DEF CreationFails
    <2>2. ExcusesKept
      BY <1>0, <2>1 DEF ExcusesKept, Excused, Recorded, NoFolder, Overlooked
    <2>3. index' \in Seq(Held)' /\ output' \in Seq(Held)'
      BY <1>4, <2>2, HeldKept DEF Held
    <2> QED
      BY <1>4, <2>1, <2>3 DEF MissingInv
  <1> QED
    BY <1>5, <1>6

\* A group of indexers has run: if it was the last, the entry is excused.
LEMMA EndGroupKeeps ==
  ASSUME TypeOK, TypeOK', MissingInv, EndGroup
  PROVE  MissingInv'
  <1>1. /\ pc = "index" /\ todo = <<>> /\ Running
        /\ UNCHANGED <<passes, pass, status, index, output, entry, traversal, work, retain>>
    BY DEF EndGroup, MissingInv, sinks
  <1>2. index' \in Seq(Held)' /\ output' \in Seq(Held)'
    BY <1>1, ExcusesStay DEF MissingInv
  <1>3. entry' \in Seq(Entries)' /\ work' \in Seq(Drafts)' /\ traversal' \in Seq(Entries)'
    BY <1>1 DEF MissingInv, Entries, Drafts, Gone, Entry
  <1>4. DOMAIN todo = {}
    BY <1>1
  <1>5. Gone(entry[1]) => \A m \in DOMAIN passes[pass].main : Cleared(entry[1].path, passes[pass].main[m])
    BY <1>1, <1>4 DEF Running
  <1>6. CASE FinalGroupDue
    <2>1. group' = "final" /\ todo' = passes[pass].final /\ pc' = "index"
      BY <1>1, <1>6 DEF EndGroup
    <2>2. Running'
      BY <1>1, <1>5, <2>1 DEF Running, Cleared, Gone
    <2> QED
      BY <1>2, <1>3, <2>1, <2>2 DEF MissingInv
  <1>7. CASE ~FinalGroupDue
    <2>1. pc' = "keep"
      BY <1>7 DEF EndGroup
    <2>2. ASSUME retain, Gone(entry[1])
          PROVE  Excused(entry[1].path)
      <3>1. group = "final"
        BY <1>7, <2>2 DEF FinalGroupDue, TypeOK
      <3>2. NoFolder
        BY <1>1, <1>4, <1>5, <2>2, <3>1 DEF Running, NoFolder, Cleared, LetBy
      <3>3. pass \in 1..pass
        BY GroupsTyped
      <3>4. CASE Overlooked(entry[1].path, pass)
        BY <3>3, <3>4 DEF Excused
      <3>5. CASE ~Overlooked(entry[1].path, pass)
        BY <1>5, <2>2, <3>2, <3>5 DEF Overlooked, Cleared, LetBy, Excused, Recorded
      <3> QED
        BY <3>4, <3>5
    <2>3. retain' /\ Gone(entry[1])' => Excused(entry[1].path)'
      BY <1>1, <2>2 DEF Gone, Excused, Recorded, NoFolder, Overlooked
    <2> QED
      BY <1>2, <1>3, <2>1, <2>3 DEF MissingInv
  <1> QED
    BY <1>6, <1>7

\* What is kept is there, or excused.
LEMMA KeepEntryKeeps ==
  ASSUME TypeOK, TypeOK', MissingInv, KeepEntry
  PROVE  MissingInv'
  <1>1. /\ pc = "keep" /\ pc' = "pop" /\ entry' = <<>>
        /\ UNCHANGED <<passes, pass, status, traversal, work>>
    BY DEF KeepEntry, loop
  <1>2. Held' = Held
    BY <1>1, ExcusesStay
  <1>3. retain => entry \in Seq(Held)
    <2> SUFFICES ASSUME retain PROVE entry \in Seq(Held)
      OBVIOUS
    <2>1. entry \in Seq(Entry) /\ Len(entry) = 1
      BY <1>1 DEF TypeOK
    <2>2. entry[1] \in Entry /\ DOMAIN entry = {1}
      BY <2>1, SMTT(30)
    <2>3. entry[1] \in Held
      BY <1>1, <2>2 DEF MissingInv, Held
    <2>4. \A k \in DOMAIN entry : entry[k] \in Held
      BY <2>2, <2>3
    <2> QED
      BY <2>1, <2>4, SeqWithin
  <1>4. index \in Seq(Held) /\ output \in Seq(Held)
    BY DEF MissingInv
  <1>5. index' \in Seq(Held) /\ output' \in Seq(Held)
    <2>1. retain => index \o entry \in Seq(Held) /\ output \o entry \in Seq(Held)
      BY <1>3, <1>4, ConcatProperties
    <2> QED
      BY <1>4, <2>1 DEF KeepEntry
  <1>6. entry' \in Seq(Entries)' /\ work' \in Seq(Drafts)' /\ traversal' \in Seq(Entries)'
    BY <1>1 DEF MissingInv, Entries, Drafts, Gone, Entry
  <1> QED
    BY <1>1, <1>2, <1>5, <1>6 DEF MissingInv

\* A pass that succeeds leaves no error behind, and what it kept is in the index.
LEMMA ClosePassKeeps ==
  ASSUME TypeOK, TypeOK', MissingInv, ClosePass
  PROVE  MissingInv'
  <1>1. /\ pc = "close" /\ output' = <<>> /\ pc' \in {"enter", "finished", "aborted"}
        /\ UNCHANGED <<passes, status, traversal, entry, work>>
        /\ pass' = pass \/ (pass' = pass + 1 /\ result = "ok")
        /\ pc' \in {"enter", "finished"} => result = "ok"
    BY DEF ClosePass, loop
  <1>2. index \in Seq(Held) /\ output \in Seq(Held) /\ (result = "ok" => status = "ok")
    BY <1>1 DEF MissingInv
  <1>3. index' \in Seq(Held)
    <2>1. Reverse(output) \in Seq(Held)
      BY <1>2, SeqReversed
    <2>2. index \o Reverse(output) \in Seq(Held)
      BY <1>2, <2>1, ConcatProperties
    <2> QED
      BY <1>2, <2>2 DEF ClosePass
  <1>4. ExcusesKept
    <2>1. CASE pass' = pass
      BY <1>1, <2>1, ExcusesStay
    <2>2. CASE pass' = pass + 1 /\ result = "ok"
      <3>1. ~Recorded
        BY <1>2, <2>2 DEF Recorded
      <3>2. 1..pass \subseteq 1..pass'
        BY <2>2, GroupsTyped
      <3> QED
        BY <1>1, <3>1, <3>2 DEF ExcusesKept, Excused, Overlooked
    <2> QED
      BY <1>1, <2>1, <2>2
  <1>5. index' \in Seq(Held)'
    BY <1>3, <1>4, HeldKept DEF Held
  <1>6. entry' \in Seq(Entries)' /\ work' \in Seq(Drafts)' /\ traversal' \in Seq(Entries)'
    BY <1>1 DEF MissingInv, Entries, Drafts, Gone, Entry
  <1> QED
    BY <1>1, <1>2, <1>5, <1>6 DEF MissingInv

\* MissingInv is inductive, given the types.
LEMMA MissingStep == TypeOK /\ TypeOK' /\ MissingInv /\ [Next]_vars => MissingInv'
  <1> SUFFICES ASSUME TypeOK, TypeOK', MissingInv, [Next]_vars PROVE MissingInv'
    OBVIOUS
  <1> USE DEF sinks, loop
  <1>1. CASE TraversalDone
    <2>1. UNCHANGED <<passes, pass, status, index, output, traversal, entry, work>> /\ pc' = "display"
      BY <1>1 DEF TraversalDone
    <2> QED
      BY <2>1, ExcusesStay DEF MissingInv, Entries, Drafts, Gone, Entry
  <1>2. CASE Drain
    <2>1. /\ UNCHANGED <<passes, pass, status, index, output, work, result>>
          /\ pc = "drain" /\ pc' = "close" /\ traversal' = <<>> /\ entry' = <<>>
      BY <1>2 DEF Drain
    <2>2. result' = "failed"
      BY <2>1 DEF MissingInv
    <2> QED
      BY <2>1, <2>2, ExcusesStay DEF MissingInv, Entries, Drafts, Gone, Entry
  <1>3. CASE DisplayQualifierInfo
    <2>1. /\ UNCHANGED <<passes, pass, status, index, output, traversal, entry, work>>
          /\ pc' = "close" /\ (result' = "ok" => status' = "ok")
      BY <1>3 DEF DisplayQualifierInfo, ReportedResult
    <2> QED
      BY <2>1, ExcusesStay DEF MissingInv, Entries, Drafts, Gone, Entry
  <1>4. CASE UNCHANGED vars
    <2>1. /\ UNCHANGED <<passes, pc, pass, status, index, output, traversal, entry, work>>
          /\ UNCHANGED <<group, todo, retain, result>>
      BY <1>4 DEF vars
    <2>2. Running' = Running
      BY <2>1 DEF Running, Cleared, Gone
    <2>3. Excused(entry[1].path)' = Excused(entry[1].path)
      BY <2>1 DEF Excused, Recorded, NoFolder, Overlooked
    <2> QED
      BY <2>1, <2>2, <2>3, ExcusesStay DEF MissingInv, Entries, Drafts, Gone, Entry
  <1> QED
    BY <1>1, <1>2, <1>3, <1>4, EnterKeeps, PopEntryKeeps, RunIndexerKeeps, CreationKeeps,
       EndGroupKeeps, KeepEntryKeeps, ClosePassKeeps DEF Next, Step, Terminated

(***************************************************************************)
(* MissingCorrect: when a run succeeds no error is left in the status, and  *)
(* of what the index holds only those files can be missing which the main   *)
(* group of some pass never looks up.                                       *)
(***************************************************************************)
THEOREM MissingCorrect == Spec => []MissingNeverIndexed
  <1>1. Init => MissingInv
    <2> SUFFICES ASSUME Init PROVE MissingInv
      OBVIOUS
    <2>1. \A S : <<>> \in Seq(S)
      BY EmptySeq
    <2> QED
      BY <2>1 DEF Init, MissingInv
  <1>2. TypeOK /\ MissingInv => MissingNeverIndexed
    <2> SUFFICES ASSUME TypeOK, MissingInv, pc = "finished"
                 PROVE  MissingNeverIndexed
      BY DEF MissingNeverIndexed
    <2>1. status = "ok" /\ index \in Seq(Held)
      BY DEF MissingInv
    <2>2. ~Recorded
      BY <2>1 DEF Recorded
    <2>3. ASSUME NEW k \in DOMAIN index, index[k].item = "Path", FS[index[k].path].kind = "missing"
          PROVE  \E n \in DOMAIN passes : \A m \in DOMAIN passes[n].main :
                   ~LooksUp(index[k].path, passes[n].main[m])
      <3>1. index[k] \in Held
        BY <2>1
      <3>2. \E n \in 1..pass : Overlooked(index[k].path, n)
        BY <2>2, <2>3, <3>1 DEF Held, Gone, Excused
      <3>3. 1..pass \subseteq DOMAIN passes
        <4>1. passes \in Seq(PassConfig) /\ pass \in 1..Len(passes)
          BY ConfigurationsAssumption DEF TypeOK
        <4> QED
          BY <4>1
      <3> QED
        BY <3>2, <3>3 DEF Overlooked
    <2> QED
      BY <2>1, <2>3 DEF MissingNeverIndexed
  <1> QED
    BY <1>1, <1>2, InitTyped, StepTyped, MissingStep, PTL DEF Spec

-----------------------------------------------------------------------------
(***************************************************************************)
(* The index of a regular project.  At every moment of a pass what is       *)
(* already indexed, what the pending entries still yield and what is still  *)
(* to come of the current entry add up to what the passes have to find.     *)
(***************************************************************************)
Conf == passes[pass]

\* How often r comes of an entry that waits in the traversal sink.
Yield(e, r, conf) ==
  IF e.item = "Path" THEN At(e.path, e.flags, r, conf, Inside(r, conf))
  ELSE IF e.item \in Containers THEN Inside(r, conf)[e.path]
  ELSE IF r = [path |-> e.path, item |-> e.item] THEN 1 ELSE 0

Yields(s, r, conf) == Total([k \in DOMAIN s |-> Yield(s[k], r, conf)], Len(s))

\* The drafts w of an entry with this item, when known have been created.
Dropped(w, k, item, known) ==
  w[k].item = "Path" /\ IF item = "Path" THEN FS[w[k].path].hidden
                        ELSE w[k].path \in known \/ \E j \in 1..(k - 1) : w[j].path = w[k].path

Drafted(w, item, known, r, conf) ==
  Total([k \in DOMAIN w |-> IF Dropped(w, k, item, known) THEN 0 ELSE Yield(w[k], r, conf)], Len(w))

\* The indexer i replaces e by what it contains.
Claims(i, e) ==
  \/ i = "folder" /\ e.item = "Path" /\ FS[e.path].kind = "dir"
  \/ /\ i \in Containers
     /\ \/ e.item = i
        \/ /\ e.item = "Path" /\ FS[e.path].kind = "file" /\ FS[e.path].format = i
           /\ ~(i \in {"resfiles", "resjson"} /\ FS[e.path].size = "empty")

Claimed(e, indexers) == \E n \in DOMAIN indexers : Claims(indexers[n], e)

\* What is still to come of the current entry.
Share(r) ==
  IF pc = "index"
  THEN IF retain \/ (group = "main" /\ Claimed(entry[1], todo)) THEN Yield(entry[1], r, Conf) ELSE 0
  ELSE IF pc = "create" THEN Drafted(work, entry[1].item, seen, r, Conf)
  ELSE IF pc = "keep" /\ retain /\ r = [path |-> entry[1].path, item |-> entry[1].item]
  THEN 1 ELSE 0

Tally(r) == Occurrences(index, r) + Occurrences(output, r) + Yields(traversal, r, Conf) + Share(r)

Finds(r) == [n \in DOMAIN passes |-> Found(r, passes[n])]

Due(r) == Total(Finds(r), IF pc = "enter" THEN pass - 1 ELSE pass)

\* What the run has found, is to find and could not read is what it has to find.
Balanced(r) == result = "ok" => Tally(r) + Occurrences(lost, r) = Due(r)

\* Only strings that their indexer may go on without are lost.
Unread == \A k \in DOMAIN lost : lost[k].item = "String" /\ MayLose(FS[lost[k].path].format)

\* The entries there are: files and folders, contents that the indexer that
\* pushed them still has to parse, and values.
Sound(e, conf) ==
  \/ e.item = "Path"
  \/ /\ e.item \in Containers /\ e.flags = {"traverse"} /\ Has(conf, e.item)
     /\ FS[e.path].kind = "file" /\ FS[e.path].format = e.item
  \/ e.item \in {"String", "Embedded"} /\ e.flags = {"index"}

AllSound(s, conf) == \A k \in DOMAIN s : Sound(s[k], conf)

\* Where the indexers stand with the entry e.
MainGroup(e) ==
  /\ \A n \in DOMAIN todo : Has(Conf, todo[n])
  /\ \A j, k \in DOMAIN todo : todo[j] = todo[k] => j = k
  /\ retain /\ Claimed(e, Conf.main) => Claimed(e, todo)

FinalGroup(e) ==
  /\ todo # <<>> => retain /\ todo = <<"embedfiles">> /\ Conf.final = todo
  /\ retain => ~Claimed(e, Conf.main)
  /\ retain /\ todo = <<>> /\ FS[e.path].kind = "file" /\ FS[e.path].size = "normal" => Conf.final = <<>>

Indexing(e) ==
  /\ "traverse" \in e.flags
  /\ handled => ~retain
  /\ group = "main" => MainGroup(e)
  /\ group = "final" => FinalGroup(e)

Creating(e) ==
  /\ ~retain
  /\ group = "main" => ~Claimed(e, todo)
  /\ AllSound(work, Conf)
  /\ MayLose(e.item) => \A k \in DOMAIN work : work[k] = ValueEntry(e.path, "String")

Going ==
  /\ status = "ok" /\ pc \notin {"drain", "aborted"}
  /\ pc \in {"enter", "finished"} => output = <<>>
  /\ pc = "finished" => pass = Len(passes)
  /\ pc \in {"enter", "display", "close", "finished"} => traversal = <<>>
  /\ AllSound(traversal, Conf)
  /\ pc = "pop" /\ handled => \A k \in DOMAIN traversal : "index" \notin traversal[k].flags
  /\ entry # <<>> => Sound(entry[1], Conf) /\ (retain => "index" \in entry[1].flags)
  /\ pc \in {"index", "create"} => Indexing(entry[1])
  /\ pc = "create" => Creating(entry[1])

OnlyResources ==
  \A s \in {index, output} : \A k \in DOMAIN s : s[k].item \notin Containers

Course ==
  /\ OnlyResources
  /\ IF result = "ok" THEN Going ELSE pc \in {"drain", "close", "aborted"}

-----------------------------------------------------------------------------
(***************************************************************************)
(* Sums.  TotalTo says what the recursive function in Total is; Adds, that  *)
(* f adds up d one number after the other.                                  *)
(***************************************************************************)
TotalTo(c, d, n) == c = [k \in 0..n |-> IF k = 0 THEN 0 ELSE c[k - 1] + d[k]]

Adds(f, d, n) ==
  f[0] = 0 /\ \A k \in 1..n : f[k - 1] \in Nat /\ d[k] \in Nat /\ f[k] = f[k - 1] + d[k]

\* Whatever adds up d has the total at its end.
LEMMA TotalIs ==
  ASSUME NEW d, NEW n \in Nat, NEW f, Adds(f, d, n)
  PROVE  Total(d, n) = f[n]
  <1>1. TotalTo([k \in 0..n |-> f[k]], d, n)
    <2> DEFINE g == [k \in 0..n |-> f[k]]
    <2>1. ASSUME NEW k \in 0..n
          PROVE  g[k] = IF k = 0 THEN 0 ELSE g[k - 1] + d[k]
      <3>1. CASE k = 0
        BY <3>1 DEF Adds
      <3>2. CASE k # 0
        <4>1. k \in 1..n /\ k - 1 \in 0..n
          BY <3>2
        <4> QED
          BY <3>2, <4>1 DEF Adds
      <3> QED
        BY <3>1, <3>2
    <2>2. g = [k \in 0..n |-> IF k = 0 THEN 0 ELSE g[k - 1] + d[k]]
      BY <2>1
    <2> HIDE DEF g
    <2>3. TotalTo(g, d, n)
      BY <2>2, Zenon DEF TotalTo
    <2> QED
      BY <2>3 DEF g
  <1>2. ASSUME NEW c, TotalTo(c, d, n)
        PROVE  c[n] = f[n]
    <2> DEFINE S == {k \in Nat : k <= n => c[k] = f[k]}
    <2>0. \A k \in 0..n : c[k] = IF k = 0 THEN 0 ELSE c[k - 1] + d[k]
      BY <1>2, Zenon DEF TotalTo
    <2>1. 0 \in S
      BY <2>0 DEF Adds
    <2>2. ASSUME NEW k \in Nat, k \in S
          PROVE  k + 1 \in S
      <3> SUFFICES ASSUME k + 1 <= n
                   PROVE  c[k + 1] = f[k + 1]
        OBVIOUS
      <3>1. c[k] = f[k]
        BY <2>2
      <3>2. k + 1 \in 1..n /\ k + 1 \in 0..n /\ k + 1 # 0 /\ (k + 1) - 1 = k
        OBVIOUS
      <3>3. c[k + 1] = c[k] + d[k + 1]
        BY <2>0, <3>2
      <3>4. f[k + 1] = f[k] + d[k + 1]
        BY <3>2 DEF Adds
      <3> QED
        BY <3>1, <3>3, <3>4
    <2> HIDE DEF S
    <2>3. \A k \in Nat : k \in S
      BY <2>1, <2>2, Induction
    <2> QED
      BY <2>3 DEF S
  <1> DEFINE c == CHOOSE c : TotalTo(c, d, n)
  <1>3. TotalTo(c, d, n)
    BY <1>1
  <1>4. Total(d, n) = c[n]
    BY Zenon DEF Total, TotalTo
  <1> HIDE DEF c
  <1> QED
    BY <1>2, <1>3, <1>4

\* Numbers can be added up.
LEMMA AddsExist ==
  ASSUME NEW n \in Nat, NEW d, \A k \in 1..n : d[k] \in Nat
  PROVE  \E f \in [0..n -> Nat] : Adds(f, d, n)
  <1> DEFINE e == [i \in Nat |-> IF i < n THEN d[i + 1] ELSE 0]
  <1>1. \A i \in Nat : i < n => i + 1 \in 1..n
    OBVIOUS
  <1>2. e \in [Nat -> Nat]
    BY <1>1
  <1>3. PICK f \in [0..n -> Nat] : SumsOf(f, e, n)
    BY <1>2, SumsToExist
  <1>4. ASSUME NEW k \in 1..n
        PROVE  f[k - 1] \in Nat /\ d[k] \in Nat /\ f[k] = f[k - 1] + d[k]
    <2>1. k - 1 \in 0..n /\ k - 1 \in Nat /\ k - 1 \in 0..n - 1 /\ (k - 1) + 1 = k /\ k - 1 < n
      OBVIOUS
    <2>2. e[k - 1] = d[k]
      BY <2>1
    <2> HIDE DEF e
    <2>3. f[(k - 1) + 1] = f[k - 1] + e[k - 1]
      BY <1>3, <2>1 DEF SumsOf
    <2> QED
      BY <2>1, <2>2, <2>3
  <1>5. f[0] = 0
    BY <1>3 DEF SumsOf
  <1>6. Adds(f, d, n)
    BY <1>4, <1>5 DEF Adds
  <1> QED
    BY <1>6

\* The empty sum, its type, one more number, and the sum without its first.
LEMMA TotalNone ==
  ASSUME NEW d
  PROVE  Total(d, 0) = 0
  <1>1. Adds([k \in 0..0 |-> 0], d, 0)
    BY DEF Adds
  <1> QED
    BY <1>1, TotalIs

LEMMA TotalTyped ==
  ASSUME NEW n \in Nat, NEW d, \A k \in 1..n : d[k] \in Nat
  PROVE  Total(d, n) \in Nat
  <1>1. PICK f \in [0..n -> Nat] : Adds(f, d, n)
    BY AddsExist
  <1>2. n \in 0..n
    OBVIOUS
  <1> QED
    BY <1>1, <1>2, TotalIs

LEMMA TotalMore ==
  ASSUME NEW n \in Nat, NEW d, \A k \in 1..(n + 1) : d[k] \in Nat
  PROVE  Total(d, n + 1) = Total(d, n) + d[n + 1]
  <1>0. n + 1 \in Nat
    OBVIOUS
  <1>1. PICK f \in [0..(n + 1) -> Nat] : Adds(f, d, n + 1)
    BY <1>0, AddsExist
  <1>2. Adds(f, d, n)
    BY <1>1 DEF Adds
  <1>3. Total(d, n + 1) = f[n + 1] /\ Total(d, n) = f[n]
    BY <1>1, <1>2, TotalIs
  <1>4. n + 1 \in 1..(n + 1) /\ (n + 1) - 1 = n
    OBVIOUS
  <1>5. f[n + 1] = f[n] + d[n + 1]
    BY <1>1, <1>4 DEF Adds
  <1> QED
    BY <1>3, <1>5

LEMMA TotalRest ==
  ASSUME NEW n \in Nat, NEW d, \A k \in 1..(n + 1) : d[k] \in Nat,
         NEW e, \A k \in 1..n : e[k] = d[k + 1]
  PROVE  Total(d, n + 1) = d[1] + Total(e, n)
  <1>0. n + 1 \in Nat
    OBVIOUS
  <1>1. PICK f \in [0..(n + 1) -> Nat] : Adds(f, d, n + 1)
    BY <1>0, AddsExist
  <1> DEFINE g == [k \in 0..n |-> f[k + 1] - d[1]]
  <1> DEFINE S == {k \in Nat : k <= n => f[k + 1] - d[1] \in Nat}
  <1>2. f[1] = d[1] /\ d[1] \in Nat
    <2>1. 1 \in 1..(n + 1) /\ 1 - 1 = 0
      OBVIOUS
    <2>2. f[1] = f[0] + d[1] /\ f[0] = 0
      BY <1>1, <2>1 DEF Adds
    <2> QED
      BY <2>1, <2>2
  <1>3. \A k \in 1..n : f[k + 1] = f[k] + d[k + 1] /\ d[k + 1] \in Nat /\ f[k] \in Nat
    <2> TAKE k \in 1..n
    <2>1. k + 1 \in 1..(n + 1) /\ (k + 1) - 1 = k /\ k \in 0..(n + 1)
      OBVIOUS
    <2> QED
      BY <1>1, <2>1 DEF Adds
  <1>4. 0 \in S
    BY <1>2
  <1>12. \A a, b, c \in Nat : a - c \in Nat => (a + b) - c \in Nat /\ (a + b) - c = (a - c) + b
    OBVIOUS
  <1>5. ASSUME NEW k \in Nat, k \in S
        PROVE  k + 1 \in S
    <2> SUFFICES ASSUME k + 1 <= n
                 PROVE  f[(k + 1) + 1] - d[1] \in Nat
      OBVIOUS
    <2>1. k + 1 \in 1..n
      OBVIOUS
    <2>2. f[(k + 1) + 1] = f[k + 1] + d[(k + 1) + 1] /\ d[(k + 1) + 1] \in Nat /\ f[k + 1] \in Nat
      BY <1>3, <2>1
    <2>3. f[k + 1] - d[1] \in Nat
      BY <1>5
    <2>4. (f[k + 1] + d[(k + 1) + 1]) - d[1] \in Nat
      BY <1>2, <1>12, <2>2, <2>3
    <2> QED
      BY <2>2, <2>4
  <1>6. \A k \in Nat : k <= n => f[k + 1] - d[1] \in Nat
    <2> HIDE DEF S
    <2>1. \A k \in Nat : k \in S
      BY <1>4, <1>5, Induction
    <2> QED
      BY <2>1 DEF S
  <1>7. ASSUME NEW k \in 1..n
        PROVE  g[k - 1] \in Nat /\ e[k] \in Nat /\ g[k] = g[k - 1] + e[k]
    <2>1. k - 1 \in 0..n /\ k \in 0..n /\ (k - 1) + 1 = k /\ k - 1 \in Nat /\ k - 1 <= n
      OBVIOUS
    <2>2. g[k - 1] = f[k] - d[1] /\ g[k] = f[k + 1] - d[1]
      BY <2>1
    <2>3. f[k] - d[1] \in Nat
      BY <2>1, <1>6
    <2>4. e[k] = d[k + 1]
      OBVIOUS
    <2> HIDE DEF g
    <2>5. f[k + 1] = f[k] + d[k + 1] /\ d[k + 1] \in Nat /\ f[k] \in Nat
      BY <1>3
    <2>6. (f[k] + d[k + 1]) - d[1] = (f[k] - d[1]) + d[k + 1]
      BY <1>2, <1>12, <2>3, <2>5
    <2> QED
      BY <2>2, <2>3, <2>4, <2>5, <2>6
  <1>8. g[0] = 0 /\ g[n] = f[n + 1] - d[1]
    BY <1>2
  <1>9. f[n + 1] \in Nat
    BY <1>1
  <1> HIDE DEF g
  <1>10. Adds(g, e, n)
    BY <1>7, <1>8 DEF Adds
  <1>11. Total(e, n) = f[n + 1] - d[1] /\ Total(d, n + 1) = f[n + 1]
    BY <1>1, <1>8, <1>10, TotalIs
  <1> QED
    BY <1>2, <1>9, <1>11

\* The sum depends on nothing but the numbers.
LEMMA TotalSame ==
  ASSUME NEW n \in Nat, NEW d, NEW e, \A k \in 1..n : d[k] \in Nat /\ e[k] = d[k]
  PROVE  Total(e, n) = Total(d, n)
  <1>1. PICK f \in [0..n -> Nat] : Adds(f, d, n)
    BY AddsExist
  <1>2. Adds(f, e, n)
    BY <1>1 DEF Adds
  <1> QED
    BY <1>1, <1>2, TotalIs

\* Nothing n times, and one n times.
LEMMA TotalZero ==
  ASSUME NEW n \in Nat, NEW d, \A k \in 1..n : d[k] = 0
  PROVE  Total(d, n) = 0
  <1>1. Adds([k \in 0..n |-> 0], d, n)
    BY DEF Adds
  <1> QED
    BY <1>1, TotalIs

LEMMA TotalOnes ==
  ASSUME NEW n \in Nat, NEW d, \A k \in 1..n : d[k] = 1
  PROVE  Total(d, n) = n
  <1> DEFINE f == [k \in 0..n |-> k]
  <1>1. Adds(f, d, n)
    BY DEF Adds
  <1>2. f[n] = n
    OBVIOUS
  <1> HIDE DEF f
  <1> QED
    BY <1>1, <1>2, TotalIs

-----------------------------------------------------------------------------
(***************************************************************************)
(* How often a resource is in a sink, when one entry is pushed, when one    *)
(* sink is poured into another, and when it is turned around.               *)
(***************************************************************************)
Places(s, r) == {k \in DOMAIN s : s[k].path = r.path /\ s[k].item = r.item}

Same(e, r) == IF e.path = r.path /\ e.item = r.item THEN 1 ELSE 0

LEMMA PlacesFinite ==
  ASSUME NEW S, NEW s \in Seq(S), NEW r
  PROVE  IsFiniteSet(Places(s, r)) /\ Occurrences(s, r) = Cardinality(Places(s, r))
         /\ Occurrences(s, r) \in Nat
  <1>1. DOMAIN s = 1..Len(s) /\ Len(s) \in Nat
    BY LenProperties
  <1>2. IsFiniteSet(1..Len(s))
    BY <1>1, FS_Interval
  <1>3. IsFiniteSet(Places(s, r))
    BY <1>1, <1>2, FS_Subset DEF Places
  <1> QED
    BY <1>3, FS_CardinalityType DEF Occurrences, Places

LEMMA CountNone ==
  ASSUME NEW r
  PROVE  Occurrences(<<>>, r) = 0
  <1>1. {k \in DOMAIN <<>> : <<>>[k].path = r.path /\ <<>>[k].item = r.item} = {}
    OBVIOUS
  <1> QED
    BY <1>1, FS_EmptySet DEF Occurrences

LEMMA CountPour ==
  ASSUME NEW S, NEW s \in Seq(S), NEW t \in Seq(S), NEW r
  PROVE  Occurrences(s \o t, r) = Occurrences(s, r) + Occurrences(t, r)
  <1> DEFINE u == s \o t
             B == {Len(s) + k : k \in Places(t, r)}
  <1>1. /\ u \in Seq(S) /\ Len(u) = Len(s) + Len(t)
        /\ Len(s) \in Nat /\ Len(t) \in Nat
        /\ DOMAIN s = 1..Len(s) /\ DOMAIN t = 1..Len(t) /\ DOMAIN u = 1..(Len(s) + Len(t))
    BY LenProperties, ConcatProperties
  <1>2. \A k \in 1..Len(s) : u[k] = s[k]
    BY <1>1, ConcatProperties
  <1>3. \A k \in 1..Len(t) : u[Len(s) + k] = t[k]
    BY <1>1, ConcatProperties
  <1> HIDE DEF u
  <1>4. Places(u, r) = Places(s, r) \cup B
    <2>1. ASSUME NEW k \in Places(u, r)
          PROVE  k \in Places(s, r) \cup B
      <3>1. CASE k <= Len(s)
        BY <3>1, <1>1, <1>2, <2>1 DEF Places
      <3>2. CASE ~(k <= Len(s))
        <4>1. k - Len(s) \in 1..Len(t) /\ Len(s) + (k - Len(s)) = k
          BY <3>2, <1>1 DEF Places
        <4>2. t[k - Len(s)] = u[k]
          BY <4>1, <1>3
        <4>3. k - Len(s) \in Places(t, r)
          BY <4>1, <4>2, <1>1 DEF Places
        <4> QED
          BY <4>1, <4>3
      <3> QED
        BY <3>1, <3>2
    <2>2. Places(s, r) \subseteq Places(u, r)
      BY <1>1, <1>2 DEF Places
    <2>3. ASSUME NEW k \in Places(t, r)
          PROVE  Len(s) + k \in Places(u, r)
      <3>1. k \in 1..Len(t) /\ Len(s) + k \in 1..(Len(s) + Len(t))
        BY <1>1 DEF Places
      <3> QED
        BY <3>1, <1>1, <1>3 DEF Places
    <2> QED
      BY <2>1, <2>2, <2>3
  <1>5. Places(s, r) \cap B = {}
    BY <1>1 DEF Places
  <1>6. IsFiniteSet(B) /\ Cardinality(B) = Cardinality(Places(t, r))
    <2> DEFINE f == [k \in Places(t, r) |-> Len(s) + k]
    <2>1. f \in Bijection(Places(t, r), B)
      <3>1. f \in [Places(t, r) -> B] /\ \A b \in B : \E k \in Places(t, r) : f[k] = b
        OBVIOUS
      <3>2. \A j, k \in Places(t, r) : f[j] = f[k] => j = k
        BY <1>1 DEF Places
      <3> HIDE DEF f
      <3> QED
        BY <3>1, <3>2, Fun_IsBij
    <2>2. ExistsBijection(Places(t, r), B)
      BY <2>1 DEF ExistsBijection
    <2> QED
      BY <2>2, PlacesFinite, FS_Bijection
  <1>7. Cardinality(Places(s, r) \cup B) = Cardinality(Places(s, r)) + Cardinality(B)
    <2>1. Cardinality(Places(s, r) \cap B) = 0
      BY <1>5, FS_EmptySet
    <2>2. Cardinality(Places(s, r)) \in Nat /\ Cardinality(B) \in Nat
      BY <1>6, PlacesFinite, FS_CardinalityType
    <2>3. Cardinality(Places(s, r) \cup B)
            = Cardinality(Places(s, r)) + Cardinality(B) - Cardinality(Places(s, r) \cap B)
      BY <1>6, PlacesFinite, FS_Union
    <2> HIDE DEF B
    <2> QED
      BY <2>1, <2>2, <2>3
  <1> QED
    BY <1>1, <1>4, <1>6, <1>7, PlacesFinite DEF u

LEMMA CountOne ==
  ASSUME NEW e, NEW r
  PROVE  Occurrences(<<e>>, r) = Same(e, r)
  <1>1. CASE e.path = r.path /\ e.item = r.item
    <2>1. {k \in DOMAIN <<e>> : <<e>>[k].path = r.path /\ <<e>>[k].item = r.item} = {1}
      BY <1>1
    <2> QED
      BY <1>1, <2>1, FS_Singleton DEF Occurrences, Same
  <1>2. CASE ~(e.path = r.path /\ e.item = r.item)
    <2>1. {k \in DOMAIN <<e>> : <<e>>[k].path = r.path /\ <<e>>[k].item = r.item} = {}
      BY <1>2
    <2> QED
      BY <1>2, <2>1, FS_EmptySet DEF Occurrences, Same
  <1> QED
    BY <1>1, <1>2

LEMMA CountReverse ==
  ASSUME NEW s \in Seq(Entry), NEW r
  PROVE  Occurrences(Reverse(s), r) = Occurrences(s, r)
  <1> DEFINE u == Reverse(s)
             f == [k \in Places(s, r) |-> Len(s) - k + 1]
  <1>1. /\ Len(s) \in Nat /\ DOMAIN s = 1..Len(s) /\ DOMAIN u = 1..Len(s)
        /\ u \in Seq(Entry)
    BY LenProperties, ReverseOwns DEF Reverse
  <1>2. \A k \in 1..Len(s) : u[k] = s[Len(s) - k + 1]
    BY <1>1 DEF Reverse
  <1> HIDE DEF u
  <1>3. \A k \in 1..Len(s) : Len(s) - k + 1 \in 1..Len(s) /\ Len(s) - (Len(s) - k + 1) + 1 = k
    BY <1>1
  <1>4. \A k \in Places(s, r) : Len(s) - k + 1 \in Places(u, r)
    BY <1>1, <1>2, <1>3 DEF Places
  <1>5. \A k \in Places(u, r) : Len(s) - k + 1 \in Places(s, r)
    BY <1>1, <1>2, <1>3 DEF Places
  <1>6. f \in Bijection(Places(s, r), Places(u, r))
    <2>1. f \in [Places(s, r) -> Places(u, r)]
      BY <1>4
    <2>2. \A j, k \in Places(s, r) : f[j] = f[k] => j = k
      BY <1>1 DEF Places
    <2>3. \A b \in Places(u, r) : \E k \in Places(s, r) : f[k] = b
      BY <1>1, <1>3, <1>5 DEF Places
    <2> HIDE DEF f
    <2> QED
      BY <2>1, <2>2, <2>3, Fun_IsBij
  <1>7. ExistsBijection(Places(s, r), Places(u, r))
    BY <1>6 DEF ExistsBijection
  <1>8. Cardinality(Places(u, r)) = Cardinality(Places(s, r))
    BY <1>7, PlacesFinite, FS_Bijection
  <1>9. Occurrences(u, r) = Cardinality(Places(u, r)) /\ Occurrences(s, r) = Cardinality(Places(s, r))
    BY <1>1, PlacesFinite
  <1> QED
    BY <1>8, <1>9 DEF u

-----------------------------------------------------------------------------
(***************************************************************************)
(* How often a resource is inside each file and folder: the recursion of    *)
(* Inside follows the members, which are lower, so that it defines one      *)
(* function from the paths to the numbers.                                  *)
(***************************************************************************)
LEMMA AtTyped ==
  ASSUME NEW p \in Paths, NEW flags, NEW r, NEW conf, NEW inside \in [Paths -> Nat]
  PROVE  At(p, flags, r, conf, inside) \in Nat
  <1>1. inside[p] \in Nat
    OBVIOUS
  <1> QED
    BY <1>1 DEF At

LEMMA MembersTyped ==
  ASSUME NEW p \in Paths
  PROVE  /\ Len(FS[p].members) \in Nat /\ DOMAIN FS[p].members = 1..Len(FS[p].members)
         /\ \A k \in 1..Len(FS[p].members) : FS[p].members[k] \in Paths
  <1>1. FS[p].members \in Seq(Paths)
    BY ObjectsTyped
  <1> QED
    BY <1>1, LenProperties, ElementOfSeq

LEMMA AtMemberTyped ==
  ASSUME NEW p \in Paths, NEW k \in DOMAIN FS[p].members, NEW r, NEW conf,
         NEW inside \in [Paths -> Nat]
  PROVE  AtMember(p, k, r, conf, inside) \in Nat
  <1>1. FS[p].members[k] \in Paths
    BY MembersTyped
  <1>2. \A flags : At(FS[p].members[k], flags, r, conf, inside) \in Nat
    BY <1>1, AtTyped
  <1> QED
    BY <1>2, SMTT(30) DEF AtMember

LEMMA BelowTyped ==
  ASSUME NEW p \in Paths, NEW r, NEW conf, NEW inside \in [Paths -> Nat]
  PROVE  Below(p, r, conf, inside) \in Nat
  <1> DEFINE d == [k \in DOMAIN FS[p].members |-> AtMember(p, k, r, conf, inside)]
             n == Len(FS[p].members)
  <1>1. n \in Nat /\ \A k \in 1..n : d[k] \in Nat
    BY MembersTyped, AtMemberTyped
  <1> HIDE DEF d, n
  <1>2. Total(d, n) \in Nat
    BY <1>1, TotalTyped
  <1>3. FS[p].strings \in Nat
    BY ObjectsTyped
  <1> QED
    BY <1>2, <1>3 DEF Below, d, n

LEMMA BelowSame ==
  ASSUME NEW p \in Paths, NEW r, NEW conf, NEW f, NEW g,
         \A k \in DOMAIN FS[p].members : f[FS[p].members[k]] = g[FS[p].members[k]]
  PROVE  Below(p, r, conf, f) = Below(p, r, conf, g)
  <1> DEFINE d == [k \in DOMAIN FS[p].members |-> AtMember(p, k, r, conf, f)]
             e == [k \in DOMAIN FS[p].members |-> AtMember(p, k, r, conf, g)]
             n == Len(FS[p].members)
  <1>1. \A k \in DOMAIN FS[p].members : \A flags :
          At(FS[p].members[k], flags, r, conf, f) = At(FS[p].members[k], flags, r, conf, g)
    BY DEF At
  <1>2. \A k \in DOMAIN FS[p].members : AtMember(p, k, r, conf, f) = AtMember(p, k, r, conf, g)
    BY <1>1 DEF AtMember
  <1>3. d = e
    BY <1>2
  <1>4. Total(d, n) = Total(e, n)
    BY <1>3
  <1> QED
    BY <1>4 DEF Below

Solves(f, n, height, r, conf) ==
  f \in [Paths -> Nat] /\ \A p \in Paths : height[p] < n => f[p] = Below(p, r, conf, f)

\* Members are lower.
Layered(height) ==
  /\ height \in [Paths -> Nat]
  /\ \A p \in Paths : \A k \in DOMAIN FS[p].members : height[FS[p].members[k]] < height[p]

LEMMA SolutionsAgree ==
  ASSUME NEW height, Layered(height), NEW r, NEW conf, NEW m \in Nat, NEW n \in Nat, m <= n,
         NEW f, NEW g, Solves(f, m, height, r, conf), Solves(g, n, height, r, conf)
  PROVE  \A p \in Paths : height[p] < m => f[p] = g[p]
  <1> DEFINE S == {k \in Nat : k <= m => \A p \in Paths : height[p] < k => f[p] = g[p]}
  <1>0. \A p \in Paths : height[p] \in Nat
    BY DEF Layered
  <1>1. 0 \in S
    BY <1>0
  <1>2. ASSUME NEW k \in Nat, k \in S
        PROVE  k + 1 \in S
    <2> SUFFICES ASSUME k + 1 <= m, NEW p \in Paths, height[p] < k + 1
                 PROVE  f[p] = g[p]
      OBVIOUS
    <2>1. \A q \in Paths : height[q] < k => f[q] = g[q]
      BY <1>2
    <2>2. \A j \in DOMAIN FS[p].members : f[FS[p].members[j]] = g[FS[p].members[j]]
      <3> TAKE j \in DOMAIN FS[p].members
      <3>1. FS[p].members[j] \in Paths
        BY MembersTyped
      <3>2. height[FS[p].members[j]] < k
        BY <1>0, <3>1 DEF Layered
      <3> QED
        BY <2>1, <3>1, <3>2
    <2>3. f \in [Paths -> Nat] /\ g \in [Paths -> Nat]
      BY DEF Solves
    <2>4. Below(p, r, conf, f) = Below(p, r, conf, g)
      BY <2>2, <2>3, BelowSame
    <2>5. f[p] = Below(p, r, conf, f) /\ g[p] = Below(p, r, conf, g)
      BY <1>0 DEF Solves
    <2> QED
      BY <2>4, <2>5
  <1> HIDE DEF S
  <1>3. \A k \in Nat : k \in S
    BY <1>1, <1>2, Induction
  <1> QED
    BY <1>3 DEF S

LEMMA SolutionsExist ==
  ASSUME NEW height, Layered(height), NEW r, NEW conf, NEW n \in Nat
  PROVE  \E f : Solves(f, n, height, r, conf)
  <1> DEFINE S == {k \in Nat : \E f : Solves(f, k, height, r, conf)}
  <1>0. \A p \in Paths : height[p] \in Nat
    BY DEF Layered
  <1>1. 0 \in S
    <2>1. Solves([p \in Paths |-> 0], 0, height, r, conf)
      BY <1>0 DEF Solves
    <2> QED
      BY <2>1
  <1>2. ASSUME NEW k \in Nat, k \in S
        PROVE  k + 1 \in S
    <2>1. PICK f : Solves(f, k, height, r, conf)
      BY <1>2
    <2>2. f \in [Paths -> Nat]
      BY <2>1 DEF Solves
    <2> DEFINE g == [p \in Paths |-> IF height[p] < k THEN f[p] ELSE Below(p, r, conf, f)]
    <2>3. g \in [Paths -> Nat]
      BY <2>2, BelowTyped
    <2>4. \A p \in Paths : height[p] < k => g[p] = f[p]
      OBVIOUS
    <2>5. \A p \in Paths : g[p] = Below(p, r, conf, f)
      BY <2>1 DEF Solves
    <2> HIDE DEF g
    <2>6. ASSUME NEW p \in Paths, height[p] < k + 1
          PROVE  g[p] = Below(p, r, conf, g)
      <3>1. \A j \in DOMAIN FS[p].members : g[FS[p].members[j]] = f[FS[p].members[j]]
        <4> TAKE j \in DOMAIN FS[p].members
        <4>1. FS[p].members[j] \in Paths
          BY MembersTyped
        <4>2. height[FS[p].members[j]] < k
          BY <1>0, <2>6, <4>1 DEF Layered
        <4> QED
          BY <2>4, <4>1, <4>2
      <3>2. Below(p, r, conf, g) = Below(p, r, conf, f)
        BY <2>2, <2>3, <3>1, BelowSame
      <3> QED
        BY <2>5, <3>2
    <2>7. Solves(g, k + 1, height, r, conf)
      BY <2>3, <2>6 DEF Solves
    <2>8. k + 1 \in Nat
      OBVIOUS
    <2> QED
      BY <2>7, <2>8
  <1> HIDE DEF S
  <1>3. n \in S
    BY <1>1, <1>2, Induction
  <1> QED
    BY <1>3 DEF S

InsideTo(c, r, conf) == c = [p \in Paths |-> Below(p, r, conf, c)]

LEMMA InsideIs ==
  ASSUME NEW height, Layered(height), NEW r, NEW conf
  PROVE  /\ Inside(r, conf) \in [Paths -> Nat]
         /\ \A p \in Paths : Inside(r, conf)[p] = Below(p, r, conf, Inside(r, conf))
  <1> DEFINE F(n) == CHOOSE f : Solves(f, n, height, r, conf)
             h == [p \in Paths |-> F(height[p] + 1)[p]]
  <1>0. \A p \in Paths : height[p] \in Nat /\ height[p] + 1 \in Nat
    BY DEF Layered
  <1>1. \A n \in Nat : Solves(F(n), n, height, r, conf)
    BY SolutionsExist
  <1> HIDE DEF F
  <1>2. \A p \in Paths : F(height[p] + 1) \in [Paths -> Nat]
    BY <1>0, <1>1 DEF Solves
  <1>3. h \in [Paths -> Nat] /\ \A p \in Paths : h[p] = F(height[p] + 1)[p]
    BY <1>2
  <1> HIDE DEF h
  <1>4. ASSUME NEW p \in Paths
        PROVE  h[p] = Below(p, r, conf, h)
    <2> DEFINE f == F(height[p] + 1)
    <2>1. Solves(f, height[p] + 1, height, r, conf)
      BY <1>0, <1>1
    <2>2. f \in [Paths -> Nat] /\ h[p] = f[p]
      BY <1>2, <1>3
    <2>3. \A j \in DOMAIN FS[p].members : h[FS[p].members[j]] = f[FS[p].members[j]]
      <3> TAKE j \in DOMAIN FS[p].members
      <3> DEFINE q == FS[p].members[j]
      <3>1. q \in Paths
        BY MembersTyped
      <3>2. height[q] < height[p]
        BY DEF Layered
      <3>3. Solves(F(height[q] + 1), height[q] + 1, height, r, conf)
        BY <1>0, <1>1, <3>1
      <3>4. height[q] + 1 <= height[p] + 1 /\ height[q] < height[q] + 1
        BY <1>0, <3>1, <3>2
      <3> HIDE DEF q, f
      <3>5. F(height[q] + 1)[q] = f[q]
        BY <1>0, <2>1, <3>1, <3>3, <3>4, SolutionsAgree
      <3>6. h[q] = f[q]
        BY <1>3, <3>1, <3>5
      <3> QED
        BY <3>6 DEF q
    <2>4. f[p] = Below(p, r, conf, f)
      BY <1>0, <2>1 DEF Solves
    <2> HIDE DEF f
    <2>5. Below(p, r, conf, h) = Below(p, r, conf, f)
      BY <1>3, <2>2, <2>3, BelowSame
    <2> QED
      BY <2>2, <2>4, <2>5
  <1>5. h = [p \in Paths |-> Below(p, r, conf, h)]
    BY <1>3, <1>4
  <1>6. InsideTo(h, r, conf)
    BY <1>5, Zenon DEF InsideTo
  <1>7. InsideTo(Inside(r, conf), r, conf)
    <2>1. Inside(r, conf) = CHOOSE c : InsideTo(c, r, conf)
      BY Zenon DEF Inside, InsideTo
    <2> QED
      BY <1>6, <2>1
  <1>8. \A p \in Paths : Inside(r, conf)[p] = Below(p, r, conf, Inside(r, conf))
    BY <1>7, Zenon DEF InsideTo
  <1>9. Inside(r, conf) \in [Paths -> Nat]
    <2> DEFINE c == Inside(r, conf)
    <2>1. c = [p \in Paths |-> Below(p, r, conf, c)]
      BY <1>7, Zenon DEF InsideTo
    <2>2. \A p \in Paths : c[p] = h[p]
      <3> DEFINE S == {k \in Nat : \A p \in Paths : height[p] < k => c[p] = h[p]}
      <3>1. 0 \in S
        BY <1>0
      <3>2. ASSUME NEW k \in Nat, k \in S
            PROVE  k + 1 \in S
        <4> SUFFICES ASSUME NEW p \in Paths, height[p] < k + 1
                     PROVE  c[p] = h[p]
          OBVIOUS
        <4>1. \A j \in DOMAIN FS[p].members : c[FS[p].members[j]] = h[FS[p].members[j]]
          <5> TAKE j \in DOMAIN FS[p].members
          <5>1. FS[p].members[j] \in Paths
            BY MembersTyped
          <5>2. height[FS[p].members[j]] < k
            BY <1>0, <5>1 DEF Layered
          <5> QED
            BY <3>2, <5>1, <5>2
        <4> HIDE DEF c
        <4>2. Below(p, r, conf, c) = Below(p, r, conf, h)
          BY <4>1, BelowSame
        <4>3. c[p] = Below(p, r, conf, c)
          BY <1>8 DEF c
        <4> QED
          BY <1>4, <4>2, <4>3
      <3> HIDE DEF S, c
      <3>3. \A k \in Nat : k \in S
        BY <3>1, <3>2, Induction
      <3>4. ASSUME NEW p \in Paths
            PROVE  c[p] = h[p]
        <4>1. height[p] + 1 \in S /\ height[p] < height[p] + 1
          BY <1>0, <3>3
        <4> QED
          BY <4>1 DEF S
      <3> QED
        BY <3>4
    <2> HIDE DEF c
    <2>3. c = h
      BY <1>3, <2>1, <2>2
    <2> QED
      BY <1>3, <2>3 DEF c
  <1> QED
    BY <1>8, <1>9

-----------------------------------------------------------------------------
(***************************************************************************)
(* What an indexer of a regular project does to an entry: it claims it and  *)
(* offers what it contains, or leaves it to the others.                     *)
(***************************************************************************)
LEMMA RegularFS ==
  ASSUME NEW height \in [Paths -> Nat], Regular(height), NEW p \in Paths
  PROVE  /\ FS[p].kind \in {"dir", "file"} /\ FS[p].text = NoPath /\ NoPath \notin Paths
         /\ FS[p].kind = "dir" => FS[p].format = "plain"
         /\ FS[p].format \in Containers \cup {"plain"}
         /\ Layered(height)
  <1>1. FS[p].kind \in {"dir", "file", "missing"} /\ FS[p].format \in Containers \cup {"plain"}
    BY FSAssumption DEF FSObject
  <1>2. Layered(height)
    BY DEF Regular, Layered
  <1> QED
    BY <1>1, <1>2, FSAssumption DEF Regular

RegularPass(conf) ==
  /\ conf \in PassConfig
  /\ \A j, k \in DOMAIN conf.main : conf.main[j] = conf.main[k] => j = k
  /\ \A j \in DOMAIN conf.main : conf.main[j] # "embedfiles"
  /\ conf.final \in {<<>>, <<"embedfiles">>}

\* No two indexers claim an entry.
LEMMA ClaimsOnce ==
  ASSUME NEW height \in [Paths -> Nat], Regular(height), NEW conf,
         NEW e, e.path \in Paths, Sound(e, conf),
         NEW i, NEW j, Claims(i, e), Claims(j, e)
  PROVE  i = j
  <1>1. FS[e.path].kind \in {"dir", "file"}
    BY RegularFS
  <1>2. "Path" \notin Containers /\ "folder" \notin Containers
    BY DEF Containers
  <1> QED
    BY <1>1, <1>2 DEF Claims

\* An entry that is walked into is claimed if the pass opens it, and is what
\* it yields if not.
LEMMA ClaimedIs ==
  ASSUME NEW height \in [Paths -> Nat], Regular(height), NEW conf,
         NEW e, e.path \in Paths, Sound(e, conf), "traverse" \in e.flags
  PROVE  /\ e.item = "Path" \/ e.item \in Containers
         /\ e.item \in Containers => Claimed(e, conf.main)
         /\ e.item = "Path" => (Claimed(e, conf.main) <=> Opens(e.path, conf))
  <1>1. FS[e.path].kind \in {"dir", "file"}
        /\ (FS[e.path].kind = "dir" => FS[e.path].format = "plain")
        /\ FS[e.path].format \in Containers \cup {"plain"}
    BY RegularFS
  <1>2. "Path" \notin Containers /\ "plain" \notin Containers /\ "folder" \notin Containers
    BY DEF Containers
  <1>3. e.item = "Path" \/ (e.item \in Containers /\ Has(conf, e.item))
    BY DEF Sound
  <1>4. e.item \in Containers => Claimed(e, conf.main)
    BY <1>2, <1>3 DEF Claimed, Claims, Has
  <1>5. ASSUME e.item = "Path", FS[e.path].kind = "dir"
        PROVE  Claimed(e, conf.main) <=> Opens(e.path, conf)
    BY <1>1, <1>2, <1>5 DEF Claimed, Claims, Has, Opens
  <1>6. ASSUME e.item = "Path", FS[e.path].kind = "file"
        PROVE  Claimed(e, conf.main) <=> Opens(e.path, conf)
    <2>1. Claimed(e, conf.main) => Opens(e.path, conf)
      BY <1>2, <1>6 DEF Claimed, Claims, Has, Opens
    <2>2. Opens(e.path, conf) => Claimed(e, conf.main)
      BY <1>2, <1>6 DEF Claimed, Claims, Has, Opens
    <2> QED
      BY <2>1, <2>2
  <1> QED
    BY <1>1, <1>3, <1>4, <1>5, <1>6

LEMMA MatchesIs ==
  ASSUME NEW height \in [Paths -> Nat], Regular(height), NEW e \in Entry, NEW fmt
  PROVE  /\ e.item = "Path" => Denotes(e) = e.path /\ InFiles(e)
         /\ Matches(e, fmt) <=> e.item = "Path" /\ FS[e.path].format = fmt
  <1>1. e.path \in Paths
    BY DEF Entry
  <1>2. FS[e.path].text = NoPath /\ NoPath \notin Paths
    BY <1>1, RegularFS
  <1> QED
    BY <1>1, <1>2 DEF Matches, Denotes, InFiles

Offer(e) ==
  IF e.item \in Containers THEN Contents(e)
  ELSE IF FS[e.path].kind = "dir" THEN Children(e.path)
  ELSE Redirect(e, FS[e.path].format)

\* What a main indexer returns that did not fail.
Leaves(o, i, e, h) ==
  /\ o.result = "ok" /\ o.status = "ok"
  /\ Claims(i, e) => o.handled = TRUE /\ o.new = Offer(e)
  /\ ~Claims(i, e) => o.new = <<>> /\ (o.handled => h \/ "index" \notin e.flags)

LEMMA OutcomesLeave ==
  ASSUME NEW i, NEW e, NEW h \in BOOLEAN
  PROVE  /\ Claims(i, e) => Leaves(Outcome("ok", TRUE, "ok", Offer(e)), i, e, h)
         /\ ~Claims(i, e) => Leaves(Untouched(h, "ok"), i, e, h) /\ Leaves(Untouched(FALSE, "ok"), i, e, h)
                             /\ Leaves(Computed(h, "ok"), i, e, h) /\ Leaves(Computed(FALSE, "ok"), i, e, h)
                             /\ Leaves(Untouched("index" \notin e.flags, "ok"), i, e, h)
         /\ \A k \in BOOLEAN : Fails(k).result = "failed" /\ \A o \in Unreadable(k) : o.result = "failed"
  BY DEF Leaves, Outcome, Untouched, Computed, Fails, Unreadable

LEMMA MainStep ==
  ASSUME NEW height \in [Paths -> Nat], Regular(height), NEW conf,
         NEW e \in Entry, Sound(e, conf), "traverse" \in e.flags,
         NEW i \in Indexers, i # "embedfiles", NEW h \in BOOLEAN,
         NEW o \in IndexerStep(i, e, h, "ok")
  PROVE  o.result = "failed" \/ Leaves(o, i, e, h)
  <1> USE OutcomesLeave
  <1>1. e.path \in Paths
    BY DEF Entry
  <1>2. FS[e.path].kind \in {"dir", "file"}
        /\ (FS[e.path].kind = "dir" => FS[e.path].format = "plain")
        /\ FS[e.path].format \in Containers \cup {"plain"}
    BY <1>1, RegularFS
  <1>3. e.item = "Path" \/ e.item \in Containers
    BY <1>1, ClaimedIs
  <1>4. "Path" \notin Containers /\ "plain" \notin Containers /\ "folder" \notin Containers
    BY DEF Containers
  <1>5. /\ e.item = "Path" => Denotes(e) = e.path /\ InFiles(e)
        /\ \A fmt : Matches(e, fmt) <=> e.item = "Path" /\ FS[e.path].format = fmt
    BY MatchesIs
  <1>6. ASSUME NEW p \in ParseStep(e, "ok"), e.item = i, i \in Containers
        PROVE  p.result = "failed" \/ Leaves(p, i, e, h)
    <2>1. Claims(i, e) /\ Offer(e) = Contents(e)
      BY <1>6 DEF Claims, Offer
    <2>2. p = Outcome("ok", TRUE, "ok", Offer(e)) \/ p \in Unreadable(TRUE)
      BY <2>1 DEF ParseStep
    <2> QED
      BY <2>1, <2>2
  <1>7. CASE i = "folder"
    <2>1. o \in FolderStep(e, h, "ok")
      BY <1>7 DEF IndexerStep
    <2>2. CASE e.item # "Path"
      <3>1. o = Untouched(FALSE, "ok") /\ ~Claims(i, e)
        BY <1>4, <1>7, <2>1, <2>2 DEF FolderStep, Claims
      <3> QED
        BY <3>1
    <2>3. CASE e.item = "Path" /\ FS[e.path].kind = "file"
      <3>1. o = Untouched("index" \notin e.flags, "ok") /\ ~Claims(i, e)
        BY <1>4, <1>7, <2>1, <2>3 DEF FolderStep, Claims
      <3> QED
        BY <3>1
    <2>4. CASE e.item = "Path" /\ FS[e.path].kind = "dir"
      <3>1. Claims(i, e) /\ Offer(e) = Children(e.path)
        BY <1>4, <1>7, <2>4 DEF Claims, Offer
      <3>2. o = Outcome("ok", TRUE, "ok", Offer(e)) \/ o \in Unreadable(TRUE)
        BY <2>1, <2>4, <3>1 DEF FolderStep
      <3> QED
        BY <3>1, <3>2
    <2> QED
      BY <1>2, <2>2, <2>3, <2>4
  <1>8. ASSUME i \in Containers, e.item = "Path", FS[e.path].format = i,
               ~(i \in {"resfiles", "resjson"} /\ FS[e.path].size = "empty")
        PROVE  Claims(i, e) /\ Offer(e) = Redirect(e, i)
    BY <1>2, <1>4, <1>8 DEF Claims, Offer
  <1>9. CASE i \in {"resfiles", "resjson"}
    <2>1. o \in TextStep(i, e, h, "ok") /\ i \in Containers
      BY <1>9 DEF IndexerStep, Containers
    <2>2. CASE e.item = i
      BY <1>6, <2>1, <2>2 DEF TextStep
    <2>3. CASE e.item # i /\ ~Matches(e, i)
      <3>1. o \in {Computed(h, "ok"), Computed(FALSE, "ok")}
        BY <2>1, <2>3 DEF TextStep, Matches
      <3>2. ~Claims(i, e)
        BY <1>4, <1>5, <2>1, <2>3 DEF Claims
      <3> QED
        BY <3>1, <3>2
    <2>4. CASE Matches(e, i)
      <3>1. e.item = "Path" /\ FS[e.path].format = i /\ Denotes(e) = e.path /\ e.item # i
        BY <1>4, <1>5, <2>1, <2>4
      <3>2. FS[e.path].kind = "file"
        BY <1>2, <1>4, <2>1, <3>1
      <3>3. CASE FS[e.path].size = "empty"
        <4>1. o = Untouched(FALSE, "ok") \/ o \in Unreadable(FALSE)
          BY <2>1, <2>4, <3>1, <3>2, <3>3 DEF TextStep, Matches
        <4>2. ~Claims(i, e)
          BY <1>4, <1>9, <3>1, <3>3 DEF Claims
        <4> QED
          BY <4>1, <4>2
      <3>4. CASE FS[e.path].size # "empty"
        <4>1. Claims(i, e) /\ Offer(e) = Redirect(e, i)
          BY <1>8, <2>1, <3>1, <3>4
        <4>2. o = Outcome("ok", TRUE, "ok", Redirect(e, i)) \/ o \in Unreadable(FALSE)
          BY <2>1, <2>4, <3>1, <3>2, <3>4 DEF TextStep, Matches
        <4> QED
          BY <4>1, <4>2
      <3> QED
        BY <3>3, <3>4
    <2> QED
      BY <1>4, <1>5, <2>1, <2>2, <2>3, <2>4
  <1>10. CASE i = "resw"
    <2>1. o \in ReswStep(e, h, "ok") /\ i \in Containers
      BY <1>10 DEF IndexerStep, Containers
    <2>2. CASE e.item = i
      BY <1>6, <1>10, <2>1, <2>2 DEF ReswStep
    <2>3. CASE e.item # i /\ ~Matches(e, i)
      <3>1. o = Computed(h, "ok")
        BY <1>10, <2>1, <2>3 DEF ReswStep
      <3>2. ~Claims(i, e)
        BY <1>4, <1>5, <2>1, <2>3 DEF Claims
      <3> QED
        BY <3>1, <3>2
    <2>4. CASE Matches(e, i)
      <3>1. e.item = "Path" /\ FS[e.path].format = i /\ Denotes(e) = e.path /\ e.item # i
        BY <1>4, <1>5, <2>1, <2>4
      <3>2. FS[e.path].kind = "file"
        BY <1>2, <1>4, <2>1, <3>1
      <3>3. Claims(i, e) /\ Offer(e) = Redirect(e, i)
        BY <1>8, <1>10, <2>1, <3>1
      <3>4. o = Outcome("ok", TRUE, "ok", Redirect(e, i)) \/ o \in Unreadable(TRUE)
        BY <1>10, <2>1, <2>4, <3>1, <3>2 DEF ReswStep
      <3> QED
        BY <3>3, <3>4
    <2> QED
      BY <1>4, <1>5, <2>1, <2>2, <2>3, <2>4
  <1>11. CASE i \in {"priinfo", "pri"}
    <2>1. o \in PriStep(i, e, h, "ok") /\ i \in Containers
      BY <1>11 DEF IndexerStep, Containers
    <2>2. CASE e.item = i
      BY <1>6, <2>1, <2>2 DEF PriStep
    <2>3. CASE e.item # i /\ ~Matches(e, i)
      <3>1. o \in {Untouched(h, "ok"), Untouched(FALSE, "ok")}
        BY <2>1, <2>3 DEF PriStep, Matches
      <3>2. ~Claims(i, e)
        BY <1>4, <1>5, <2>1, <2>3 DEF Claims
      <3> QED
        BY <3>1, <3>2
    <2>4. CASE Matches(e, i)
      <3>1. e.item = "Path" /\ FS[e.path].format = i /\ Denotes(e) = e.path /\ e.item # i
        BY <1>4, <1>5, <2>1, <2>4
      <3>2. FS[e.path].kind = "file"
        BY <1>2, <1>4, <2>1, <3>1
      <3>3. Claims(i, e) /\ Offer(e) = Redirect(e, i)
        BY <1>8, <1>11, <2>1, <3>1
      <3>4. o = Outcome("ok", TRUE, "ok", Redirect(e, i)) \/ o \in Unreadable(FALSE)
        BY <2>1, <2>4, <3>1, <3>2 DEF PriStep, Matches
      <3> QED
        BY <3>3, <3>4
    <2> QED
      BY <1>4, <1>5, <2>1, <2>2, <2>3, <2>4
  <1> QED
    BY <1>7, <1>9, <1>10, <1>11 DEF Indexers, Containers

LEMMA FinalStep ==
  ASSUME NEW height \in [Paths -> Nat], Regular(height),
         NEW e \in Entry, e.item = "Path", NEW h \in BOOLEAN,
         NEW o \in IndexerStep("embedfiles", e, h, "ok")
  PROVE  \/ o.result = "failed"
         \/ /\ o.result = "ok" /\ o.status = "ok"
            /\ IF FS[e.path].kind = "file" /\ FS[e.path].size = "normal"
               THEN o.handled = TRUE /\ o.new = <<ValueEntry(e.path, "Embedded")>>
               ELSE o.handled = FALSE /\ o.new = <<>>
  <1>1. e.path \in Paths
    BY DEF Entry
  <1>2. FS[e.path].kind \in {"dir", "file"} /\ NoPath \notin Paths
    BY <1>1, RegularFS
  <1>3. Denotes(e) = e.path /\ InFiles(e)
    BY MatchesIs
  <1>4. o \in EmbedStep(e, h, "ok")
    BY DEF IndexerStep, Containers
  <1>5. CASE FS[e.path].kind = "dir"
    <2>1. o = Computed(FALSE, "ok")
      BY <1>1, <1>2, <1>3, <1>4, <1>5 DEF EmbedStep
    <2> QED
      BY <1>5, <2>1 DEF Computed, Outcome
  <1>6. CASE FS[e.path].kind = "file"
    <2>1. \/ o \in Unreadable(FALSE)
          \/ o = IF FS[e.path].size # "normal" THEN Untouched(FALSE, "ok")
                 ELSE Outcome("ok", TRUE, "ok", <<ValueEntry(e.path, "Embedded")>>)
      BY <1>1, <1>2, <1>3, <1>4, <1>6 DEF EmbedStep
    <2>2. \A u \in Unreadable(FALSE) : u.result = "failed"
      BY DEF Unreadable, Fails, Outcome
    <2>3. CASE FS[e.path].size # "normal"
      <3>1. o.result = "failed" \/ o = Outcome("ok", FALSE, "ok", <<>>)
        BY <2>1, <2>2, <2>3 DEF Untouched
      <3>2. o.result = "failed" \/ (o.result = "ok" /\ o.status = "ok" /\ o.handled = FALSE /\ o.new = <<>>)
        BY <3>1 DEF Outcome
      <3> QED
        BY <2>3, <3>2
    <2>4. CASE FS[e.path].size = "normal"
      <3> DEFINE new == <<ValueEntry(e.path, "Embedded")>>
      <3>1. o.result = "failed" \/ o = Outcome("ok", TRUE, "ok", new)
        BY <2>1, <2>2, <2>4
      <3> HIDE DEF new
      <3>2. o.result = "failed" \/ (o.result = "ok" /\ o.status = "ok" /\ o.handled = TRUE /\ o.new = new)
        BY <3>1 DEF Outcome
      <3> QED
        BY <1>6, <2>4, <3>2 DEF new
    <2> QED
      BY <2>3, <2>4
  <1> QED
    BY <1>2, <1>5, <1>6

-----------------------------------------------------------------------------
(***************************************************************************)
(* What entries yield: the offer of an entry yields what the entry does,    *)
(* and the traversal sink loses and gains what is popped and pushed.        *)
(***************************************************************************)
LEMMA YieldTyped ==
  ASSUME NEW height \in [Paths -> Nat], Regular(height), NEW r, NEW conf, NEW e, e.path \in Paths
  PROVE  Yield(e, r, conf) \in Nat
  <1>1. Layered(height)
    BY RegularFS DEF Regular, Layered
  <1>2. Inside(r, conf) \in [Paths -> Nat]
    BY <1>1, InsideIs
  <1>3. At(e.path, e.flags, r, conf, Inside(r, conf)) \in Nat /\ Inside(r, conf)[e.path] \in Nat
    BY <1>2, AtTyped
  <1> QED
    BY <1>3 DEF Yield

LEMMA YieldOf ==
  ASSUME NEW e, NEW d, e.path = d.path, e.item = d.item, e.flags = d.flags, NEW r, NEW conf
  PROVE  Yield(e, r, conf) = Yield(d, r, conf) /\ (Sound(e, conf) <=> Sound(d, conf))
  BY DEF Yield, Sound

\* An entry nobody walks into is what it yields.
LEMMA YieldUnopened ==
  ASSUME NEW height \in [Paths -> Nat], Regular(height), NEW conf,
         NEW e \in Entry, Sound(e, conf), NEW r
  PROVE  /\ "traverse" \notin e.flags /\ r \in Resources =>
              Yield(e, r, conf) = IF "index" \in e.flags THEN Same(e, r) ELSE 0
         /\ "traverse" \in e.flags /\ ~Claimed(e, conf.main) =>
              /\ e.item = "Path"
              /\ Yield(e, r, conf) =
                   IF "index" \in e.flags /\ r = [path |-> e.path, item |-> ItemOf(e.path, e.flags, conf)]
                   THEN 1 ELSE 0
  <1>1. e.path \in Paths /\ "Path" \notin Containers /\ "String" \notin Containers /\ "Embedded" \notin Containers
    BY DEF Entry, Containers
  <1>2. ASSUME "traverse" \notin e.flags, r \in Resources
        PROVE  Yield(e, r, conf) = IF "index" \in e.flags THEN Same(e, r) ELSE 0
    <2>1. r = [path |-> e.path, item |-> e.item] <=> e.path = r.path /\ e.item = r.item
      BY <1>2 DEF Resources
    <2>2. CASE e.item = "Path"
      <3>1. Yield(e, r, conf) = At(e.path, e.flags, r, conf, Inside(r, conf))
        BY <2>2 DEF Yield
      <3>2. ItemOf(e.path, e.flags, conf) = e.item
        BY <1>2, <2>2 DEF ItemOf
      <3> QED
        BY <1>2, <2>1, <3>1, <3>2 DEF At, Same
    <2>3. CASE e.item # "Path"
      <3>1. e.item \notin Containers /\ e.flags = {"index"}
        BY <1>1, <1>2, <2>3 DEF Sound
      <3>2. Yield(e, r, conf) = IF r = [path |-> e.path, item |-> e.item] THEN 1 ELSE 0
        BY <2>3, <3>1 DEF Yield
      <3> QED
        BY <2>1, <3>1, <3>2 DEF Same
    <2> QED
      BY <2>2, <2>3
  <1>3. ASSUME "traverse" \in e.flags, ~Claimed(e, conf.main)
        PROVE  /\ e.item = "Path"
               /\ Yield(e, r, conf) =
                    IF "index" \in e.flags /\ r = [path |-> e.path, item |-> ItemOf(e.path, e.flags, conf)]
                    THEN 1 ELSE 0
    <2>1. e.item = "Path" /\ ~Opens(e.path, conf)
      BY <1>1, <1>3, ClaimedIs
    <2> QED
      BY <2>1 DEF Yield, At
  <1> QED
    BY <1>2, <1>3

LEMMA DraftedTyped ==
  ASSUME NEW height \in [Paths -> Nat], Regular(height), NEW r, NEW conf,
         NEW w \in Seq(Draft), NEW item, NEW known
  PROVE  /\ \A k \in 1..Len(w) :
              (IF Dropped(w, k, item, known) THEN 0 ELSE Yield(w[k], r, conf)) \in Nat
         /\ Drafted(w, item, known, r, conf) \in Nat
  <1>1. Len(w) \in Nat /\ DOMAIN w = 1..Len(w) /\ \A k \in 1..Len(w) : w[k] \in Draft
    BY LenProperties, ElementOfSeq
  <1>2. \A k \in 1..Len(w) : Yield(w[k], r, conf) \in Nat
    BY <1>1, YieldTyped DEF Draft
  <1>3. \A k \in 1..Len(w) : (IF Dropped(w, k, item, known) THEN 0 ELSE Yield(w[k], r, conf)) \in Nat
    BY <1>2
  <1> DEFINE d == [k \in DOMAIN w |-> IF Dropped(w, k, item, known) THEN 0 ELSE Yield(w[k], r, conf)]
  <1>4. \A k \in 1..Len(w) : d[k] \in Nat
    BY <1>1, <1>3
  <1> HIDE DEF d
  <1>5. Total(d, Len(w)) \in Nat
    BY <1>1, <1>4, TotalTyped
  <1> QED
    BY <1>3, <1>5 DEF Drafted, d

LEMMA PathEntryIs ==
  \A p, f : PathEntry(p, f).path = p /\ PathEntry(p, f).item = "Path" /\ PathEntry(p, f).flags = f
  BY DEF PathEntry

LEMMA OfferOfFolder ==
  ASSUME NEW height \in [Paths -> Nat], Regular(height), NEW conf, NEW r,
         NEW e \in Entry, e.item = "Path", "traverse" \in e.flags,
         FS[e.path].kind = "dir", Opens(e.path, conf)
  PROVE  Drafted(Children(e.path), "Path", {}, r, conf) = Yield(e, r, conf)
  <1> DEFINE p == e.path
             w == Children(p)
             inside == Inside(r, conf)
             d == [k \in DOMAIN w |-> IF Dropped(w, k, "Path", {}) THEN 0 ELSE Yield(w[k], r, conf)]
             b == [k \in DOMAIN FS[p].members |-> AtMember(p, k, r, conf, inside)]
  <1>1. p \in Paths
    BY DEF Entry
  <1>2. Layered(height)
    BY <1>1, RegularFS
  <1>3. inside \in [Paths -> Nat] /\ inside[p] = Below(p, r, conf, inside)
    BY <1>1, <1>2, InsideIs
  <1>4. /\ Len(FS[p].members) \in Nat /\ DOMAIN FS[p].members = 1..Len(FS[p].members)
        /\ \A k \in 1..Len(FS[p].members) : FS[p].members[k] \in Paths
    BY <1>1, MembersTyped
  <1>5. Yield(e, r, conf) = inside[p]
    BY DEF Yield, At
  <1> HIDE DEF inside
  <1>6. Below(p, r, conf, inside) = Total(b, Len(FS[p].members))
    BY DEF Below
  <1>7. w \in Seq(Draft) /\ DOMAIN w = 1..Len(FS[p].members) /\ Len(w) = Len(FS[p].members)
    BY <1>4, DraftsTyped DEF Children
  <1>8. \A k \in 1..Len(FS[p].members) :
          w[k] = PathEntry(FS[p].members[k], FS[FS[p].members[k]].flags)
    BY <1>4 DEF Children
  <1> HIDE DEF p, w
  <1>9. ASSUME NEW k \in 1..Len(FS[p].members)
        PROVE  b[k] \in Nat /\ d[k] = b[k]
    <2> DEFINE c == FS[p].members[k]
    <2>1. w[k].path = c /\ w[k].item = "Path" /\ w[k].flags = FS[c].flags
      BY <1>8, PathEntryIs
    <2>2. Dropped(w, k, "Path", {}) <=> FS[c].hidden
      BY <2>1 DEF Dropped
    <2>3. Yield(w[k], r, conf) = At(c, FS[c].flags, r, conf, inside)
      BY <2>1 DEF Yield, inside
    <2>4. b[k] = AtMember(p, k, r, conf, inside)
      BY <1>4
    <2>5. AtMember(p, k, r, conf, inside) \in Nat
      BY <1>1, <1>3, <1>4, AtMemberTyped
    <2>6. AtMember(p, k, r, conf, inside)
            = IF FS[c].hidden THEN 0 ELSE At(c, FS[c].flags, r, conf, inside)
      BY DEF AtMember, p
    <2>7. d[k] = IF FS[c].hidden THEN 0 ELSE At(c, FS[c].flags, r, conf, inside)
      BY <1>7, <2>2, <2>3
    <2> QED
      BY <2>4, <2>5, <2>6, <2>7
  <1> HIDE DEF b, d
  <1>10. Total(d, Len(FS[p].members)) = Total(b, Len(FS[p].members))
    BY <1>4, <1>9, TotalSame
  <1>11. Drafted(w, "Path", {}, r, conf) = Total(d, Len(w))
    BY DEF Drafted, d
  <1> QED
    BY <1>3, <1>5, <1>6, <1>7, <1>10, <1>11 DEF p, w

LEMMA OfferOfListing ==
  ASSUME NEW height \in [Paths -> Nat], Regular(height), NEW conf, NEW r,
         NEW e \in Entry, e.item = "resfiles", FS[e.path].format = "resfiles", FS[e.path].kind = "file"
  PROVE  Drafted(Contents(e), "resfiles", {}, r, conf) = Yield(e, r, conf)
  <1> DEFINE p == e.path
             w == Contents(e)
             inside == Inside(r, conf)
             d == [k \in DOMAIN w |-> IF Dropped(w, k, "resfiles", {}) THEN 0 ELSE Yield(w[k], r, conf)]
             b == [k \in DOMAIN FS[p].members |-> AtMember(p, k, r, conf, inside)]
  <1>1. p \in Paths
    BY DEF Entry
  <1>2. Layered(height)
    BY <1>1, RegularFS
  <1>3. inside \in [Paths -> Nat] /\ inside[p] = Below(p, r, conf, inside)
    BY <1>1, <1>2, InsideIs
  <1>4. /\ Len(FS[p].members) \in Nat /\ DOMAIN FS[p].members = 1..Len(FS[p].members)
        /\ \A k \in 1..Len(FS[p].members) : FS[p].members[k] \in Paths
    BY <1>1, MembersTyped
  <1>5. Yield(e, r, conf) = inside[p]
    BY DEF Yield, Containers
  <1> HIDE DEF inside
  <1>6. Below(p, r, conf, inside) = Total(b, Len(FS[p].members))
    BY DEF Below
  <1>7. w \in Seq(Draft) /\ DOMAIN w = 1..Len(FS[p].members) /\ Len(w) = Len(FS[p].members)
    <2>1. w = [k \in 1..Len(FS[p].members) |-> PathEntry(FS[p].members[k], Flags)]
      BY DEF Contents
    <2>2. w \in Seq(Draft)
      BY DraftsTyped
    <2> HIDE DEF w, p
    <2> QED
      BY <1>4, <2>1, <2>2, LenProperties
  <1>8. \A k \in 1..Len(FS[p].members) : w[k] = PathEntry(FS[p].members[k], Flags)
    BY <1>4 DEF Contents
  <1> HIDE DEF p, w
  <1>9. \A k \in 1..Len(FS[p].members) :
          w[k].path = FS[p].members[k] /\ w[k].item = "Path" /\ w[k].flags = Flags
    BY <1>8, PathEntryIs
  <1>10. ASSUME NEW k \in 1..Len(FS[p].members)
        PROVE  b[k] \in Nat /\ d[k] = b[k]
    <2> DEFINE c == FS[p].members[k]
               named == \E j \in 1..(k - 1) : FS[p].members[j] = c
    <2>1. \A j \in 1..(k - 1) : j \in 1..Len(FS[p].members)
      BY <1>4
    <2>2. Dropped(w, k, "resfiles", {}) <=> named
      BY <1>9, <2>1 DEF Dropped
    <2>3. Yield(w[k], r, conf) = At(c, Flags, r, conf, inside)
      BY <1>9 DEF Yield, inside
    <2>4. b[k] = AtMember(p, k, r, conf, inside)
      BY <1>4
    <2>5. AtMember(p, k, r, conf, inside) \in Nat
      BY <1>1, <1>3, <1>4, AtMemberTyped
    <2>6. AtMember(p, k, r, conf, inside) = IF named THEN 0 ELSE At(c, Flags, r, conf, inside)
      BY DEF AtMember, p
    <2> HIDE DEF named
    <2>7. d[k] = IF named THEN 0 ELSE At(c, Flags, r, conf, inside)
      BY <1>7, <2>2, <2>3
    <2> QED
      BY <2>4, <2>5, <2>6, <2>7
  <1> HIDE DEF b, d
  <1>11. Total(d, Len(FS[p].members)) = Total(b, Len(FS[p].members))
    BY <1>4, <1>10, TotalSame
  <1>12. Drafted(w, "resfiles", {}, r, conf) = Total(d, Len(w))
    BY DEF Drafted, d
  <1> QED
    BY <1>3, <1>5, <1>6, <1>7, <1>11, <1>12 DEF p, w

LEMMA OfferOfPayload ==
  ASSUME NEW height \in [Paths -> Nat], Regular(height), NEW conf, NEW r,
         NEW e \in Entry, e.item \in Containers \ {"resfiles"},
         FS[e.path].format = e.item, FS[e.path].kind = "file"
  PROVE  Drafted(Contents(e), e.item, {}, r, conf) = Yield(e, r, conf)
  <1> DEFINE p == e.path
             n == FS[p].strings
             w == Contents(e)
             inside == Inside(r, conf)
             d == [k \in DOMAIN w |-> IF Dropped(w, k, e.item, {}) THEN 0 ELSE Yield(w[k], r, conf)]
             one == IF r = [path |-> p, item |-> "String"] THEN 1 ELSE 0
  <1>1. p \in Paths
    BY DEF Entry
  <1>2. Layered(height) /\ n \in Nat
    BY <1>1, RegularFS, ObjectsTyped
  <1>3. inside[p] = Below(p, r, conf, inside)
    BY <1>1, <1>2, InsideIs
  <1>4. Yield(e, r, conf) = inside[p]
    BY DEF Yield, Containers
  <1>5. Below(p, r, conf, inside) = IF r = [path |-> p, item |-> "String"] THEN n ELSE 0
    BY DEF Below
  <1>6. w \in Seq(Draft) /\ DOMAIN w = 1..n /\ Len(w) = n
    BY <1>2, DraftsTyped DEF Contents
  <1>7. \A k \in 1..n : w[k] = ValueEntry(p, "String")
    BY DEF Contents
  <1> HIDE DEF p, w, n
  <1>8. ASSUME NEW k \in 1..n
        PROVE  d[k] = one
    <2>1. w[k].path = p /\ w[k].item = "String"
      BY <1>7 DEF ValueEntry
    <2>2. ~Dropped(w, k, e.item, {})
      BY <2>1 DEF Dropped
    <2>3. Yield(w[k], r, conf) = one
      BY <2>1 DEF Yield, Containers
    <2> QED
      BY <1>6, <2>2, <2>3
  <1> HIDE DEF d
  <1>9. Drafted(w, e.item, {}, r, conf) = Total(d, n)
    BY <1>6 DEF Drafted, d
  <1>10. Total(d, n) = IF r = [path |-> p, item |-> "String"] THEN n ELSE 0
    <2>1. CASE r = [path |-> p, item |-> "String"]
      BY <1>2, <1>8, <2>1, TotalOnes DEF n
    <2>2. CASE r # [path |-> p, item |-> "String"]
      BY <1>2, <1>8, <2>2, TotalZero DEF n
    <2> QED
      BY <2>1, <2>2
  <1> QED
    BY <1>3, <1>4, <1>5, <1>9, <1>10 DEF w, p

\* One draft that is not a path is never dropped.
LEMMA DraftedOne ==
  ASSUME NEW height \in [Paths -> Nat], Regular(height), NEW r, NEW conf,
         NEW d \in Draft, d.item # "Path", NEW item, NEW known
  PROVE  Drafted(<<d>>, item, known, r, conf) = Yield(d, r, conf)
  <1> DEFINE w == <<d>>
             s == [k \in DOMAIN w |-> IF Dropped(w, k, item, known) THEN 0 ELSE Yield(w[k], r, conf)]
  <1>1. DOMAIN w = 1..1 /\ Len(w) = 1 /\ w[1] = d
    OBVIOUS
  <1>2. ~Dropped(w, 1, item, known)
    BY <1>1 DEF Dropped
  <1>3. Yield(d, r, conf) \in Nat
    BY YieldTyped DEF Draft
  <1> HIDE DEF w
  <1>4. s[1] = Yield(d, r, conf)
    BY <1>1, <1>2
  <1> HIDE DEF s
  <1>5. \A k \in 1..(0 + 1) : s[k] \in Nat
    BY <1>3, <1>4
  <1>6. Total(s, 0 + 1) = Total(s, 0) + s[0 + 1]
    BY <1>5, TotalMore
  <1>7. Total(s, 0) = 0
    BY TotalNone
  <1>8. Total(s, 1) = Yield(d, r, conf)
    BY <1>3, <1>4, <1>6, <1>7
  <1>9. Drafted(w, item, known, r, conf) = Total(s, 1)
    BY <1>1 DEF Drafted, s
  <1> QED
    BY <1>8, <1>9 DEF w

\* The offer of a claimed entry.
LEMMA OfferYields ==
  ASSUME NEW height \in [Paths -> Nat], Regular(height), NEW conf,
         NEW e \in Entry, Sound(e, conf), "traverse" \in e.flags, Claimed(e, conf.main), NEW r
  PROVE  /\ Drafted(Offer(e), e.item, {}, r, conf) = Yield(e, r, conf)
         /\ Offer(e) \in Seq(Draft)
         /\ AllSound(Offer(e), conf)
         /\ MayLose(e.item) => \A k \in DOMAIN Offer(e) : Offer(e)[k] = ValueEntry(e.path, "String")
  <1>1. e.path \in Paths
    BY DEF Entry
  <1>2. FS[e.path].kind \in {"dir", "file"}
        /\ (FS[e.path].kind = "dir" => FS[e.path].format = "plain")
        /\ FS[e.path].format \in Containers \cup {"plain"}
    BY <1>1, RegularFS
  <1>3. e.item = "Path" \/ e.item \in Containers
    BY <1>1, ClaimedIs
  <1>4. "Path" \notin Containers /\ "plain" \notin Containers /\ "folder" \notin Containers
        /\ ~MayLose("Path") /\ ~MayLose("resfiles")
    BY DEF Containers, MayLose, ResetsStatus, OverwritesResult
  <1>5. CASE e.item = "Path" /\ FS[e.path].kind = "dir"
    <2>1. Opens(e.path, conf)
      BY <1>1, <1>5, ClaimedIs
    <2>2. Offer(e) = Children(e.path)
      BY <1>4, <1>5 DEF Offer
    <2>3. Children(e.path) \in Seq(Draft)
      BY DraftsTyped
    <2>4. \A k \in DOMAIN Children(e.path) : Children(e.path)[k].item = "Path"
      BY DEF Children, PathEntry
    <2> QED
      BY <1>4, <1>5, <2>1, <2>2, <2>3, <2>4, OfferOfFolder DEF AllSound, Sound
  <1>6. CASE e.item = "Path" /\ FS[e.path].kind = "file"
    <2> DEFINE fmt == FS[e.path].format
               d == ContentEntry(e.path, fmt)
    <2>1. Opens(e.path, conf)
      BY <1>1, <1>6, ClaimedIs
    <2>2. fmt \in Containers /\ Has(conf, fmt)
      BY <1>6, <2>1 DEF Opens
    <2>3. Denotes(e) = e.path
      BY <1>6, MatchesIs
    <2>4. Offer(e) = <<d>>
      BY <1>4, <1>6, <2>3 DEF Offer, Redirect
    <2>5. d.path = e.path /\ d.item = fmt /\ d.flags = {"traverse"}
      BY DEF ContentEntry
    <2>6. d \in Draft
      BY <1>1, <2>2 DEF ContentEntry, Draft, Items, Flags
    <2>7. Yield(d, r, conf) = Inside(r, conf)[e.path] /\ Yield(e, r, conf) = Inside(r, conf)[e.path]
      BY <1>4, <1>6, <2>1, <2>2, <2>5 DEF Yield, At
    <2>8. Sound(d, conf)
      BY <1>6, <2>2, <2>5 DEF Sound
    <2> HIDE DEF d, fmt
    <2>9. Drafted(<<d>>, e.item, {}, r, conf) = Yield(d, r, conf)
      BY <1>4, <2>2, <2>5, <2>6, DraftedOne
    <2>10. <<d>> \in Seq(Draft) /\ AllSound(<<d>>, conf)
      BY <2>6, <2>8 DEF AllSound
    <2> QED
      BY <1>4, <1>6, <2>4, <2>7, <2>9, <2>10
  <1>7. ASSUME e.item \in Containers
        PROVE  /\ Offer(e) = Contents(e) /\ Contents(e) \in Seq(Draft)
               /\ FS[e.path].kind = "file" /\ FS[e.path].format = e.item
    BY <1>4, <1>7, DraftsTyped DEF Offer, Sound
  <1>8. CASE e.item = "resfiles"
    <2>1. e.item \in Containers
      BY <1>8 DEF Containers
    <2>2. \A k \in DOMAIN Contents(e) : Contents(e)[k].item = "Path"
      BY <1>8 DEF Contents, PathEntry
    <2>3. Drafted(Contents(e), "resfiles", {}, r, conf) = Yield(e, r, conf)
      BY <1>7, <1>8, <2>1, OfferOfListing
    <2> QED
      BY <1>4, <1>7, <1>8, <2>1, <2>2, <2>3 DEF AllSound, Sound
  <1>9. CASE e.item \in Containers \ {"resfiles"}
    <2>1. \A k \in DOMAIN Contents(e) : Contents(e)[k] = ValueEntry(e.path, "String")
      BY <1>9 DEF Contents
    <2>2. ValueEntry(e.path, "String").item = "String" /\ ValueEntry(e.path, "String").flags = {"index"}
      BY DEF ValueEntry
    <2>3. Drafted(Contents(e), e.item, {}, r, conf) = Yield(e, r, conf)
      BY <1>7, <1>9, OfferOfPayload
    <2>4. AllSound(Contents(e), conf)
      BY <2>1, <2>2 DEF AllSound, Sound
    <2> QED
      BY <1>7, <1>9, <2>1, <2>3, <2>4
  <1> QED
    BY <1>2, <1>3, <1>5, <1>6, <1>8, <1>9

\* The sinks and the drafts, entry by entry.
LEMMA YieldsTyped ==
  ASSUME NEW height \in [Paths -> Nat], Regular(height), NEW r, NEW conf, NEW s \in Seq(Entry)
  PROVE  /\ \A k \in DOMAIN s : Yield(s[k], r, conf) \in Nat
         /\ Yields(s, r, conf) \in Nat
  <1> DEFINE d == [k \in DOMAIN s |-> Yield(s[k], r, conf)]
  <1>1. Len(s) \in Nat /\ DOMAIN s = 1..Len(s) /\ \A k \in 1..Len(s) : s[k] \in Entry
    BY LenProperties, ElementOfSeq
  <1>2. \A k \in 1..Len(s) : Yield(s[k], r, conf) \in Nat
    BY <1>1, YieldTyped DEF Entry
  <1>3. \A k \in 1..Len(s) : d[k] \in Nat
    BY <1>1, <1>2
  <1> HIDE DEF d
  <1>4. Total(d, Len(s)) \in Nat
    BY <1>1, <1>3, TotalTyped
  <1> QED
    BY <1>1, <1>2, <1>4 DEF Yields, d

LEMMA YieldsNone ==
  ASSUME NEW r, NEW conf
  PROVE  Yields(<<>>, r, conf) = 0
  <1>1. Len(<<>>) = 0
    OBVIOUS
  <1>2. Total([k \in DOMAIN <<>> |-> Yield(<<>>[k], r, conf)], 0) = 0
    BY TotalNone
  <1> QED
    BY <1>1, <1>2 DEF Yields

LEMMA YieldsSplit ==
  ASSUME NEW height \in [Paths -> Nat], Regular(height), NEW r, NEW conf,
         NEW s \in Seq(Entry), NEW t \in Seq(Entry), Len(t) = Len(s) + 1,
         \A k \in 1..Len(s) : t[k] = s[k]
  PROVE  Yields(t, r, conf) = Yields(s, r, conf) + Yield(t[Len(t)], r, conf)
  <1> DEFINE d == [k \in DOMAIN s |-> Yield(s[k], r, conf)]
             e == [k \in DOMAIN t |-> Yield(t[k], r, conf)]
             n == Len(s)
  <1>1. n \in Nat /\ DOMAIN s = 1..n /\ DOMAIN t = 1..(n + 1)
    BY LenProperties
  <1>2. \A k \in 1..(n + 1) : e[k] = Yield(t[k], r, conf) /\ e[k] \in Nat
    BY <1>1, YieldsTyped
  <1>3. \A k \in 1..n : e[k] = d[k]
    BY <1>1
  <1>4. Yields(s, r, conf) = Total(d, n) /\ Yields(t, r, conf) = Total(e, n + 1)
    BY DEF Yields
  <1> HIDE DEF d, e, n
  <1>5. Total(e, n + 1) = Total(e, n) + e[n + 1]
    BY <1>1, <1>2, TotalMore
  <1>6. Total(e, n) = Total(d, n)
    <2>1. \A k \in 1..n : e[k] \in Nat /\ d[k] = e[k]
      BY <1>1, <1>2, <1>3
    <2>2. Total(d, n) = Total(e, n)
      BY <1>1, <2>1, TotalSame
    <2> QED
      BY <2>2
  <1>7. e[n + 1] = Yield(t[n + 1], r, conf)
    BY <1>1, <1>2
  <1> QED
    BY <1>4, <1>5, <1>6, <1>7 DEF n

LEMMA YieldsPush ==
  ASSUME NEW height \in [Paths -> Nat], Regular(height), NEW r, NEW conf,
         NEW s \in Seq(Entry), NEW e \in Entry
  PROVE  Yields(Append(s, e), r, conf) = Yields(s, r, conf) + Yield(e, r, conf)
  <1> DEFINE t == Append(s, e)
  <1>1. t \in Seq(Entry) /\ Len(t) = Len(s) + 1 /\ (\A k \in 1..Len(s) : t[k] = s[k])
        /\ t[Len(t)] = e
    OBVIOUS
  <1> HIDE DEF t
  <1>2. Yields(t, r, conf) = Yields(s, r, conf) + Yield(t[Len(t)], r, conf)
    BY <1>1, YieldsSplit
  <1> QED
    BY <1>1, <1>2 DEF t

LEMMA YieldsPop ==
  ASSUME NEW height \in [Paths -> Nat], Regular(height), NEW r, NEW conf,
         NEW t \in Seq(Entry), t # <<>>
  PROVE  /\ SubSeq(t, 1, Len(t) - 1) \in Seq(Entry)
         /\ Yields(t, r, conf) = Yields(SubSeq(t, 1, Len(t) - 1), r, conf) + Yield(t[Len(t)], r, conf)
  <1> DEFINE s == SubSeq(t, 1, Len(t) - 1)
  <1>1. Len(t) \in Nat \ {0} /\ DOMAIN t = 1..Len(t) /\ \A k \in 1..Len(t) : t[k] \in Entry
    BY LenProperties, ElementOfSeq, EmptySeq
  <1>2. /\ s \in Seq(Entry) /\ Len(s) = Len(t) - 1
        /\ \A k \in 1..(Len(t) - 1) : s[k] = t[k]
    BY <1>1, SubSeqProperties
  <1> HIDE DEF s
  <1>3. Len(t) = Len(s) + 1 /\ \A k \in 1..Len(s) : t[k] = s[k]
    BY <1>1, <1>2
  <1>4. Yields(t, r, conf) = Yields(s, r, conf) + Yield(t[Len(t)], r, conf)
    BY <1>2, <1>3, YieldsSplit
  <1> QED
    BY <1>2, <1>4 DEF s

LEMMA DraftedNone ==
  ASSUME NEW r, NEW conf, NEW item, NEW known
  PROVE  Drafted(<<>>, item, known, r, conf) = 0
  <1>1. Len(<<>>) = 0
    OBVIOUS
  <1>2. Total([k \in DOMAIN <<>> |-> IF Dropped(<<>>, k, item, known) THEN 0
                                     ELSE Yield(<<>>[k], r, conf)], 0) = 0
    BY TotalNone
  <1> QED
    BY <1>1, <1>2 DEF Drafted

LEMMA TailIs ==
  ASSUME NEW w \in Seq(Draft), w # <<>>
  PROVE  /\ Len(w) - 1 \in Nat /\ Len(w) = (Len(w) - 1) + 1 /\ DOMAIN w = 1..Len(w)
         /\ Head(w) = w[1] /\ Head(w) \in Draft
         /\ Tail(w) \in Seq(Draft) /\ Len(Tail(w)) = Len(w) - 1 /\ DOMAIN Tail(w) = 1..(Len(w) - 1)
         /\ \A k \in 1..(Len(w) - 1) : Tail(w)[k] = w[k + 1]
  <1>1. Len(w) \in Nat \ {0} /\ DOMAIN w = 1..Len(w)
    BY LenProperties, EmptySeq
  <1>2. Head(w) \in Draft /\ Tail(w) \in Seq(Draft) /\ Len(Tail(w)) = Len(w) - 1 /\ Head(w) = w[1]
    BY HeadTailProperties
  <1>3. DOMAIN Tail(w) = 1..(Len(w) - 1)
    BY <1>2, LenProperties
  <1>4. \A k \in 1..(Len(w) - 1) : Tail(w)[k] = w[k + 1]
    BY <1>1, HeadTailProperties
  <1> QED
    BY <1>1, <1>2, <1>3, <1>4

LEMMA DraftedRest ==
  ASSUME NEW height \in [Paths -> Nat], Regular(height), NEW r, NEW conf,
         NEW w \in Seq(Draft), w # <<>>, NEW item, NEW known, NEW more,
         \A k \in 1..(Len(w) - 1) : Dropped(Tail(w), k, item, more) <=> Dropped(w, k + 1, item, known)
  PROVE  Drafted(w, item, known, r, conf) =
           (IF Dropped(w, 1, item, known) THEN 0 ELSE Yield(Head(w), r, conf))
             + Drafted(Tail(w), item, more, r, conf)
  <1> DEFINE t == Tail(w)
             n == Len(w) - 1
             d == [k \in DOMAIN w |-> IF Dropped(w, k, item, known) THEN 0 ELSE Yield(w[k], r, conf)]
             e == [k \in DOMAIN t |-> IF Dropped(t, k, item, more) THEN 0 ELSE Yield(t[k], r, conf)]
  <1>1. /\ n \in Nat /\ Len(w) = n + 1 /\ DOMAIN w = 1..(n + 1) /\ Head(w) = w[1]
        /\ Len(t) = n /\ DOMAIN t = 1..n /\ \A k \in 1..n : t[k] = w[k + 1]
    BY TailIs
  <1>2. \A k \in 1..(n + 1) : d[k] \in Nat
    BY <1>1, DraftedTyped
  <1>3. ASSUME NEW k \in 1..n
        PROVE  e[k] = d[k + 1]
    <2>1. k + 1 \in 1..(n + 1) /\ k \in 1..(Len(w) - 1)
      BY <1>1
    <2>2. Dropped(t, k, item, more) <=> Dropped(w, k + 1, item, known)
      BY <2>1
    <2>3. t[k] = w[k + 1]
      BY <1>1
    <2> HIDE DEF t, n
    <2> QED
      BY <1>1, <2>1, <2>2, <2>3
  <1>4. d[1] = IF Dropped(w, 1, item, known) THEN 0 ELSE Yield(Head(w), r, conf)
    BY <1>1
  <1>5. Drafted(w, item, known, r, conf) = Total(d, n + 1)
    BY <1>1 DEF Drafted
  <1>6. Drafted(t, item, more, r, conf) = Total(e, n)
    BY <1>1 DEF Drafted
  <1> HIDE DEF d, e, n, t
  <1>7. Total(d, n + 1) = d[1] + Total(e, n)
    BY <1>1, <1>2, <1>3, TotalRest
  <1> QED
    BY <1>4, <1>5, <1>6, <1>7 DEF t

LEMMA DraftedCreated ==
  ASSUME NEW height \in [Paths -> Nat], Regular(height), NEW r, NEW conf,
         NEW w \in Seq(Draft), w # <<>>, NEW item, NEW known, ~Dropped(w, 1, item, known)
  PROVE  Drafted(w, item, known, r, conf) =
           Yield(Head(w), r, conf) + Drafted(Tail(w), item, known \cup {Head(w).path}, r, conf)
  <1> DEFINE t == Tail(w)
  <1>1. /\ Len(w) - 1 \in Nat /\ Head(w) = w[1]
        /\ \A k \in 1..(Len(w) - 1) : t[k] = w[k + 1]
    BY TailIs
  <1> HIDE DEF t
  <1>2. ASSUME NEW k \in 1..(Len(w) - 1)
        PROVE  Dropped(t, k, item, known \cup {Head(w).path}) <=> Dropped(w, k + 1, item, known)
    <2>1. t[k] = w[k + 1] /\ \A j \in 1..(k - 1) : t[j] = w[j + 1]
      BY <1>1
    <2>2. (\E j \in 1..((k + 1) - 1) : w[j].path = w[k + 1].path)
            <=> w[1].path = w[k + 1].path \/ \E j \in 1..(k - 1) : w[j + 1].path = w[k + 1].path
      <3>1. ASSUME NEW j \in 1..((k + 1) - 1), w[j].path = w[k + 1].path
            PROVE  w[1].path = w[k + 1].path \/ \E i \in 1..(k - 1) : w[i + 1].path = w[k + 1].path
        <4>1. CASE j = 1
          BY <3>1, <4>1
        <4>2. CASE j # 1
          <5>1. j - 1 \in 1..(k - 1) /\ (j - 1) + 1 = j
            BY <1>1, <4>2
          <5> QED
            BY <3>1, <5>1
        <4> QED
          BY <4>1, <4>2
      <3>2. 1 \in 1..((k + 1) - 1) /\ \A j \in 1..(k - 1) : j + 1 \in 1..((k + 1) - 1)
        BY <1>1
      <3> QED
        BY <3>1, <3>2
    <2>3. (\E j \in 1..(k - 1) : t[j].path = t[k].path) <=> \E j \in 1..(k - 1) : w[j + 1].path = w[k + 1].path
      BY <2>1
    <2>4. t[k].path \in known \cup {Head(w).path} <=> w[k + 1].path \in known \/ w[1].path = w[k + 1].path
      BY <1>1, <2>1
    <2> QED
      BY <2>1, <2>2, <2>3, <2>4, Zenon DEF Dropped
  <1> DEFINE more == known \cup {Head(w).path}
  <1>3. \A k \in 1..(Len(w) - 1) : Dropped(Tail(w), k, item, more) <=> Dropped(w, k + 1, item, known)
    BY <1>2 DEF t
  <1> HIDE DEF more
  <1>4. Drafted(w, item, known, r, conf) =
           (IF Dropped(w, 1, item, known) THEN 0 ELSE Yield(Head(w), r, conf))
             + Drafted(Tail(w), item, more, r, conf)
    BY <1>3, DraftedRest
  <1> QED
    BY <1>4 DEF more

LEMMA DraftedSkipped ==
  ASSUME NEW height \in [Paths -> Nat], Regular(height), NEW r, NEW conf,
         NEW w \in Seq(Draft), w # <<>>, NEW item, NEW known, Dropped(w, 1, item, known)
  PROVE  Drafted(w, item, known, r, conf) = Drafted(Tail(w), item, known, r, conf)
  <1> DEFINE t == Tail(w)
  <1>1. /\ Len(w) - 1 \in Nat /\ Head(w) = w[1] /\ t \in Seq(Draft)
        /\ \A k \in 1..(Len(w) - 1) : t[k] = w[k + 1]
    BY TailIs
  <1> HIDE DEF t
  <1>2. ASSUME NEW k \in 1..(Len(w) - 1)
        PROVE  Dropped(t, k, item, known) <=> Dropped(w, k + 1, item, known)
    <2>1. t[k] = w[k + 1] /\ \A j \in 1..(k - 1) : t[j] = w[j + 1]
      BY <1>1
    <2>2. CASE item = "Path"
      BY <2>1, <2>2 DEF Dropped
    <2>3. CASE item # "Path"
      <3>1. w[1].path \in known
        BY <2>3 DEF Dropped
      <3>2. (\E j \in 1..((k + 1) - 1) : w[j].path = w[k + 1].path)
              => w[k + 1].path \in known \/ \E j \in 1..(k - 1) : w[j + 1].path = w[k + 1].path
        <4> SUFFICES ASSUME NEW j \in 1..((k + 1) - 1), w[j].path = w[k + 1].path
                     PROVE  w[k + 1].path \in known \/ \E i \in 1..(k - 1) : w[i + 1].path = w[k + 1].path
          OBVIOUS
        <4>1. CASE j = 1
          BY <3>1, <4>1
        <4>2. CASE j # 1
          <5>1. j - 1 \in 1..(k - 1) /\ (j - 1) + 1 = j
            BY <1>1, <4>2
          <5> QED
            BY <5>1
        <4> QED
          BY <4>1, <4>2
      <3>3. (\E j \in 1..(k - 1) : w[j + 1].path = w[k + 1].path)
              => \E j \in 1..((k + 1) - 1) : w[j].path = w[k + 1].path
        <4>1. \A j \in 1..(k - 1) : j + 1 \in 1..((k + 1) - 1)
          BY <1>1
        <4> QED
          BY <4>1
      <3>4. (\E j \in 1..(k - 1) : t[j].path = t[k].path) <=> \E j \in 1..(k - 1) : w[j + 1].path = w[k + 1].path
        BY <2>1
      <3> QED
        BY <2>1, <2>3, <3>2, <3>3, <3>4, Zenon DEF Dropped
    <2> QED
      BY <2>2, <2>3
  <1>3. Drafted(t, item, known, r, conf) \in Nat
    BY <1>1, DraftedTyped
  <1>4. Drafted(w, item, known, r, conf) =
           (IF Dropped(w, 1, item, known) THEN 0 ELSE Yield(Head(w), r, conf))
             + Drafted(t, item, known, r, conf)
    BY <1>2, DraftedRest DEF t
  <1> QED
    BY <1>3, <1>4 DEF t

\* A string that is left out is missing from what the others give.
LEMMA DraftedLost ==
  ASSUME NEW height \in [Paths -> Nat], Regular(height), NEW r, NEW conf,
         NEW w \in Seq(Draft), w # <<>>, NEW item, NEW known, NEW p \in Paths,
         \A k \in DOMAIN w : w[k] = ValueEntry(p, "String")
  PROVE  Drafted(w, item, known, r, conf) =
           (IF r = [path |-> p, item |-> "String"] THEN 1 ELSE 0) + Drafted(Tail(w), item, known, r, conf)
  <1> DEFINE t == Tail(w)
  <1>1. /\ Len(w) - 1 \in Nat /\ Len(w) = (Len(w) - 1) + 1 /\ DOMAIN w = 1..Len(w) /\ Head(w) = w[1]
        /\ Head(w) \in Draft /\ t \in Seq(Draft)
        /\ \A k \in 1..(Len(w) - 1) : t[k] = w[k + 1]
    BY TailIs
  <1> HIDE DEF t
  <1>2. \A k \in 1..Len(w) : w[k].path = p /\ w[k].item = "String"
    BY <1>1 DEF ValueEntry
  <1>3. \A k \in 1..(Len(w) - 1) : Dropped(t, k, item, known) <=> Dropped(w, k + 1, item, known)
    <2>1. \A k \in 1..(Len(w) - 1) : k + 1 \in 1..Len(w)
      BY <1>1
    <2>2. \A k \in 1..(Len(w) - 1) : t[k].item = "String" /\ w[k + 1].item = "String"
      BY <1>1, <1>2, <2>1
    <2> QED
      BY <2>2 DEF Dropped
  <1>4. Drafted(w, item, known, r, conf) =
           (IF Dropped(w, 1, item, known) THEN 0 ELSE Yield(Head(w), r, conf))
             + Drafted(t, item, known, r, conf)
    BY <1>3, DraftedRest DEF t
  <1>5. 1 \in 1..Len(w)
    BY <1>1
  <1>6. ~Dropped(w, 1, item, known)
    BY <1>2, <1>5 DEF Dropped
  <1>7. Drafted(t, item, known, r, conf) \in Nat /\ Yield(Head(w), r, conf) \in Nat
    BY <1>1, DraftedTyped, YieldTyped DEF Draft
  <1>8. Yield(Head(w), r, conf) = IF r = [path |-> p, item |-> "String"] THEN 1 ELSE 0
    BY <1>1, <1>2, <1>5 DEF Yield, Containers
  <1> QED
    BY <1>4, <1>6, <1>7, <1>8 DEF t

-----------------------------------------------------------------------------
(***************************************************************************)
(* The course of a run without errors: where each indexer group stands,     *)
(* and what the sinks may hold.                                             *)
(***************************************************************************)
LEMMA Standing ==
  ASSUME NEW height \in [Paths -> Nat], Regular(height), TypeOK
  PROVE  /\ passes \in Seq(PassConfig) /\ DOMAIN passes = 1..Len(passes) /\ Len(passes) \in Nat
         /\ pass \in 1..Len(passes)
         /\ \A n \in 1..Len(passes) : RegularPass(passes[n])
         /\ RegularPass(Conf) /\ Conf.main \in Seq(Indexers) /\ Conf.final \in Seq(Indexers)
         /\ Len(entry) = 1 => entry[1] \in Entry /\ entry = <<entry[1]>> /\ entry # <<>>
         /\ Len(entry) # 1 => entry = <<>>
         /\ \A k \in DOMAIN traversal : traversal[k] \in Entry
  <1>1. passes \in Seq(PassConfig) /\ pass \in 1..Len(passes)
    BY ConfigurationsAssumption DEF TypeOK
  <1>2. DOMAIN passes = 1..Len(passes) /\ Len(passes) \in Nat /\ \A n \in 1..Len(passes) : passes[n] \in PassConfig
    BY <1>1, LenProperties, ElementOfSeq
  <1>3. passes \in Configurations
    BY DEF TypeOK
  <1>4. \A n \in 1..Len(passes) : RegularPass(passes[n])
    BY <1>2, <1>3 DEF Regular, RegularPass
  <1>5. Conf \in PassConfig /\ RegularPass(Conf)
    BY <1>1, <1>2, <1>4 DEF Conf
  <1>6. Conf.main \in Seq(Indexers) /\ Conf.final \in Seq(Indexers)
    BY <1>5 DEF PassConfig
  <1>7. entry \in Seq(Entry) /\ Len(entry) \in Nat /\ Len(entry) <= 1
    BY LenProperties DEF TypeOK
  <1>8. Len(entry) = 1 => entry[1] \in Entry /\ entry = <<entry[1]>> /\ entry # <<>>
    <2> SUFFICES ASSUME Len(entry) = 1
                 PROVE  entry[1] \in Entry /\ entry = <<entry[1]>> /\ entry # <<>>
      OBVIOUS
    <2>1. entry[1] \in Entry
      <3>1. 1 \in 1..Len(entry)
        OBVIOUS
      <3> QED
        BY <1>7, <3>1, ElementOfSeq
    <2>2. entry = <<entry[1]>>
      BY <1>7
    <2>3. entry # <<>>
      <3>1. Len(entry) # 0
        OBVIOUS
      <3> QED
        BY <1>7, <3>1, EmptySeq
    <2> QED
      BY <2>1, <2>2, <2>3
  <1>9. Len(entry) # 1 => entry = <<>>
    <2>1. \A n \in Nat : n <= 1 /\ n # 1 => n = 0
      OBVIOUS
    <2> QED
      BY <1>7, <2>1, EmptySeq
  <1>10. \A k \in DOMAIN traversal : traversal[k] \in Entry
    BY LenProperties, ElementOfSeq DEF TypeOK
  <1> QED
    BY <1>1, <1>2, <1>4, <1>5, <1>6, <1>8, <1>9, <1>10

LEMMA MainMembers ==
  ASSUME NEW conf, RegularPass(conf), NEW i, Has(conf, i)
  PROVE  i \in Indexers /\ i # "embedfiles"
  <1>1. conf.main \in Seq(Indexers)
    BY DEF RegularPass, PassConfig
  <1>2. \A n \in DOMAIN conf.main : conf.main[n] \in Indexers
    BY <1>1, LenProperties, ElementOfSeq
  <1> QED
    BY <1>2 DEF Has, RegularPass

\* The rest of a list of distinct indexers.
LEMMA ClaimedRest ==
  ASSUME NEW height \in [Paths -> Nat], Regular(height), NEW conf,
         NEW e \in Entry, Sound(e, conf),
         NEW s \in Seq(Indexers), s # <<>>, \A j, k \in DOMAIN s : s[j] = s[k] => j = k
  PROVE  /\ Head(s) = s[1] /\ 1 \in DOMAIN s /\ Tail(s) \in Seq(Indexers)
         /\ \A n \in DOMAIN Tail(s) : \E m \in DOMAIN s : Tail(s)[n] = s[m]
         /\ \A j, k \in DOMAIN Tail(s) : Tail(s)[j] = Tail(s)[k] => j = k
         /\ Claims(Head(s), e) => ~Claimed(e, Tail(s))
         /\ Claimed(e, s) <=> Claims(Head(s), e) \/ Claimed(e, Tail(s))
  <1> DEFINE t == Tail(s)
  <1>1. Len(s) \in Nat \ {0} /\ DOMAIN s = 1..Len(s)
    BY LenProperties, EmptySeq
  <1>2. Head(s) = s[1] /\ t \in Seq(Indexers) /\ Len(t) = Len(s) - 1
    BY HeadTailProperties
  <1>3. DOMAIN t = 1..(Len(s) - 1)
    BY <1>2, LenProperties
  <1>4. \A k \in 1..(Len(s) - 1) : t[k] = s[k + 1] /\ k + 1 \in DOMAIN s /\ k + 1 # 1
    BY <1>1, HeadTailProperties
  <1> HIDE DEF t
  <1>5. 1 \in DOMAIN s
    BY <1>1
  <1>6. \A j, k \in DOMAIN t : t[j] = t[k] => j = k
    <2> SUFFICES ASSUME NEW j \in 1..(Len(s) - 1), NEW k \in 1..(Len(s) - 1), t[j] = t[k]
                 PROVE  j = k
      BY <1>3
    <2>1. s[j + 1] = s[k + 1] /\ j + 1 \in DOMAIN s /\ k + 1 \in DOMAIN s
      BY <1>4
    <2>2. j + 1 = k + 1
      BY <2>1
    <2> QED
      BY <2>2
  <1>7. Claims(Head(s), e) => ~Claimed(e, t)
    <2> SUFFICES ASSUME Claims(s[1], e), NEW k \in DOMAIN t, Claims(t[k], e)
                 PROVE  FALSE
      BY <1>2 DEF Claimed
    <2>1. e.path \in Paths
      BY DEF Entry
    <2>2. s[1] = t[k]
      BY <2>1, ClaimsOnce
    <2>3. t[k] = s[k + 1] /\ k + 1 \in DOMAIN s /\ k + 1 # 1
      BY <1>3, <1>4
    <2> QED
      BY <1>5, <2>2, <2>3
  <1>8. Claimed(e, s) => Claims(Head(s), e) \/ Claimed(e, t)
    <2> SUFFICES ASSUME NEW m \in DOMAIN s, Claims(s[m], e), m # 1
                 PROVE  Claimed(e, t)
      BY <1>2 DEF Claimed
    <2>1. m - 1 \in 1..(Len(s) - 1) /\ (m - 1) + 1 = m
      BY <1>1
    <2>2. t[m - 1] = s[m]
      BY <1>4, <2>1
    <2> QED
      BY <1>3, <2>1, <2>2 DEF Claimed
  <1>9. Claims(Head(s), e) \/ Claimed(e, t) => Claimed(e, s)
    <2>1. Claims(Head(s), e) => Claimed(e, s)
      BY <1>2, <1>5 DEF Claimed
    <2>2. ASSUME NEW k \in DOMAIN t, Claims(t[k], e)
          PROVE  Claimed(e, s)
      <3>1. t[k] = s[k + 1] /\ k + 1 \in DOMAIN s
        BY <1>3, <1>4
      <3> QED
        BY <2>2, <3>1 DEF Claimed
    <2> QED
      BY <2>1, <2>2 DEF Claimed
  <1> QED
    BY <1>2, <1>3, <1>4, <1>5, <1>6, <1>7, <1>8, <1>9 DEF t

LEMMA CourseBegins ==
  ASSUME Init
  PROVE  Course
  <1>1. OnlyResources
    BY DEF Init, OnlyResources
  <1>2. Going
    <2>1. AllSound(traversal, Conf)
      BY DEF Init, AllSound
    <2>2. pc = "enter" /\ result = "ok" /\ status = "ok" /\ entry = <<>> /\ traversal = <<>> /\ output = <<>>
      BY DEF Init
    <2> QED
      BY <2>1, <2>2 DEF Going
  <1> QED
    BY <1>1, <1>2 DEF Init, Course

LEMMA EnterCourse ==
  ASSUME NEW height \in [Paths -> Nat], Regular(height), TypeOK, Course, Enter
  PROVE  Course'
  <1>1. pc = "enter" /\ result = "ok" /\ Going
    BY DEF Enter, Course
  <1>2. entry = <<>> /\ RegularPass(Conf)
    BY <1>1, Standing DEF TypeOK
  <1> DEFINE d == PathEntry(passes[pass].root, {"traverse"})
             n == New(d)
  <1>3. n.item = "Path" /\ n.flags = {"traverse"}
    BY DEF New, PathEntry
  <1> HIDE DEF n
  <1>4. traversal' = <<n>>
    <2>1. traversal = <<>> /\ traversal' = traversal \o <<n>>
      BY <1>1 DEF Enter, Going, n
    <2> QED
      BY <2>1
  <1>5. pc' = "pop" /\ result' = result /\ status' = status /\ entry' = entry /\ Conf' = Conf
        /\ index' = index /\ output' = output
    BY DEF Enter, Conf
  <1>6. OnlyResources'
    BY <1>5 DEF Course, OnlyResources
  <1>7. AllSound(traversal', Conf') /\ \A k \in DOMAIN traversal' : "index" \notin traversal'[k].flags
    BY <1>3, <1>4 DEF AllSound, Sound
  <1>8. Going'
    BY <1>1, <1>2, <1>5, <1>7 DEF Going
  <1> QED
    BY <1>1, <1>5, <1>6, <1>8 DEF Course

LEMMA PopCourse ==
  ASSUME NEW height \in [Paths -> Nat], Regular(height), TypeOK, Course, PopEntry
  PROVE  Course'
  <1>1. pc = "pop" /\ result = "ok" /\ Going /\ traversal # <<>>
    BY DEF PopEntry, Course
  <1> DEFINE e == traversal[Len(traversal)]
             f == SubSeq(traversal, 1, Len(traversal) - 1)
  <1>2. Len(traversal) \in Nat \ {0} /\ DOMAIN traversal = 1..Len(traversal) /\ traversal \in Seq(Entry)
    BY <1>1, LenProperties, EmptySeq DEF TypeOK
  <1>3. e \in Entry /\ Sound(e, Conf)
    BY <1>1, <1>2, Standing DEF Going, AllSound
  <1>4. f \in Seq(Entry) /\ DOMAIN f \subseteq DOMAIN traversal /\ \A k \in DOMAIN f : f[k] = traversal[k]
    <2>1. \A k \in 1..Len(traversal) : traversal[k] \in Entry
      BY <1>2, Standing
    <2>2. f \in Seq(Entry) /\ Len(f) = Len(traversal) - 1 /\ \A k \in 1..(Len(traversal) - 1) : f[k] = traversal[k]
      BY <1>2, <2>1, SubSeqProperties
    <2>3. DOMAIN f = 1..(Len(traversal) - 1)
      BY <2>2, LenProperties
    <2> QED
      BY <1>2, <2>2, <2>3
  <1>5. AllSound(f, Conf)
    BY <1>1, <1>4 DEF Going, AllSound
  <1>6. /\ entry' = <<e>> /\ traversal' = f /\ retain' = ("index" \in e.flags)
        /\ result' = result /\ status' = status /\ handled' = handled /\ Conf' = Conf
        /\ index' = index /\ output' = output
        /\ IF "traverse" \in e.flags
           THEN pc' = "index" /\ group' = "main" /\ todo' = Conf.main
           ELSE pc' = "keep"
    BY DEF PopEntry, Conf
  <1>7. handled => "index" \notin e.flags
    BY <1>1, <1>2 DEF Going
  <1> HIDE DEF e, f
  <1>8. entry'[1] = e /\ entry' # <<>>
    BY <1>6
  <1>9. OnlyResources'
    BY <1>6 DEF Course, OnlyResources
  <1>10. pc' = "index" => Indexing(entry[1])'
    <2> SUFFICES ASSUME pc' = "index"
                 PROVE  Indexing(entry[1])'
      OBVIOUS
    <2>1. "traverse" \in e.flags /\ group' = "main" /\ todo' = Conf.main
      BY <1>6
    <2>2. RegularPass(Conf)
      BY Standing
    <2>3. MainGroup(entry[1])'
      BY <1>6, <1>8, <2>1, <2>2 DEF MainGroup, Has, RegularPass
    <2> QED
      BY <1>6, <1>7, <1>8, <2>1, <2>3 DEF Indexing
  <1>11. pc' \in {"index", "keep"}
    BY <1>6
  <1>12. Going'
    BY <1>1, <1>3, <1>5, <1>6, <1>8, <1>10, <1>11 DEF Going
  <1> QED
    BY <1>1, <1>6, <1>9, <1>12 DEF Course

LEMMA DoneCourse ==
  ASSUME NEW height \in [Paths -> Nat], Regular(height), TypeOK, Course, TraversalDone
  PROVE  Course'
  <1>1. pc = "pop" /\ result = "ok" /\ Going /\ traversal = <<>>
    BY DEF TraversalDone, Course
  <1>2. /\ pc' = "display" /\ result' = result /\ status' = status /\ Conf' = Conf /\ retain' = retain
        /\ index' = index /\ output' = output /\ traversal' = traversal /\ entry' = entry
    BY DEF TraversalDone, Conf, sinks
  <1>3. OnlyResources'
    BY <1>2 DEF Course, OnlyResources
  <1>4. Going'
    BY <1>1, <1>2 DEF Going
  <1> QED
    BY <1>1, <1>2, <1>3, <1>4 DEF Course

-----------------------------------------------------------------------------
(***************************************************************************)
(* The four things that an indexer that does not fail may do.               *)
(***************************************************************************)
Embeds(e) == FS[e.path].kind = "file" /\ FS[e.path].size = "normal"

Taken(e) ==
  /\ group = "main" /\ Claims(Head(todo), e)
  /\ handled' = TRUE /\ retain' = FALSE /\ work' = Offer(e)

PassedOn(e) ==
  /\ group = "main" /\ ~Claims(Head(todo), e)
  /\ retain' = retain /\ (handled' => ~retain') /\ work' = <<>>

EmbedsIt(e) ==
  /\ group = "final" /\ Embeds(e)
  /\ handled' = TRUE /\ retain' = FALSE /\ work' = <<ValueEntry(e.path, "Embedded")>>

LeavesIt(e) ==
  /\ group = "final" /\ ~Embeds(e)
  /\ handled' = FALSE /\ retain' = retain /\ work' = <<>>

Ran(e) ==
  /\ result' = "ok" /\ status' = "ok" /\ seen' = {} /\ todo' = Tail(todo)
  /\ pc' = (IF work' = <<>> THEN "index" ELSE "create")
  /\ Taken(e) \/ PassedOn(e) \/ EmbedsIt(e) \/ LeavesIt(e)

\* What is known of the current entry while indexers run.
LEMMA Current ==
  ASSUME NEW height \in [Paths -> Nat], Regular(height), TypeOK, Course,
         pc \in {"index", "create"}
  PROVE  /\ result = "ok" /\ Going /\ RegularPass(Conf)
         /\ entry[1] \in Entry /\ entry[1].path \in Paths /\ Sound(entry[1], Conf)
         /\ "traverse" \in entry[1].flags /\ (retain => "index" \in entry[1].flags)
         /\ entry # <<>> /\ (handled => ~retain)
         /\ todo \in Seq(Indexers) /\ group \in {"main", "final"}
         /\ group = "main" => MainGroup(entry[1])
         /\ group = "final" => FinalGroup(entry[1])
         /\ pc = "create" => Creating(entry[1])
         /\ handled \in BOOLEAN /\ retain \in BOOLEAN
  <1>1. result = "ok" /\ Going
    BY DEF Course
  <1>2. Len(entry) = 1
    BY DEF TypeOK
  <1>3. entry[1] \in Entry /\ entry # <<>> /\ RegularPass(Conf)
    BY <1>2, Standing
  <1>4. entry[1].path \in Paths
    BY <1>3 DEF Entry
  <1>5. Indexing(entry[1]) /\ (pc = "create" => Creating(entry[1]))
    BY <1>1 DEF Going
  <1> QED
    BY <1>1, <1>3, <1>4, <1>5 DEF Going, Indexing, TypeOK

LEMMA RunIs ==
  ASSUME NEW height \in [Paths -> Nat], Regular(height), TypeOK, Course, RunIndexer
  PROVE  \/ result' = "failed" /\ pc' = "drain"
         \/ Ran(entry[1])
  <1> DEFINE e == entry[1]
             i == Head(todo)
  <1>1. pc = "index" /\ todo # <<>>
    BY DEF RunIndexer
  <1>2. /\ e \in Entry /\ e.path \in Paths /\ Sound(e, Conf) /\ "traverse" \in e.flags
        /\ (retain => "index" \in e.flags) /\ (handled => ~retain)
        /\ todo \in Seq(Indexers) /\ group \in {"main", "final"} /\ status = "ok"
        /\ (group = "main" => MainGroup(e)) /\ (group = "final" => FinalGroup(e))
        /\ handled \in BOOLEAN /\ retain \in BOOLEAN /\ RegularPass(Conf)
    BY <1>1, Current DEF Going
  <1>3. PICK o \in IndexerStep(i, e, handled, "ok") :
          /\ handled' = o.handled /\ status' = o.status /\ result' = o.result
          /\ work' = o.new /\ seen' = {}
          /\ IF o.result = "failed" THEN pc' = "drain"
             ELSE /\ pc' = (IF o.new = <<>> THEN "index" ELSE "create")
                  /\ retain' = (retain /\ ~o.handled)
                  /\ todo' = Tail(todo)
    BY <1>2 DEF RunIndexer, Retains
  <1>4. CASE o.result = "failed"
    BY <1>3, <1>4
  <1>5. CASE o.result # "failed" /\ group = "main"
    <2>1. i = todo[1] /\ 1 \in DOMAIN todo
      BY <1>1, <1>2, ClaimedRest DEF MainGroup
    <2>2. Has(Conf, i)
      BY <1>2, <1>5, <2>1 DEF MainGroup
    <2>3. i \in Indexers /\ i # "embedfiles"
      BY <1>2, <2>2, MainMembers
    <2>4. Leaves(o, i, e, handled)
      <3> HIDE DEF e, i
      <3> QED
        BY <1>2, <1>3, <1>5, <2>3, MainStep
    <2> HIDE DEF e, i
    <2>5. CASE Claims(i, e)
      <3>1. handled' = TRUE /\ work' = Offer(e) /\ result' = "ok" /\ status' = "ok"
        BY <1>3, <2>4, <2>5 DEF Leaves
      <3>2. retain' = FALSE
        BY <1>2, <1>3, <1>5, <2>4, <2>5, Zenon DEF Leaves
      <3>3. Taken(e)
        BY <1>5, <2>5, <3>1, <3>2 DEF Taken, i
      <3> QED
        BY <1>3, <1>5, <3>1, <3>3 DEF Ran, e
    <2>6. CASE ~Claims(i, e)
      <3>1. work' = <<>> /\ result' = "ok" /\ status' = "ok"
        BY <1>3, <2>4, <2>6 DEF Leaves
      <3>2. handled' = o.handled /\ retain' = (retain /\ ~o.handled) /\ (o.handled => handled \/ "index" \notin e.flags)
        BY <1>3, <1>5, <2>4, <2>6, Zenon DEF Leaves
      <3>3. retain' = retain /\ (handled' => ~retain')
        BY <1>2, <3>2, Zenon
      <3>4. PassedOn(e)
        BY <1>5, <2>6, <3>1, <3>3 DEF PassedOn, i
      <3> QED
        BY <1>3, <1>5, <3>1, <3>4 DEF Ran, e
    <2> QED
      BY <2>5, <2>6
  <1>6. CASE o.result # "failed" /\ group = "final"
    <2>1. retain /\ todo = <<"embedfiles">> /\ ~Claimed(e, Conf.main)
      BY <1>1, <1>2, <1>6 DEF FinalGroup
    <2>2. i = "embedfiles" /\ Tail(todo) = <<>>
      BY <2>1
    <2>3. e.item = "Path"
      BY <1>2, <2>1, ClaimedIs
    <2>4. o \in IndexerStep("embedfiles", e, handled, "ok")
      BY <1>3, <2>2
    <2> HIDE DEF e, i
    <2>5. /\ o.result = "ok" /\ o.status = "ok"
          /\ IF FS[e.path].kind = "file" /\ FS[e.path].size = "normal"
             THEN o.handled = TRUE /\ o.new = <<ValueEntry(e.path, "Embedded")>>
             ELSE o.handled = FALSE /\ o.new = <<>>
      BY <1>2, <1>6, <2>3, <2>4, FinalStep
    <2>6. CASE Embeds(e)
      <3>1. o.handled = TRUE /\ o.new = <<ValueEntry(e.path, "Embedded")>>
        BY <2>5, <2>6 DEF Embeds
      <3>2. handled' = TRUE /\ retain' = FALSE
        BY <1>3, <1>6, <3>1, Zenon
      <3>3. EmbedsIt(e)
        BY <1>3, <1>6, <2>6, <3>1, <3>2 DEF EmbedsIt
      <3> QED
        BY <1>3, <1>6, <2>5, <3>3 DEF Ran, e
    <2>7. CASE ~Embeds(e)
      <3>1. o.handled = FALSE /\ o.new = <<>>
        BY <2>5, <2>7 DEF Embeds
      <3>2. handled' = FALSE /\ retain' = retain
        BY <1>2, <1>3, <1>6, <2>1, <3>1, Zenon
      <3>3. LeavesIt(e)
        BY <1>3, <1>6, <2>7, <3>1, <3>2 DEF LeavesIt
      <3> QED
        BY <1>3, <1>6, <2>5, <3>3 DEF Ran, e
    <2> QED
      BY <2>6, <2>7
  <1> QED
    BY <1>2, <1>4, <1>5, <1>6

LEMMA RunKeeps ==
  ASSUME RunIndexer
  PROVE  /\ passes' = passes /\ pass' = pass /\ Conf' = Conf /\ traversal' = traversal
         /\ index' = index /\ output' = output /\ entry' = entry /\ group' = group /\ lost' = lost
  BY DEF RunIndexer, sinks, Conf

LEMMA RunCourse ==
  ASSUME NEW height \in [Paths -> Nat], Regular(height), TypeOK, Course, RunIndexer
  PROVE  Course'
  <1> DEFINE e == entry[1]
  <1>1. pc = "index" /\ todo # <<>>
    BY DEF RunIndexer
  <1>2. /\ e \in Entry /\ e.path \in Paths /\ Sound(e, Conf) /\ "traverse" \in e.flags
        /\ (retain => "index" \in e.flags) /\ RegularPass(Conf)
        /\ todo \in Seq(Indexers) /\ group \in {"main", "final"} /\ Going
        /\ (group = "main" => MainGroup(e)) /\ (group = "final" => FinalGroup(e))
        /\ retain \in BOOLEAN
    BY <1>1, Current
  <1>3. OnlyResources'
    BY RunKeeps DEF Course, OnlyResources
  <1>4. CASE result' = "failed" /\ pc' = "drain"
    BY <1>3, <1>4 DEF Course
  <1>5. CASE Ran(e)
    <2>1. /\ result' = "ok" /\ status' = "ok" /\ todo' = Tail(todo) /\ pc' = (IF work' = <<>> THEN "index" ELSE "create")
          /\ Taken(e) \/ PassedOn(e) \/ EmbedsIt(e) \/ LeavesIt(e)
      BY <1>5 DEF Ran
    <2>2. entry'[1] = e /\ Conf' = Conf /\ group' = group
      BY RunKeeps
    <2> HIDE DEF e
    <2>3. handled' => ~retain'
      BY <2>1, Zenon DEF Taken, PassedOn, EmbedsIt, LeavesIt
    <2>4. retain' => retain
      BY <2>1, Zenon DEF Taken, PassedOn, EmbedsIt, LeavesIt
    <2>5. ASSUME group = "main"
          PROVE  MainGroup(entry[1])' /\ (work' # <<>> => Creating(entry[1])')
      <3>1. Taken(e) \/ PassedOn(e)
        BY <2>1, <2>5 DEF EmbedsIt, LeavesIt
      <3>2. MainGroup(e)
        BY <1>2, <2>5
      <3>3. /\ Head(todo) = todo[1] /\ 1 \in DOMAIN todo
            /\ \A n \in DOMAIN Tail(todo) : \E m \in DOMAIN todo : Tail(todo)[n] = todo[m]
            /\ \A j, k \in DOMAIN Tail(todo) : Tail(todo)[j] = Tail(todo)[k] => j = k
            /\ Claims(Head(todo), e) => ~Claimed(e, Tail(todo))
            /\ Claimed(e, todo) <=> Claims(Head(todo), e) \/ Claimed(e, Tail(todo))
        BY <1>1, <1>2, <3>2, ClaimedRest DEF MainGroup
      <3>4. \A n \in DOMAIN Tail(todo) : Has(Conf, Tail(todo)[n])
        BY <3>2, <3>3 DEF MainGroup
      <3>5. retain' /\ Claimed(e, Conf.main) => Claimed(e, Tail(todo))
        BY <2>4, <3>1, <3>2, <3>3, Zenon DEF MainGroup, Taken, PassedOn
      <3>6. MainGroup(entry[1])'
        BY <2>1, <2>2, <3>3, <3>4, <3>5 DEF MainGroup
      <3>7. ASSUME work' # <<>>
            PROVE  Creating(entry[1])'
        <4>1. Claims(Head(todo), e) /\ retain' = FALSE /\ work' = Offer(e)
          BY <3>1, <3>7 DEF Taken, PassedOn
        <4>2. Has(Conf, Head(todo))
          BY <3>2, <3>3 DEF MainGroup
        <4>3. Claimed(e, Conf.main)
          BY <4>1, <4>2 DEF Claimed, Has
        <4>4. /\ AllSound(Offer(e), Conf)
              /\ MayLose(e.item) => \A k \in DOMAIN Offer(e) : Offer(e)[k] = ValueEntry(e.path, "String")
          BY <1>2, <4>3, OfferYields
        <4>5. ~Claimed(e, todo') /\ ~retain'
          BY <2>1, <3>3, <4>1
        <4> QED
          BY <2>2, <4>1, <4>4, <4>5 DEF Creating
      <3> QED
        BY <3>6, <3>7
    <2>6. ASSUME group = "final"
          PROVE  FinalGroup(entry[1])' /\ (work' # <<>> => Creating(entry[1])')
      <3>1. EmbedsIt(e) \/ LeavesIt(e)
        BY <2>1, <2>6 DEF Taken, PassedOn
      <3>2. retain /\ todo = <<"embedfiles">> /\ ~Claimed(e, Conf.main)
        BY <1>1, <1>2, <2>6 DEF FinalGroup
      <3>3. todo' = <<>>
        BY <2>1, <3>2
      <3>4. ~retain' \/ ~Embeds(e)
        BY <3>1, Zenon DEF EmbedsIt, LeavesIt
      <3>5. FinalGroup(entry[1])'
        BY <2>2, <3>2, <3>3, <3>4 DEF FinalGroup, Embeds
      <3>6. ASSUME work' # <<>>
            PROVE  Creating(entry[1])'
        <4> DEFINE v == ValueEntry(e.path, "Embedded")
        <4>1. retain' = FALSE /\ work' = <<v>>
          BY <3>1, <3>6 DEF EmbedsIt, LeavesIt
        <4>2. v.item = "Embedded" /\ v.flags = {"index"}
          BY DEF ValueEntry
        <4> HIDE DEF v
        <4>3. AllSound(work', Conf')
          BY <4>1, <4>2 DEF AllSound, Sound
        <4>4. ~MayLose(e.item)
          BY <1>2, <3>2, ClaimedIs DEF MayLose, ResetsStatus, OverwritesResult
        <4>5. group' # "main"
          BY <2>2, <2>6
        <4> QED
          BY <2>2, <4>1, <4>3, <4>4, <4>5 DEF Creating
      <3> QED
        BY <3>5, <3>6
    <2>7. Indexing(entry[1])'
      BY <1>2, <2>2, <2>3, <2>5, <2>6 DEF Indexing
    <2>8. pc' = "create" => Creating(entry[1])'
      BY <1>2, <2>1, <2>5, <2>6
    <2>9. Going'
      <3>1. AllSound(traversal', Conf')
        BY <1>2, RunKeeps DEF Going
      <3>2. Sound(entry'[1], Conf') /\ (retain' => "index" \in entry'[1].flags)
        BY <1>2, <2>2, <2>4
      <3>3. pc' \in {"index", "create"}
        BY <2>1
      <3> QED
        BY <2>1, <2>7, <2>8, <3>1, <3>2, <3>3 DEF Going
    <2> QED
      BY <1>3, <2>1, <2>9 DEF Course
  <1> QED
    BY <1>4, <1>5, RunIs

LEMMA WorkIs ==
  ASSUME TypeOK, pc = "create"
  PROVE  /\ work \in Seq(Draft) /\ work # <<>> /\ Head(work) = work[1] /\ Head(work) \in Draft
         /\ 1 \in DOMAIN work /\ Tail(work) \in Seq(Draft)
         /\ \A k \in DOMAIN Tail(work) : k + 1 \in DOMAIN work /\ Tail(work)[k] = work[k + 1]
         /\ Skipped(Head(work)) <=> Dropped(work, 1, entry[1].item, seen)
  <1>1. work \in Seq(Draft) /\ work # <<>>
    BY DEF TypeOK
  <1>2. /\ Len(work) - 1 \in Nat /\ Len(work) = (Len(work) - 1) + 1 /\ DOMAIN work = 1..Len(work)
        /\ Head(work) = work[1] /\ Head(work) \in Draft
        /\ Tail(work) \in Seq(Draft) /\ DOMAIN Tail(work) = 1..(Len(work) - 1)
        /\ \A k \in 1..(Len(work) - 1) : Tail(work)[k] = work[k + 1]
    BY <1>1, TailIs
  <1>3. \A k \in DOMAIN Tail(work) : k + 1 \in DOMAIN work
    BY <1>2
  <1>4. 1 \in DOMAIN work
    BY <1>2
  <1>5. Skipped(Head(work)) <=> Dropped(work, 1, entry[1].item, seen)
    <2>1. ~ \E j \in 1..(1 - 1) : work[j].path = work[1].path
      OBVIOUS
    <2> QED
      BY <1>2, <2>1 DEF Skipped, Dropped
  <1> QED
    BY <1>1, <1>2, <1>3, <1>4, <1>5

\* The rest of the drafts, once one has been created or skipped.
LEMMA DraftsGoOn ==
  ASSUME NEW height \in [Paths -> Nat], Regular(height), TypeOK, Course, pc = "create",
         work' = Tail(work), LoopOn,
         Conf' = Conf, entry' = entry, group' = group, todo' = todo,
         handled' = handled, retain' = retain
  PROVE  /\ pc' \in {"index", "create"} /\ (pc' = "index" <=> work' = <<>>)
         /\ Indexing(entry[1])' /\ (pc' = "create" => Creating(entry[1])')
  <1> DEFINE e == entry[1]
  <1>1. /\ Going /\ (group = "main" => MainGroup(e)) /\ (group = "final" => FinalGroup(e))
        /\ Creating(e) /\ "traverse" \in e.flags /\ (handled => ~retain)
    BY Current
  <1>2. pc' \in {"index", "create"} /\ (pc' = "index" <=> work' = <<>>)
    BY DEF LoopOn
  <1>3. entry'[1] = e
    OBVIOUS
  <1> HIDE DEF e
  <1>4. group' = "main" => MainGroup(entry[1])'
    BY <1>1, <1>3 DEF MainGroup
  <1>5. group' = "final" => FinalGroup(entry[1])'
    BY <1>1, <1>3 DEF FinalGroup
  <1>6. Indexing(entry[1])'
    BY <1>1, <1>3, <1>4, <1>5 DEF Indexing
  <1>7. Creating(entry[1])'
    <2>1. \A k \in DOMAIN Tail(work) : k + 1 \in DOMAIN work /\ Tail(work)[k] = work[k + 1]
      BY WorkIs
    <2>2. AllSound(work', Conf')
      BY <1>1, <2>1 DEF Creating, AllSound
    <2>3. MayLose(e.item) => \A k \in DOMAIN work' : work'[k] = ValueEntry(e.path, "String")
      BY <1>1, <2>1 DEF Creating
    <2> QED
      BY <1>1, <1>3, <2>2, <2>3 DEF Creating
  <1> QED
    BY <1>2, <1>6, <1>7

LEMMA CreateCourse ==
  ASSUME NEW height \in [Paths -> Nat], Regular(height), TypeOK, Course, CreateEntry
  PROVE  Course'
  <1>1. pc = "create"
    BY DEF CreateEntry
  <1> DEFINE d == Head(work)
             n == New(d)
  <1>2. /\ traversal' = Append(traversal, n) /\ work' = Tail(work) /\ LoopOn
        /\ Conf' = Conf /\ entry' = entry /\ group' = group /\ todo' = todo
        /\ handled' = handled /\ retain' = retain /\ result' = result /\ status' = status
        /\ index' = index /\ output' = output
    BY DEF CreateEntry, Conf
  <1>3. /\ pc' \in {"index", "create"} /\ Indexing(entry[1])' /\ (pc' = "create" => Creating(entry[1])')
    BY <1>1, <1>2, DraftsGoOn
  <1>4. result = "ok" /\ Going /\ entry # <<>> /\ Creating(entry[1])
    BY <1>1, Current
  <1>5. OnlyResources'
    BY <1>2 DEF Course, OnlyResources
  <1>6. AllSound(traversal', Conf')
    <2>1. d \in Draft /\ 1 \in DOMAIN work /\ d = work[1]
      BY <1>1, WorkIs
    <2>2. Sound(d, Conf)
      BY <1>4, <2>1 DEF Creating, AllSound
    <2>3. n \in Entry /\ n.path = d.path /\ n.item = d.item /\ n.flags = d.flags
      BY <2>1 DEF New, Draft, Entry, TypeOK
    <2>4. Sound(n, Conf)
      BY <2>2, <2>3, YieldOf
    <2>5. traversal \in Seq(Entry) /\ AllSound(traversal, Conf)
      BY <1>4 DEF TypeOK, Going
    <2> HIDE DEF n, d
    <2>6. DOMAIN traversal' = 1..(Len(traversal) + 1) /\ DOMAIN traversal = 1..Len(traversal) /\ Len(traversal) \in Nat
      BY <1>2, <2>3, <2>5, LenProperties, AppendProperties
    <2>7. ASSUME NEW k \in DOMAIN traversal'
          PROVE  Sound(traversal'[k], Conf)
      <3>1. CASE k = Len(traversal) + 1
        <4>1. traversal'[k] = n
          BY <1>2, <2>3, <2>5, <3>1
        <4> QED
          BY <2>4, <4>1
      <3>2. CASE k # Len(traversal) + 1
        <4>1. k \in DOMAIN traversal
          BY <2>6, <3>2
        <4>2. traversal'[k] = traversal[k]
          BY <1>2, <2>3, <2>5, <2>6, <4>1
        <4> QED
          BY <2>5, <4>1, <4>2 DEF AllSound
      <3> QED
        BY <3>1, <3>2
    <2> QED
      BY <1>2, <2>7 DEF AllSound
  <1>7. Going'
    BY <1>2, <1>3, <1>4, <1>6 DEF Going
  <1> QED
    BY <1>2, <1>4, <1>5, <1>7 DEF Course

LEMMA SkipCourse ==
  ASSUME NEW height \in [Paths -> Nat], Regular(height), TypeOK, Course, SkipDraft \/ LoseDraft
  PROVE  Course'
  <1>1. pc = "create"
    BY DEF SkipDraft, LoseDraft
  <1>2. /\ traversal' = traversal /\ work' = Tail(work) /\ LoopOn
        /\ Conf' = Conf /\ entry' = entry /\ group' = group /\ todo' = todo
        /\ handled' = handled /\ retain' = retain /\ result' = result /\ status' = status
        /\ index' = index /\ output' = output
    BY DEF SkipDraft, LoseDraft, Conf, sinks
  <1>3. /\ pc' \in {"index", "create"} /\ Indexing(entry[1])' /\ (pc' = "create" => Creating(entry[1])')
    BY <1>1, <1>2, DraftsGoOn
  <1>4. result = "ok" /\ Going /\ entry # <<>>
    BY <1>1, Current
  <1>5. OnlyResources'
    BY <1>2 DEF Course, OnlyResources
  <1>6. Going'
    BY <1>2, <1>3, <1>4 DEF Going
  <1> QED
    BY <1>2, <1>4, <1>5, <1>6 DEF Course

LEMMA FailCourse ==
  ASSUME Course, CreationFails \/ Drain
  PROVE  Course'
  <1>1. OnlyResources'
    BY DEF Course, OnlyResources, CreationFails, Drain, sinks
  <1>2. CASE CreationFails
    BY <1>1, <1>2 DEF CreationFails, Course
  <1>3. CASE Drain
    <2>1. result # "ok"
      BY <1>3 DEF Drain, Course, Going
    <2> QED
      BY <1>1, <1>3, <2>1 DEF Drain, Course
  <1> QED
    BY <1>2, <1>3

LEMMA EndCourse ==
  ASSUME NEW height \in [Paths -> Nat], Regular(height), TypeOK, Course, EndGroup
  PROVE  Course'
  <1> DEFINE e == entry[1]
  <1>1. pc = "index" /\ todo = <<>>
    BY DEF EndGroup
  <1>2. /\ result = "ok" /\ Going /\ RegularPass(Conf) /\ Sound(e, Conf) /\ "traverse" \in e.flags
        /\ (retain => "index" \in e.flags) /\ entry # <<>> /\ (handled => ~retain)
        /\ (group = "main" => MainGroup(e))
    BY <1>1, Current
  <1>3. /\ Conf' = Conf /\ entry' = entry /\ handled' = handled /\ retain' = retain /\ result' = result
        /\ status' = status /\ index' = index /\ output' = output /\ traversal' = traversal
        /\ \/ group = "main" /\ retain /\ group' = "final" /\ todo' = Conf.final /\ pc' = "index"
           \/ pc' = "keep"
    BY <1>1 DEF EndGroup, FinalGroupDue, Conf, sinks
  <1>4. OnlyResources'
    BY <1>3 DEF Course, OnlyResources
  <1>5. CASE pc' = "keep"
    <2>1. Going'
      BY <1>2, <1>3, <1>5 DEF Going
    <2> QED
      BY <1>2, <1>3, <1>4, <2>1 DEF Course
  <1>6. CASE group = "main" /\ retain /\ group' = "final" /\ todo' = Conf.final /\ pc' = "index"
    <2>1. ~Claimed(e, todo)
      BY <1>1 DEF Claimed
    <2>2. ~Claimed(e, Conf.main)
      BY <1>2, <1>6, <2>1 DEF MainGroup
    <2>3. FinalGroup(entry[1])'
      BY <1>2, <1>3, <1>6, <2>2 DEF FinalGroup, RegularPass
    <2>4. Indexing(entry[1])'
      BY <1>2, <1>3, <1>6, <2>3 DEF Indexing
    <2>5. Going'
      BY <1>2, <1>3, <1>6, <2>4 DEF Going
    <2> QED
      BY <1>2, <1>3, <1>4, <2>5 DEF Course
  <1> QED
    BY <1>3, <1>5, <1>6

LEMMA KeepCourse ==
  ASSUME NEW height \in [Paths -> Nat], Regular(height), TypeOK, Course, KeepEntry
  PROVE  Course'
  <1> DEFINE e == entry[1]
  <1>1. pc = "keep" /\ result = "ok" /\ Going
    BY DEF KeepEntry, Course
  <1>2. entry = <<e>> /\ e \in Entry /\ entry # <<>>
    BY <1>1, Standing DEF TypeOK
  <1>3. retain => e.item \notin Containers
    <2>1. Sound(e, Conf) /\ (retain => "index" \in e.flags)
      BY <1>1, <1>2 DEF Going
    <2>2. "Path" \notin Containers /\ "String" \notin Containers /\ "Embedded" \notin Containers
      BY DEF Containers
    <2> QED
      BY <2>1, <2>2 DEF Sound
  <1>4. /\ Conf' = Conf /\ entry' = <<>> /\ handled' = FALSE /\ result' = result /\ pc' = "pop"
        /\ status' = status /\ traversal' = traversal
    BY DEF KeepEntry, Conf
  <1>5. ASSUME NEW s \in Seq(Entry), \A k \in DOMAIN s : s[k].item \notin Containers, retain
        PROVE  \A k \in DOMAIN (s \o entry) : (s \o entry)[k].item \notin Containers
    <2> DEFINE u == s \o <<e>>
    <2>1. <<e>> \in Seq(Entry) /\ Len(<<e>>) = 1 /\ <<e>>[1] = e
      BY <1>2
    <2>2. Len(s) \in Nat /\ DOMAIN s = 1..Len(s) /\ u \in Seq(Entry) /\ Len(u) = Len(s) + 1
      BY <2>1, LenProperties, ConcatProperties
    <2>3. DOMAIN u = 1..(Len(s) + 1)
      BY <2>2, LenProperties
    <2>4. \A k \in 1..Len(s) : u[k] = s[k]
      BY <2>1, <2>2, ConcatProperties
    <2>5. u[Len(s) + 1] = e
      BY <2>1, <2>2, ConcatProperties
    <2> HIDE DEF u, e
    <2>6. ASSUME NEW k \in DOMAIN u
          PROVE  u[k].item \notin Containers
      <3>1. CASE k = Len(s) + 1
        BY <1>3, <1>5, <2>5, <3>1
      <3>2. CASE k # Len(s) + 1
        <4>1. k \in DOMAIN s
          BY <2>2, <2>3, <3>2
        <4> QED
          BY <1>5, <2>2, <2>4, <4>1
      <3> QED
        BY <3>1, <3>2
    <2> QED
      BY <1>2, <2>6 DEF u
  <1>6. \/ index' = index /\ output' = output
        \/ retain /\ index' = index /\ output' = output \o entry
        \/ retain /\ index' = index \o entry /\ output' = output
    BY DEF KeepEntry
  <1>7. /\ index \in Seq(Entry) /\ output \in Seq(Entry)
        /\ \A k \in DOMAIN index : index[k].item \notin Containers
        /\ \A k \in DOMAIN output : output[k].item \notin Containers
    BY DEF TypeOK, Course, OnlyResources
  <1>8. /\ \A k \in DOMAIN index' : index'[k].item \notin Containers
        /\ \A k \in DOMAIN output' : output'[k].item \notin Containers
    <2> HIDE DEF e
    <2>1. CASE index' = index /\ output' = output
      BY <1>7, <2>1
    <2>2. CASE retain /\ index' = index /\ output' = output \o entry
      BY <1>5, <1>7, <2>2
    <2>3. CASE retain /\ index' = index \o entry /\ output' = output
      BY <1>5, <1>7, <2>3
    <2> QED
      BY <1>6, <2>1, <2>2, <2>3
  <1>9. OnlyResources'
    BY <1>8 DEF OnlyResources
  <1>10. Going'
    BY <1>1, <1>4 DEF Going
  <1> QED
    BY <1>1, <1>4, <1>9, <1>10 DEF Course

LEMMA DisplayCourse ==
  ASSUME NEW height \in [Paths -> Nat], Regular(height), TypeOK, Course, DisplayQualifierInfo
  PROVE  Course'
  <1>1. pc = "display" /\ result = "ok" /\ Going
    BY DEF DisplayQualifierInfo, Course
  <1>2. entry = <<>>
    BY <1>1, Standing DEF TypeOK
  <1>3. /\ Conf' = Conf /\ entry' = entry /\ pc' = "close" /\ status' = status
        /\ index' = index /\ output' = output /\ traversal' = traversal
    BY DEF DisplayQualifierInfo, Conf, sinks
  <1>4. OnlyResources'
    BY <1>3 DEF Course, OnlyResources
  <1>5. Going'
    BY <1>1, <1>2, <1>3 DEF Going
  <1> QED
    BY <1>3, <1>4, <1>5 DEF Course

LEMMA CloseCourse ==
  ASSUME NEW height \in [Paths -> Nat], Regular(height), TypeOK, Course, ClosePass
  PROVE  Course'
  <1>1. pc = "close" /\ (result = "ok" => Going)
    BY DEF ClosePass, Course
  <1>2. entry = <<>> /\ pass \in 1..Len(passes) /\ Len(passes) \in Nat
    BY <1>1, Standing DEF TypeOK
  <1>3. /\ entry' = entry /\ status' = status /\ traversal' = traversal /\ result' = result /\ passes' = passes
        /\ output' = <<>> /\ handled' = handled
        /\ index' = IF result = "ok" THEN index \o Reverse(output) ELSE index
    BY DEF ClosePass
  <1>4. index \in Seq(Entry) /\ output \in Seq(Entry)
    BY DEF TypeOK
  <1>5. \A k \in DOMAIN index' : index'[k].item \notin Containers
    <2>1. CASE result # "ok"
      BY <1>3, <2>1 DEF Course, OnlyResources
    <2>2. CASE result = "ok"
      <3> DEFINE t == Reverse(output)
                 u == index \o t
      <3>1. t \in Seq(Entry) /\ DOMAIN t = DOMAIN output /\ DOMAIN output = 1..Len(output) /\ Len(output) \in Nat
        BY <1>4, ReverseOwns, LenProperties DEF Reverse
      <3>2. \A k \in DOMAIN t : \E j \in DOMAIN output : t[k] = output[j]
        <4>1. \A k \in 1..Len(output) : t[k] = output[Len(output) - k + 1]
          BY <3>1 DEF Reverse
        <4>2. \A k \in 1..Len(output) : Len(output) - k + 1 \in 1..Len(output)
          BY <3>1
        <4> HIDE DEF t
        <4> QED
          BY <3>1, <4>1, <4>2
      <3> HIDE DEF t
      <3>3. /\ u \in Seq(Entry) /\ Len(u) = Len(index) + Len(t) /\ Len(index) \in Nat /\ Len(t) \in Nat
            /\ DOMAIN index = 1..Len(index) /\ DOMAIN t = 1..Len(t) /\ DOMAIN u = 1..(Len(index) + Len(t))
        BY <1>4, <3>1, LenProperties, ConcatProperties
      <3>4. (\A k \in 1..Len(index) : u[k] = index[k]) /\ \A k \in 1..Len(t) : u[Len(index) + k] = t[k]
        BY <1>4, <3>1, <3>3, ConcatProperties
      <3> HIDE DEF u
      <3>5. ASSUME NEW k \in DOMAIN u
            PROVE  u[k].item \notin Containers
        <4>1. CASE k <= Len(index)
          <5>1. k \in DOMAIN index /\ u[k] = index[k]
            BY <3>3, <3>4, <4>1
          <5> QED
            BY <5>1 DEF Course, OnlyResources
        <4>2. CASE ~(k <= Len(index))
          <5>1. k - Len(index) \in DOMAIN t /\ Len(index) + (k - Len(index)) = k
            BY <3>3, <4>2
          <5>2. u[k] = t[k - Len(index)]
            BY <3>3, <3>4, <5>1
          <5>3. PICK j \in DOMAIN output : t[k - Len(index)] = output[j]
            BY <3>2, <5>1
          <5> QED
            BY <5>2, <5>3 DEF Course, OnlyResources
        <4> QED
          BY <4>1, <4>2
      <3> QED
        BY <1>3, <2>2, <3>5 DEF u, t
    <2> QED
      BY <2>1, <2>2
  <1>6. OnlyResources'
    <2>1. \A k \in DOMAIN output' : output'[k].item \notin Containers
      BY <1>3
    <2> QED
      BY <1>5, <2>1 DEF OnlyResources
  <1>7. CASE result # "ok"
    <2>1. pc' = "aborted"
      BY <1>7 DEF ClosePass
    <2> QED
      BY <1>3, <1>6, <1>7, <2>1 DEF Course
  <1>8. CASE result = "ok"
    <2>1. pc' \in {"enter", "finished"} /\ (pc' = "finished" => pass' = Len(passes))
      BY <1>2, <1>8 DEF ClosePass
    <2>2. traversal' = <<>> /\ status' = "ok"
      BY <1>1, <1>3, <1>8 DEF Going
    <2>3. AllSound(traversal', Conf')
      BY <2>2 DEF AllSound
    <2>4. Going'
      BY <1>2, <1>3, <2>1, <2>2, <2>3 DEF Going
    <2> QED
      BY <1>3, <1>6, <1>8, <2>4 DEF Course
  <1> QED
    BY <1>7, <1>8

LEMMA CourseStep ==
  ASSUME NEW height \in [Paths -> Nat], Regular(height), TypeOK, Course, [Next]_vars
  PROVE  Course'
  <1>1. CASE Step
    BY <1>1, EnterCourse, PopCourse, DoneCourse, RunCourse, CreateCourse, SkipCourse, FailCourse,
       EndCourse, KeepCourse, DisplayCourse, CloseCourse DEF Step
  <1>2. CASE UNCHANGED vars
    BY <1>2 DEF vars, sinks, loop, Course, OnlyResources, Going, Conf, AllSound, Indexing, Creating,
       MainGroup, FinalGroup
  <1> QED
    BY <1>1, <1>2 DEF Next, Terminated

-----------------------------------------------------------------------------
(***************************************************************************)
(* The balance: every step moves what a resource counts from what is to     *)
(* come to what there is, and only the string that the resw indexer leaves  *)
(* out is lost on the way.                                                  *)
(***************************************************************************)
LEMMA FoundTyped ==
  ASSUME NEW height \in [Paths -> Nat], Regular(height), NEW r, NEW conf, RegularPass(conf)
  PROVE  Found(r, conf) \in Nat
  <1>1. conf.root \in Paths
    BY DEF RegularPass, PassConfig
  <1>2. Inside(r, conf) \in [Paths -> Nat]
    BY <1>1, RegularFS, InsideIs
  <1> QED
    BY <1>1, <1>2, AtTyped DEF Found

LEMMA DueGrows ==
  ASSUME NEW height \in [Paths -> Nat], Regular(height), TypeOK, NEW r
  PROVE  /\ Total(Finds(r), pass) = Total(Finds(r), pass - 1) + Found(r, Conf)
         /\ Total(Finds(r), pass - 1) \in Nat /\ Found(r, Conf) \in Nat
  <1> DEFINE d == Finds(r)
             n == pass - 1
  <1>1. /\ DOMAIN passes = 1..Len(passes) /\ Len(passes) \in Nat /\ pass \in 1..Len(passes)
        /\ \A k \in 1..Len(passes) : RegularPass(passes[k])
    BY Standing
  <1>2. \A k \in 1..Len(passes) : d[k] = Found(r, passes[k]) /\ d[k] \in Nat
    BY <1>1, FoundTyped DEF Finds
  <1>3. n \in Nat /\ n + 1 = pass /\ n + 1 \in 1..Len(passes) /\ 1..(n + 1) \subseteq 1..Len(passes)
        /\ 1..n \subseteq 1..Len(passes)
    BY <1>1
  <1> HIDE DEF d, n
  <1>4. \A k \in 1..(n + 1) : d[k] \in Nat
    BY <1>2, <1>3
  <1>5. Total(d, n + 1) = Total(d, n) + d[n + 1]
    BY <1>3, <1>4, TotalMore
  <1>6. \A k \in 1..n : d[k] \in Nat
    BY <1>2, <1>3
  <1>7. Total(d, n) \in Nat
    BY <1>3, <1>6, TotalTyped
  <1>8. d[n + 1] = Found(r, Conf) /\ d[n + 1] \in Nat
    BY <1>1, <1>2, <1>3 DEF Conf
  <1> QED
    BY <1>3, <1>5, <1>7, <1>8 DEF d, n

\* The tally is made of numbers.
LEMMA TallyTyped ==
  ASSUME NEW height \in [Paths -> Nat], Regular(height), TypeOK, NEW r
  PROVE  /\ Occurrences(index, r) \in Nat /\ Occurrences(output, r) \in Nat
         /\ Yields(traversal, r, Conf) \in Nat /\ Share(r) \in Nat
         /\ Occurrences(lost, r) \in Nat
  <1>1. /\ index \in Seq(Entry) /\ output \in Seq(Entry) /\ traversal \in Seq(Entry)
        /\ work \in Seq(Draft) /\ lost \in Seq(Draft)
    BY DEF TypeOK
  <1>2. Occurrences(index, r) \in Nat /\ Occurrences(output, r) \in Nat /\ Occurrences(lost, r) \in Nat
    BY <1>1, PlacesFinite
  <1>3. Yields(traversal, r, Conf) \in Nat
    BY <1>1, YieldsTyped
  <1>4. CASE pc = "index"
    <2>1. entry[1] \in Entry
      BY <1>4, Standing DEF TypeOK
    <2>2. entry[1].path \in Paths
      BY <2>1 DEF Entry
    <2>3. Yield(entry[1], r, Conf) \in Nat
      BY <2>2, YieldTyped
    <2> QED
      BY <1>2, <1>3, <1>4, <2>3 DEF Share
  <1>5. CASE pc = "create"
    <2>1. Drafted(work, entry[1].item, seen, r, Conf) \in Nat
      BY <1>1, DraftedTyped
    <2> QED
      BY <1>2, <1>3, <1>5, <2>1 DEF Share
  <1>6. CASE pc \notin {"index", "create"}
    BY <1>2, <1>3, <1>6 DEF Share
  <1> QED
    BY <1>4, <1>5, <1>6

\* A step that changes neither the tally nor what is due.
LEMMA Kept ==
  ASSUME NEW r, Balanced(r), result = "ok", Tally(r)' = Tally(r), Due(r)' = Due(r), lost' = lost
  PROVE  Balanced(r)'
  BY DEF Balanced

LEMMA DueKept ==
  ASSUME NEW r, passes' = passes, pass' = pass, pc # "enter", pc' # "enter"
  PROVE  Due(r)' = Due(r)
  BY DEF Due, Finds

\* Only the values of one that may go on without them are left out.
LEMMA UnreadStep ==
  ASSUME NEW height \in [Paths -> Nat], Regular(height), TypeOK, Course, Unread, [Next]_vars
  PROVE  Unread'
  <1>1. CASE LoseDraft
    <2> DEFINE e == entry[1]
               d == Head(work)
    <2>1. pc = "create" /\ MayLose(e.item) /\ lost' = Append(lost, d)
      BY <1>1 DEF LoseDraft
    <2>2. Creating(e) /\ Sound(e, Conf) /\ e.path \in Paths
      BY <2>1, Current
    <2>3. d \in Draft /\ 1 \in DOMAIN work /\ d = work[1]
      BY <2>1, WorkIs
    <2>4. d = ValueEntry(e.path, "String")
      BY <2>1, <2>2, <2>3 DEF Creating
    <2>5. d.item = "String" /\ d.path = e.path
      BY <2>4 DEF ValueEntry
    <2>6. FS[e.path].format = e.item
      BY <2>1, <2>2 DEF Sound, MayLose, ResetsStatus, OverwritesResult
    <2>7. lost \in Seq(Draft)
      BY DEF TypeOK
    <2> HIDE DEF d, e
    <2>8. /\ DOMAIN lost' = 1..(Len(lost) + 1) /\ DOMAIN lost = 1..Len(lost) /\ Len(lost) \in Nat
          /\ lost'[Len(lost) + 1] = d /\ \A k \in 1..Len(lost) : lost'[k] = lost[k]
      BY <2>1, <2>3, <2>7, LenProperties, AppendProperties
    <2>9. ASSUME NEW k \in DOMAIN lost'
          PROVE  lost'[k].item = "String" /\ MayLose(FS[lost'[k].path].format)
      <3>1. CASE k = Len(lost) + 1
        BY <2>1, <2>5, <2>6, <2>8, <3>1
      <3>2. CASE k # Len(lost) + 1
        <4>1. k \in DOMAIN lost /\ lost'[k] = lost[k]
          BY <2>8, <3>2
        <4> QED
          BY <4>1 DEF Unread
      <3> QED
        BY <3>1, <3>2
    <2> QED
      BY <2>9 DEF Unread, MayLose
  <1>2. CASE lost' = lost
    BY <1>2 DEF Unread
  <1> QED
    BY <1>1, <1>2 DEF Next, Step, Terminated, Enter, PopEntry, TraversalDone, RunIndexer, CreateEntry,
       SkipDraft, CreationFails, EndGroup, Drain, KeepEntry, DisplayQualifierInfo, ClosePass, loop, vars

LEMMA BalanceBegins ==
  ASSUME NEW height \in [Paths -> Nat], Regular(height), Init, TypeOK, NEW r
  PROVE  Balanced(r)
  <1>1. /\ Occurrences(index, r) = 0 /\ Occurrences(output, r) = 0 /\ Yields(traversal, r, Conf) = 0
        /\ Share(r) = 0 /\ Occurrences(lost, r) = 0
    BY CountNone, YieldsNone DEF Init, Share
  <1>2. Total(Finds(r), 0) = 0
    BY TotalNone
  <1>3. Due(r) = 0
    <2>1. pc = "enter" /\ pass - 1 = 0
      BY DEF Init
    <2> QED
      BY <1>2, <2>1 DEF Due
  <1>4. Tally(r) = 0
    BY <1>1 DEF Tally
  <1> QED
    BY <1>1, <1>3, <1>4 DEF Balanced

LEMMA EnterBalance ==
  ASSUME NEW height \in [Paths -> Nat], Regular(height), TypeOK, Course, Enter, NEW r, Balanced(r)
  PROVE  Balanced(r)'
  <1>1. pc = "enter" /\ result = "ok" /\ Going
    BY DEF Enter, Course
  <1> DEFINE d == PathEntry(passes[pass].root, {"traverse"})
             n == New(d)
  <1>2. d \in Draft
    BY RootTyped
  <1>3. n \in Entry /\ n.path = d.path /\ n.item = d.item /\ n.flags = d.flags
    BY <1>2 DEF New, Draft, Entry, TypeOK
  <1>4. Yield(n, r, Conf) = Found(r, Conf)
    <2>1. d.path = Conf.root /\ d.item = "Path" /\ d.flags = {"traverse"}
      BY PathEntryIs DEF Conf
    <2> HIDE DEF d, n
    <2>2. n.path = Conf.root /\ n.item = "Path" /\ n.flags = {"traverse"}
      BY <1>3, <2>1
    <2> QED
      BY <2>2 DEF Yield, Found
  <1>5. traversal = <<>> /\ traversal' = traversal \o <<n>> /\ output = <<>>
    BY <1>1 DEF Enter, Going
  <1> HIDE DEF n
  <1>6. traversal' = Append(<<>>, n)
    BY <1>5
  <1>7. <<>> \in Seq(Entry)
    BY EmptySeq
  <1>8. Yields(traversal', r, Conf) = Yields(<<>>, r, Conf) + Yield(n, r, Conf)
    BY <1>3, <1>6, <1>7, YieldsPush
  <1>9. /\ pc' = "pop" /\ passes' = passes /\ pass' = pass /\ index' = index /\ output' = output
        /\ Conf' = Conf /\ result' = result /\ lost' = lost
    BY DEF Enter, Conf, loop
  <1>10. /\ Occurrences(index, r) \in Nat /\ Occurrences(output, r) = 0 /\ Yields(traversal, r, Conf) = 0
         /\ Occurrences(lost, r) \in Nat
    BY <1>5, TallyTyped, CountNone, YieldsNone
  <1>11. Total(Finds(r), pass) = Total(Finds(r), pass - 1) + Found(r, Conf)
         /\ Total(Finds(r), pass - 1) \in Nat /\ Found(r, Conf) \in Nat
    BY DueGrows
  <1>12. Tally(r) = Occurrences(index, r)
    BY <1>1, <1>10 DEF Tally, Share
  <1>13. Tally(r)' = Occurrences(index, r) + Found(r, Conf)
    BY <1>4, <1>8, <1>9, <1>10, <1>11, YieldsNone DEF Tally, Share
  <1>14. Due(r) = Total(Finds(r), pass - 1)
    BY <1>1 DEF Due
  <1>15. Due(r)' = Total(Finds(r), pass - 1) + Found(r, Conf)
    BY <1>9, <1>11 DEF Due, Finds
  <1> QED
    BY <1>1, <1>9, <1>10, <1>11, <1>12, <1>13, <1>14, <1>15 DEF Balanced

LEMMA PopBalance ==
  ASSUME NEW height \in [Paths -> Nat], Regular(height), TypeOK, Course, PopEntry,
         NEW r \in Resources, Balanced(r)
  PROVE  Balanced(r)'
  <1>1. pc = "pop" /\ result = "ok" /\ Going /\ traversal # <<>> /\ traversal \in Seq(Entry)
    BY DEF PopEntry, Course, TypeOK
  <1> DEFINE e == traversal[Len(traversal)]
             f == SubSeq(traversal, 1, Len(traversal) - 1)
  <1>2. e \in Entry /\ Sound(e, Conf)
    <2>1. Len(traversal) \in DOMAIN traversal
      BY <1>1, LenProperties, EmptySeq
    <2> QED
      BY <1>1, <2>1, Standing DEF Going, AllSound
  <1>3. f \in Seq(Entry) /\ Yields(traversal, r, Conf) = Yields(f, r, Conf) + Yield(e, r, Conf)
    BY <1>1, YieldsPop
  <1>4. /\ entry' = <<e>> /\ traversal' = f /\ retain' = ("index" \in e.flags)
        /\ result' = result /\ passes' = passes /\ pass' = pass /\ Conf' = Conf
        /\ index' = index /\ output' = output /\ lost' = lost
        /\ \/ "traverse" \in e.flags /\ pc' = "index" /\ group' = "main" /\ todo' = Conf.main
           \/ "traverse" \notin e.flags /\ pc' = "keep"
    BY DEF PopEntry, Conf
  <1> HIDE DEF e, f
  <1>5. entry'[1] = e
    BY <1>4
  <1>6. e.path \in Paths
    BY <1>2 DEF Entry
  <1>7. Share(r)' = Yield(e, r, Conf)
    <2>1. CASE "traverse" \in e.flags /\ pc' = "index" /\ group' = "main" /\ todo' = Conf.main
      <3>1. Share(r)' = IF "index" \in e.flags \/ Claimed(e, Conf.main) THEN Yield(e, r, Conf) ELSE 0
        BY <1>4, <1>5, <2>1 DEF Share
      <3>2. "index" \notin e.flags /\ ~Claimed(e, Conf.main) => Yield(e, r, Conf) = 0
        BY <1>2, <2>1, YieldUnopened
      <3> QED
        BY <3>1, <3>2
    <2>2. CASE "traverse" \notin e.flags /\ pc' = "keep"
      <3>1. Share(r)' = IF "index" \in e.flags /\ r = [path |-> e.path, item |-> e.item] THEN 1 ELSE 0
        BY <1>4, <1>5, <2>2 DEF Share
      <3>2. r = [path |-> e.path, item |-> e.item] <=> e.path = r.path /\ e.item = r.item
        BY DEF Resources
      <3>3. Yield(e, r, Conf) = IF "index" \in e.flags THEN Same(e, r) ELSE 0
        BY <1>2, <2>2, YieldUnopened
      <3> QED
        BY <3>1, <3>2, <3>3 DEF Same
    <2> QED
      BY <1>4, <2>1, <2>2
  <1>8. Share(r) = 0
    BY <1>1 DEF Share
  <1>9. /\ Occurrences(index, r) \in Nat /\ Occurrences(output, r) \in Nat
        /\ Yields(f, r, Conf) \in Nat /\ Yield(e, r, Conf) \in Nat
    BY <1>3, <1>6, TallyTyped, YieldsTyped, YieldTyped
  <1>10. Tally(r)' = Tally(r)
    BY <1>3, <1>4, <1>7, <1>8, <1>9 DEF Tally
  <1>11. pc # "enter" /\ pc' # "enter"
    BY <1>1, <1>4
  <1> QED
    BY <1>1, <1>4, <1>10, <1>11, DueKept, Kept

\* A step that neither pushes nor keeps an entry only changes the share.
LEMMA ShareKept ==
  ASSUME NEW r, Balanced(r), result = "ok", passes' = passes, pass' = pass, pc # "enter", pc' # "enter",
         index' = index, output' = output, traversal' = traversal, lost' = lost, Share(r)' = Share(r)
  PROVE  Balanced(r)'
  <1>1. Conf' = Conf
    BY DEF Conf
  <1>2. Tally(r)' = Tally(r)
    BY <1>1 DEF Tally
  <1> QED
    BY <1>2, DueKept, Kept

LEMMA QuietBalance ==
  ASSUME NEW height \in [Paths -> Nat], Regular(height), TypeOK, Course,
         TraversalDone \/ DisplayQualifierInfo, NEW r, Balanced(r)
  PROVE  Balanced(r)'
  <1>1. /\ passes' = passes /\ pass' = pass /\ index' = index /\ output' = output /\ traversal' = traversal
        /\ pc \in {"pop", "display"} /\ pc' \in {"display", "close"} /\ lost' = lost
    BY DEF TraversalDone, DisplayQualifierInfo, sinks, loop
  <1>2. Share(r)' = 0 /\ Share(r) = 0
    BY <1>1 DEF Share
  <1>3. result = "ok" /\ pc # "enter" /\ pc' # "enter"
    BY <1>1 DEF Course
  <1> QED
    BY <1>1, <1>2, <1>3, ShareKept

LEMMA RunBalance ==
  ASSUME NEW height \in [Paths -> Nat], Regular(height), TypeOK, Course, RunIndexer,
         NEW r, Balanced(r)
  PROVE  Balanced(r)'
  <1> DEFINE e == entry[1]
  <1>1. pc = "index" /\ todo # <<>>
    BY DEF RunIndexer
  <1>2. /\ e \in Entry /\ e.path \in Paths /\ Sound(e, Conf) /\ "traverse" \in e.flags /\ result = "ok"
        /\ (retain => "index" \in e.flags) /\ RegularPass(Conf)
        /\ todo \in Seq(Indexers) /\ group \in {"main", "final"}
        /\ (group = "main" => MainGroup(e)) /\ (group = "final" => FinalGroup(e))
    BY <1>1, Current
  <1>3. CASE result' = "failed" /\ pc' = "drain"
    BY <1>3 DEF Balanced
  <1>4. CASE Ran(e)
    <2>1. /\ result' = "ok" /\ todo' = Tail(todo) /\ seen' = {}
          /\ pc' = (IF work' = <<>> THEN "index" ELSE "create")
          /\ Taken(e) \/ PassedOn(e) \/ EmbedsIt(e) \/ LeavesIt(e)
      BY <1>4 DEF Ran
    <2>2. entry' = entry /\ entry'[1] = e /\ Conf' = Conf /\ group' = group
      BY RunKeeps
    <2> HIDE DEF e
    <2>3. Share(r) = IF retain \/ (group = "main" /\ Claimed(e, todo)) THEN Yield(e, r, Conf) ELSE 0
      BY <1>1 DEF Share, e
    <2>4. Share(r)' = IF work' = <<>>
                      THEN IF retain' \/ (group = "main" /\ Claimed(e, Tail(todo))) THEN Yield(e, r, Conf) ELSE 0
                      ELSE Drafted(work', e.item, {}, r, Conf)
      <3>1. CASE work' = <<>>
        BY <2>1, <2>2, <3>1 DEF Share
      <3>2. CASE work' # <<>>
        <4>1. pc' = "create"
          BY <2>1, <3>2
        <4>2. Share(r)' = Drafted(work', entry'[1].item, seen', r, Conf')
          BY <4>1 DEF Share
        <4> QED
          BY <2>1, <2>2, <3>2, <4>2
      <3> QED
        BY <3>1, <3>2
    <2>5. work' = <<>> => Drafted(work', e.item, {}, r, Conf) = 0
      BY DraftedNone
    <2>6. ASSUME group = "main"
          PROVE  /\ Head(todo) = todo[1] /\ 1 \in DOMAIN todo
                 /\ Claims(Head(todo), e) => ~Claimed(e, Tail(todo))
                 /\ Claimed(e, todo) <=> Claims(Head(todo), e) \/ Claimed(e, Tail(todo))
                 /\ Claims(Head(todo), e) => Claimed(e, Conf.main)
      <3>1. MainGroup(e)
        BY <1>2, <2>6
      <3>2. /\ Head(todo) = todo[1] /\ 1 \in DOMAIN todo
            /\ Claims(Head(todo), e) => ~Claimed(e, Tail(todo))
            /\ Claimed(e, todo) <=> Claims(Head(todo), e) \/ Claimed(e, Tail(todo))
        BY <1>1, <1>2, <3>1, ClaimedRest DEF MainGroup
      <3>3. Has(Conf, Head(todo))
        BY <3>1, <3>2 DEF MainGroup
      <3>4. Claims(Head(todo), e) => Claimed(e, Conf.main)
        BY <3>3 DEF Has, Claimed
      <3> QED
        BY <3>2, <3>4
    <2>7. Share(r)' = Share(r)
      <3>1. CASE Taken(e)
        <4>1. group = "main" /\ Claims(Head(todo), e) /\ work' = Offer(e) /\ ~retain'
          BY <3>1 DEF Taken
        <4>2. Drafted(Offer(e), e.item, {}, r, Conf) = Yield(e, r, Conf)
          BY <1>2, <2>6, <4>1, OfferYields
        <4>3. Share(r) = Yield(e, r, Conf)
          BY <2>3, <2>6, <4>1
        <4>4. Share(r)' = Drafted(work', e.item, {}, r, Conf)
          BY <2>4, <2>5, <2>6, <4>1
        <4> QED
          BY <4>1, <4>2, <4>3, <4>4
      <3>2. CASE PassedOn(e)
        <4>1. group = "main" /\ ~Claims(Head(todo), e) /\ work' = <<>> /\ retain' = retain
          BY <3>2 DEF PassedOn
        <4> QED
          BY <2>3, <2>4, <2>6, <4>1
      <3>3. ASSUME group = "final"
            PROVE  /\ Conf.final # <<>> /\ e.item = "Path" /\ retain
                   /\ Yield(e, r, Conf) = IF r = [path |-> e.path, item |-> ItemOf(e.path, e.flags, Conf)]
                                          THEN 1 ELSE 0
        <4>1. retain /\ ~Claimed(e, Conf.main) /\ Conf.final # <<>>
          BY <1>1, <1>2, <3>3 DEF FinalGroup
        <4> QED
          BY <1>2, <4>1, YieldUnopened
      <3>4. CASE EmbedsIt(e)
        <4> DEFINE v == ValueEntry(e.path, "Embedded")
        <4>1. group = "final" /\ Embeds(e) /\ work' = <<v>> /\ work' # <<>>
          BY <3>4 DEF EmbedsIt
        <4>2. v \in Draft /\ v.item = "Embedded" /\ v.path = e.path
          BY <1>2 DEF ValueEntry, Draft, Items, Flags
        <4> HIDE DEF v
        <4>3. Drafted(<<v>>, e.item, {}, r, Conf) = Yield(v, r, Conf)
          BY <4>2, DraftedOne
        <4>4. Yield(v, r, Conf) = IF r = [path |-> e.path, item |-> "Embedded"] THEN 1 ELSE 0
          BY <4>2 DEF Yield, Containers
        <4>5. ItemOf(e.path, e.flags, Conf) = "Embedded"
          BY <1>2, <3>3, <4>1 DEF ItemOf, Embeds
        <4>6. Share(r) = Yield(e, r, Conf)
          BY <2>3, <3>3, <4>1
        <4>7. Share(r)' = Drafted(<<v>>, e.item, {}, r, Conf)
          BY <2>4, <4>1
        <4> QED
          BY <3>3, <4>1, <4>3, <4>4, <4>5, <4>6, <4>7
      <3>5. CASE LeavesIt(e)
        <4>1. group = "final" /\ work' = <<>> /\ retain' = retain
          BY <3>5 DEF LeavesIt
        <4> QED
          BY <2>3, <2>4, <3>3, <4>1
      <3> QED
        BY <2>1, <3>1, <3>2, <3>4, <3>5
    <2>8. pc # "enter" /\ pc' # "enter"
      BY <1>1, <2>1
    <2> QED
      BY <1>2, <2>7, <2>8, RunKeeps, ShareKept
  <1> QED
    BY <1>3, <1>4, RunIs

\* The share while the running indexer goes on to create its entries.
LEMMA ShareGoesOn ==
  ASSUME NEW height \in [Paths -> Nat], Regular(height), TypeOK, Course, pc = "create",
         work' = Tail(work), LoopOn,
         Conf' = Conf, entry' = entry, group' = group, todo' = todo,
         handled' = handled, retain' = retain, NEW r
  PROVE  Share(r)' = Drafted(Tail(work), entry[1].item, seen', r, Conf)
  <1>1. pc' \in {"index", "create"} /\ (pc' = "index" <=> work' = <<>>)
    BY DraftsGoOn
  <1>2. Creating(entry[1])
    BY Current
  <1>3. CASE pc' = "create"
    BY <1>3 DEF Share
  <1>4. CASE pc' = "index"
    <2>1. Drafted(Tail(work), entry[1].item, seen', r, Conf) = 0
      BY <1>1, <1>4, DraftedNone
    <2>2. ~retain' /\ ~(group' = "main" /\ Claimed(entry'[1], todo'))
      BY <1>2 DEF Creating
    <2>3. Share(r)' = 0
      BY <1>4, <2>2 DEF Share
    <2> QED
      BY <2>1, <2>3
  <1> QED
    BY <1>1, <1>3, <1>4

LEMMA CreateBalance ==
  ASSUME NEW height \in [Paths -> Nat], Regular(height), TypeOK, Course, CreateEntry,
         NEW r, Balanced(r)
  PROVE  Balanced(r)'
  <1> DEFINE d == Head(work)
             n == New(d)
             t == Drafted(Tail(work), entry[1].item, seen \cup {d.path}, r, Conf)
  <1>1. pc = "create" /\ result = "ok" /\ traversal \in Seq(Entry)
    BY DEF CreateEntry, Course, Going, TypeOK
  <1>2. /\ traversal' = Append(traversal, n) /\ seen' = seen \cup {d.path}
        /\ work' = Tail(work) /\ LoopOn
        /\ Conf' = Conf /\ entry' = entry /\ group' = group /\ todo' = todo
        /\ handled' = handled /\ retain' = retain /\ result' = result
        /\ passes' = passes /\ pass' = pass /\ index' = index /\ output' = output /\ lost' = lost
    BY DEF CreateEntry, Conf
  <1>3. /\ work \in Seq(Draft) /\ work # <<>> /\ d \in Draft /\ Tail(work) \in Seq(Draft)
        /\ ~Dropped(work, 1, entry[1].item, seen)
    BY <1>1, WorkIs DEF CreateEntry
  <1>4. n \in Entry /\ n.path = d.path /\ n.item = d.item /\ n.flags = d.flags
    BY <1>3 DEF New, Draft, Entry, TypeOK
  <1>5. Share(r)' = Drafted(Tail(work), entry[1].item, seen', r, Conf)
    BY <1>1, <1>2, ShareGoesOn
  <1>6. Share(r)' = t
    BY <1>2, <1>5
  <1>7. Drafted(work, entry[1].item, seen, r, Conf) = Yield(d, r, Conf) + t
    BY <1>3, DraftedCreated
  <1>8. t \in Nat
    BY <1>3, DraftedTyped
  <1> HIDE DEF t, n, d
  <1>9. Share(r) = Yield(d, r, Conf) + t
    BY <1>1, <1>7 DEF Share
  <1>10. Yield(n, r, Conf) = Yield(d, r, Conf)
    BY <1>4, YieldOf
  <1>11. Yields(traversal', r, Conf) = Yields(traversal, r, Conf) + Yield(n, r, Conf)
    BY <1>1, <1>2, <1>4, YieldsPush
  <1>12. d.path \in Paths
    BY <1>3 DEF Draft
  <1>13. /\ Occurrences(index, r) \in Nat /\ Occurrences(output, r) \in Nat
         /\ Yields(traversal, r, Conf) \in Nat /\ Yield(d, r, Conf) \in Nat
    BY <1>12, TallyTyped, YieldTyped
  <1>14. Tally(r)' = Tally(r)
    BY <1>2, <1>6, <1>8, <1>9, <1>10, <1>11, <1>13 DEF Tally
  <1>15. pc # "enter" /\ pc' # "enter"
    BY <1>1, <1>2 DEF LoopOn
  <1> QED
    BY <1>1, <1>2, <1>14, <1>15, DueKept, Kept

LEMMA SkipBalance ==
  ASSUME NEW height \in [Paths -> Nat], Regular(height), TypeOK, Course, SkipDraft,
         NEW r, Balanced(r)
  PROVE  Balanced(r)'
  <1> DEFINE e == entry[1]
  <1>1. pc = "create" /\ result = "ok" /\ Skipped(Head(work))
    BY DEF SkipDraft, Course, Going
  <1>2. /\ seen' = seen /\ work' = Tail(work) /\ LoopOn
        /\ Conf' = Conf /\ entry' = entry /\ group' = group /\ todo' = todo
        /\ handled' = handled /\ retain' = retain /\ lost' = lost
        /\ passes' = passes /\ pass' = pass /\ index' = index /\ output' = output /\ traversal' = traversal
    BY DEF SkipDraft, sinks, Conf
  <1>3. /\ work \in Seq(Draft) /\ work # <<>>
        /\ Skipped(Head(work)) => Dropped(work, 1, e.item, seen)
    BY <1>1, WorkIs
  <1>4. Share(r)' = Drafted(Tail(work), e.item, seen', r, Conf)
    BY <1>1, <1>2, ShareGoesOn
  <1>5. Share(r) = Drafted(work, e.item, seen, r, Conf)
    BY <1>1 DEF Share
  <1>6. Drafted(work, e.item, seen, r, Conf) = Drafted(Tail(work), e.item, seen, r, Conf)
    BY <1>1, <1>3, DraftedSkipped
  <1>7. Share(r)' = Share(r)
    BY <1>2, <1>4, <1>5, <1>6
  <1>8. pc # "enter" /\ pc' # "enter"
    BY <1>1, <1>2 DEF LoopOn
  <1> QED
    BY <1>1, <1>2, <1>7, <1>8, ShareKept

\* What is lost is taken from the share.
LEMMA LoseBalance ==
  ASSUME NEW height \in [Paths -> Nat], Regular(height), TypeOK, Course, LoseDraft,
         NEW r \in Resources, Balanced(r)
  PROVE  Balanced(r)'
  <1> DEFINE e == entry[1]
             d == Head(work)
             t == Drafted(Tail(work), e.item, seen, r, Conf)
  <1>1. pc = "create" /\ result = "ok" /\ MayLose(e.item)
    BY DEF LoseDraft, Course, Going
  <1>2. /\ seen' = seen /\ work' = Tail(work) /\ LoopOn /\ lost' = Append(lost, d)
        /\ Conf' = Conf /\ entry' = entry /\ group' = group /\ todo' = todo
        /\ handled' = handled /\ retain' = retain /\ result' = result
        /\ passes' = passes /\ pass' = pass /\ index' = index /\ output' = output /\ traversal' = traversal
    BY DEF LoseDraft, sinks, Conf
  <1>3. /\ work \in Seq(Draft) /\ work # <<>> /\ Tail(work) \in Seq(Draft)
        /\ d \in Draft /\ 1 \in DOMAIN work /\ d = work[1]
    BY <1>1, WorkIs
  <1>4. e.path \in Paths /\ \A k \in DOMAIN work : work[k] = ValueEntry(e.path, "String")
    BY <1>1, Current DEF Creating
  <1>5. d.path = e.path /\ d.item = "String"
    BY <1>3, <1>4 DEF ValueEntry
  <1>6. Share(r)' = Drafted(Tail(work), e.item, seen', r, Conf)
    BY <1>1, <1>2, ShareGoesOn
  <1>7. Share(r)' = t
    BY <1>2, <1>6
  <1>8. Drafted(work, e.item, seen, r, Conf) = (IF r = [path |-> e.path, item |-> "String"] THEN 1 ELSE 0) + t
    BY <1>3, <1>4, DraftedLost
  <1>9. t \in Nat
    BY <1>3, DraftedTyped
  <1>10. /\ Occurrences(index, r) \in Nat /\ Occurrences(output, r) \in Nat
         /\ Yields(traversal, r, Conf) \in Nat /\ Occurrences(lost, r) \in Nat
    BY TallyTyped
  <1> HIDE DEF t, d, e
  <1>11. r = [path |-> e.path, item |-> "String"] <=> d.path = r.path /\ d.item = r.item
    BY <1>5 DEF Resources
  <1>12. Share(r) = Same(d, r) + t
    BY <1>1, <1>8, <1>11 DEF Share, Same, e
  <1>13. Occurrences(lost', r) = Occurrences(lost, r) + Same(d, r)
    <2>1. lost \in Seq(Draft)
      BY DEF TypeOK
    <2>2. lost' = lost \o <<d>> /\ <<d>> \in Seq(Draft)
      BY <1>2, <1>3, <2>1
    <2>3. Occurrences(lost \o <<d>>, r) = Occurrences(lost, r) + Occurrences(<<d>>, r)
      BY <2>1, <2>2, CountPour
    <2>4. Occurrences(<<d>>, r) = Same(d, r)
      BY CountOne
    <2> QED
      BY <2>2, <2>3, <2>4
  <1>14. Same(d, r) \in Nat
    BY DEF Same
  <1> DEFINE a == Occurrences(index, r) + Occurrences(output, r) + Yields(traversal, r, Conf)
  <1>15. a \in Nat
    BY <1>10
  <1> HIDE DEF a
  <1>16. Tally(r) = a + (Same(d, r) + t) /\ Tally(r)' = a + t
    BY <1>2, <1>7, <1>12 DEF Tally, a
  <1>17. Due(r)' = Due(r)
    <2>1. pc # "enter" /\ pc' # "enter"
      BY <1>1, <1>2 DEF LoopOn
    <2> QED
      BY <1>2, <2>1, DueKept
  <1>18. Tally(r) + Occurrences(lost, r) = Due(r)
    BY <1>1 DEF Balanced
  <1>19. Tally(r)' + Occurrences(lost', r) = Due(r)'
    BY <1>9, <1>10, <1>13, <1>14, <1>15, <1>16, <1>17, <1>18
  <1> QED
    BY <1>19 DEF Balanced

LEMMA FailBalance ==
  ASSUME Course, CreationFails \/ Drain, NEW r
  PROVE  Balanced(r)'
  <1>1. CASE CreationFails
    BY <1>1 DEF CreationFails, Balanced
  <1>2. CASE Drain
    BY <1>2 DEF Drain, Course, Going, Balanced
  <1> QED
    BY <1>1, <1>2

LEMMA EndBalance ==
  ASSUME NEW height \in [Paths -> Nat], Regular(height), TypeOK, Course, EndGroup,
         NEW r \in Resources, Balanced(r)
  PROVE  Balanced(r)'
  <1> DEFINE e == entry[1]
  <1>1. pc = "index" /\ todo = <<>>
    BY DEF EndGroup
  <1>2. /\ e \in Entry /\ e.path \in Paths /\ Sound(e, Conf) /\ "traverse" \in e.flags /\ result = "ok"
        /\ (retain => "index" \in e.flags) /\ group \in {"main", "final"}
        /\ (group = "main" => MainGroup(e)) /\ (group = "final" => FinalGroup(e))
        /\ retain \in BOOLEAN
    BY <1>1, Current
  <1>3. /\ Conf' = Conf /\ entry' = entry /\ retain' = retain /\ passes' = passes /\ pass' = pass
        /\ index' = index /\ output' = output /\ traversal' = traversal /\ lost' = lost
        /\ \/ group = "main" /\ retain /\ group' = "final" /\ todo' = Conf.final /\ pc' = "index"
           \/ ~(group = "main" /\ retain) /\ pc' = "keep"
    BY <1>1 DEF EndGroup, FinalGroupDue, Conf, sinks
  <1>4. ~Claimed(e, todo)
    BY <1>1 DEF Claimed
  <1>5. Share(r) = IF retain THEN Yield(e, r, Conf) ELSE 0
    BY <1>1, <1>4 DEF Share
  <1> HIDE DEF e
  <1>6. entry'[1] = e
    BY <1>3 DEF e
  <1>7. CASE group = "main" /\ retain /\ group' = "final" /\ todo' = Conf.final /\ pc' = "index"
    <2>1. Share(r)' = Yield(e, r, Conf)
      BY <1>3, <1>6, <1>7 DEF Share
    <2>2. Share(r)' = Share(r)
      BY <1>5, <1>7, <2>1
    <2> QED
      BY <1>1, <1>2, <1>3, <1>7, <2>2, ShareKept
  <1>8. CASE ~(group = "main" /\ retain) /\ pc' = "keep"
    <2>1. Share(r)' = IF retain /\ r = [path |-> e.path, item |-> e.item] THEN 1 ELSE 0
      BY <1>3, <1>6, <1>8 DEF Share
    <2>2. ASSUME retain
          PROVE  Yield(e, r, Conf) = IF r = [path |-> e.path, item |-> e.item] THEN 1 ELSE 0
      <3>1. group = "final" /\ FinalGroup(e) /\ "index" \in e.flags
        BY <1>2, <1>8, <2>2
      <3>2. /\ ~Claimed(e, Conf.main)
            /\ FS[e.path].kind = "file" /\ FS[e.path].size = "normal" => Conf.final = <<>>
        BY <1>1, <2>2, <3>1 DEF FinalGroup
      <3>3. /\ e.item = "Path"
            /\ Yield(e, r, Conf) = IF "index" \in e.flags /\ r = [path |-> e.path, item |-> ItemOf(e.path, e.flags, Conf)]
                                   THEN 1 ELSE 0
        BY <1>2, <3>2, YieldUnopened
      <3>4. ItemOf(e.path, e.flags, Conf) = "Path"
        BY <3>2 DEF ItemOf
      <3> QED
        BY <3>1, <3>3, <3>4
    <2>3. Share(r)' = Share(r)
      BY <1>2, <1>5, <2>1, <2>2
    <2> QED
      BY <1>1, <1>2, <1>3, <1>8, <2>3, ShareKept
  <1> QED
    BY <1>3, <1>7, <1>8

LEMMA KeepBalance ==
  ASSUME NEW height \in [Paths -> Nat], Regular(height), TypeOK, Course, KeepEntry,
         NEW r \in Resources, Balanced(r)
  PROVE  Balanced(r)'
  <1> DEFINE e == entry[1]
  <1>1. pc = "keep" /\ result = "ok" /\ retain \in BOOLEAN
    BY DEF KeepEntry, Course, TypeOK
  <1>2. e \in Entry /\ entry = <<e>> /\ <<e>> \in Seq(Entry)
    BY <1>1, Standing DEF TypeOK
  <1>3. index \in Seq(Entry) /\ output \in Seq(Entry)
    BY DEF TypeOK
  <1>4. /\ pc' = "pop" /\ passes' = passes /\ pass' = pass /\ Conf' = Conf /\ traversal' = traversal
        /\ result' = result /\ lost' = lost
        /\ \/ retain /\ output' = output \o entry /\ index' = index
           \/ retain /\ index' = index \o entry /\ output' = output
           \/ ~retain /\ index' = index /\ output' = output
    BY <1>1 DEF KeepEntry, Conf, loop
  <1>5. Share(r)' = 0
    BY <1>4 DEF Share
  <1>6. Share(r) = IF retain THEN Same(e, r) ELSE 0
    <2>1. r = [path |-> e.path, item |-> e.item] <=> e.path = r.path /\ e.item = r.item
      BY DEF Resources
    <2> QED
      BY <1>1, <2>1 DEF Share, Same
  <1> HIDE DEF e
  <1>7. /\ Occurrences(index, r) \in Nat /\ Occurrences(output, r) \in Nat
        /\ Yields(traversal, r, Conf) \in Nat /\ Same(e, r) \in Nat
    BY TallyTyped DEF Same
  <1>8. /\ Occurrences(index \o <<e>>, r) = Occurrences(index, r) + Same(e, r)
        /\ Occurrences(output \o <<e>>, r) = Occurrences(output, r) + Same(e, r)
    <2>1. Occurrences(index \o <<e>>, r) = Occurrences(index, r) + Occurrences(<<e>>, r)
      BY <1>2, <1>3, CountPour
    <2>2. Occurrences(output \o <<e>>, r) = Occurrences(output, r) + Occurrences(<<e>>, r)
      BY <1>2, <1>3, CountPour
    <2>3. Occurrences(<<e>>, r) = Same(e, r)
      BY <1>2, CountOne
    <2> QED
      BY <2>1, <2>2, <2>3
  <1>9. Tally(r)' = Tally(r)
    <2>1. Tally(r)' = Occurrences(index', r) + Occurrences(output', r) + Yields(traversal, r, Conf) + 0
      BY <1>4, <1>5 DEF Tally
    <2>2. Tally(r) = Occurrences(index, r) + Occurrences(output, r) + Yields(traversal, r, Conf)
                       + IF retain THEN Same(e, r) ELSE 0
      BY <1>6 DEF Tally
    <2>3. CASE retain /\ output' = output \o entry /\ index' = index
      <3>1. Occurrences(index', r) = Occurrences(index, r)
            /\ Occurrences(output', r) = Occurrences(output, r) + Same(e, r)
        BY <1>2, <1>8, <2>3
      <3> QED
        BY <1>7, <2>1, <2>2, <2>3, <3>1
    <2>4. CASE retain /\ index' = index \o entry /\ output' = output
      <3>1. Occurrences(output', r) = Occurrences(output, r)
            /\ Occurrences(index', r) = Occurrences(index, r) + Same(e, r)
        BY <1>2, <1>8, <2>4
      <3> QED
        BY <1>7, <2>1, <2>2, <2>4, <3>1
    <2>5. CASE ~retain /\ index' = index /\ output' = output
      <3>1. Occurrences(index', r) = Occurrences(index, r) /\ Occurrences(output', r) = Occurrences(output, r)
        BY <2>5
      <3> QED
        BY <1>7, <2>1, <2>2, <2>5, <3>1
    <2> QED
      BY <1>4, <2>3, <2>4, <2>5
  <1>10. pc # "enter" /\ pc' # "enter"
    BY <1>1, <1>4
  <1> QED
    BY <1>1, <1>4, <1>9, <1>10, DueKept, Kept

LEMMA CloseBalance ==
  ASSUME NEW height \in [Paths -> Nat], Regular(height), TypeOK, Course, ClosePass,
         NEW r, Balanced(r)
  PROVE  Balanced(r)'
  <1>1. /\ pc = "close" /\ result' = result /\ output' = <<>> /\ traversal' = traversal
        /\ passes' = passes /\ result \in Outcomes /\ lost' = lost
    BY DEF ClosePass, TypeOK, loop
  <1>2. CASE result # "ok"
    BY <1>1, <1>2 DEF Balanced
  <1>3. CASE result = "ok"
    <2>1. traversal = <<>> /\ index \in Seq(Entry) /\ output \in Seq(Entry) /\ Reverse(output) \in Seq(Entry)
      BY <1>1, <1>3, ReverseOwns DEF Course, Going, TypeOK
    <2>2. index' = index \o Reverse(output)
      BY <1>3 DEF ClosePass
    <2>3. Occurrences(index', r) = Occurrences(index, r) + Occurrences(output, r)
      BY <2>1, <2>2, CountPour, CountReverse
    <2>4. Occurrences(index, r) \in Nat /\ Occurrences(output, r) \in Nat
      BY TallyTyped
    <2>5. Occurrences(output', r) = 0 /\ Yields(traversal, r, Conf) = 0 /\ Yields(traversal', r, Conf') = 0
      BY <1>1, <2>1, CountNone, YieldsNone
    <2>6. pc' \in {"enter", "finished"}
          /\ (pc' = "enter" => pass' = pass + 1) /\ (pc' = "finished" => pass' = pass)
      BY <1>3 DEF ClosePass
    <2>7. Share(r) = 0 /\ Share(r)' = 0
      BY <1>1, <2>6 DEF Share
    <2>8. Tally(r)' = Tally(r)
      BY <2>3, <2>4, <2>5, <2>7 DEF Tally
    <2>9. Due(r)' = Due(r)
      <3>1. pass \in Nat
        BY DEF TypeOK
      <3>2. Due(r) = Total(Finds(r), pass)
        BY <1>1 DEF Due
      <3>3. CASE pc' = "enter"
        <4>1. pass' - 1 = pass
          BY <2>6, <3>1, <3>3
        <4> QED
          BY <1>1, <3>2, <3>3, <4>1 DEF Due, Finds
      <3>4. CASE pc' = "finished"
        BY <1>1, <2>6, <3>2, <3>4 DEF Due, Finds
      <3> QED
        BY <2>6, <3>3, <3>4
    <2> QED
      BY <1>1, <1>3, <2>8, <2>9, Kept
  <1> QED
    BY <1>2, <1>3

LEMMA BalanceStep ==
  ASSUME NEW height \in [Paths -> Nat], Regular(height), TypeOK, Course, [Next]_vars,
         NEW r \in Resources, Balanced(r)
  PROVE  Balanced(r)'
  <1>1. CASE Step
    BY <1>1, EnterBalance, PopBalance, QuietBalance, RunBalance, CreateBalance, SkipBalance, LoseBalance,
       FailBalance, EndBalance, KeepBalance, CloseBalance DEF Step
  <1>2. CASE UNCHANGED vars
    BY <1>2 DEF vars, sinks, loop, Balanced, Tally, Share, Due, Finds, Conf
  <1> QED
    BY <1>1, <1>2 DEF Next, Terminated

\* At the end nothing is to come, and the tally is the index.
LEMMA IndexCounts ==
  ASSUME NEW height \in [Paths -> Nat], Regular(height), TypeOK, Course,
         Unread, \A r \in Resources : Balanced(r)
  PROVE  IndexIsTheProject
  <1> SUFFICES ASSUME pc = "finished" PROVE IndexIsTheProject
    BY DEF IndexIsTheProject
  <1>1. result = "ok" /\ Going /\ OnlyResources
    BY DEF Course
  <1>2. output = <<>> /\ traversal = <<>> /\ pass = Len(passes) /\ index \in Seq(Entry)
    BY <1>1 DEF Going, TypeOK
  <1>3. ASSUME NEW k \in DOMAIN index
        PROVE  [path |-> index[k].path, item |-> index[k].item] \in Resources
    <2>1. index[k] \in Entry
      BY <1>2, LenProperties, ElementOfSeq
    <2>2. index[k].item \notin Containers
      BY <1>1 DEF OnlyResources
    <2> QED
      BY <2>1, <2>2 DEF Entry, Items, Resources
  <1>4. ASSUME NEW r \in Resources
        PROVE  Occurrences(index, r) + Occurrences(lost, r) = Expected(r)
    <2>1. Tally(r) + Occurrences(lost, r) = Due(r)
      BY <1>1 DEF Balanced
    <2>2. Occurrences(index, r) \in Nat /\ Occurrences(output, r) = 0 /\ Yields(traversal, r, Conf) = 0
      BY <1>2, TallyTyped, CountNone, YieldsNone
    <2>3. Tally(r) = Occurrences(index, r)
      BY <2>2 DEF Tally, Share
    <2>4. Due(r) = Expected(r)
      BY <1>2 DEF Due, Finds, Expected
    <2> QED
      BY <2>1, <2>3, <2>4
  <1>5. ASSUME NEW r \in Resources, Sure(r)
        PROVE  Occurrences(lost, r) = 0
    <2>1. \A k \in DOMAIN lost : ~(lost[k].path = r.path /\ lost[k].item = r.item)
      BY <1>5 DEF Unread, Sure
    <2>2. {k \in DOMAIN lost : lost[k].path = r.path /\ lost[k].item = r.item} = {}
      BY <2>1
    <2> QED
      BY <2>2, FS_EmptySet DEF Occurrences
  <1> QED
    BY <1>3, <1>4, <1>5 DEF IndexIsTheProject

(***************************************************************************)
(* In a regular project the index of a successful run (CHIndexerBase::      *)
(* Process with every CIndexPass) holds every resource as often as the      *)
(* files say, and nothing else: whatever the folders and listings, in any   *)
(* order of the indexers, however many passes there are, and whatever could *)
(* not be read.  What is missing are strings that the resw, priinfo or pri  *)
(* indexer could not read, each counted as often as it was left out.        *)
(***************************************************************************)
THEOREM IndexCorrect ==
  ASSUME NEW height \in [Paths -> Nat], Regular(height)
  PROVE  Spec => []IndexIsTheProject
  <1> DEFINE Balance == \A r \in Resources : Balanced(r)
             IInv == Course /\ Unread /\ Balance
  <1>1. Init /\ TypeOK => IInv
    <2>1. Init => Unread
      BY DEF Init, Unread
    <2> QED
      BY <2>1, CourseBegins, BalanceBegins
  <1>2. TypeOK /\ IInv /\ [Next]_vars => IInv'
    <2> SUFFICES ASSUME TypeOK, IInv, [Next]_vars PROVE IInv'
      OBVIOUS
    <2>1. Course'
      BY CourseStep
    <2>2. ASSUME NEW r \in Resources PROVE Balanced(r)'
      BY BalanceStep
    <2>3. Resources' = Resources
      BY DEF Resources
    <2>4. Unread'
      BY UnreadStep
    <2> QED
      BY <2>1, <2>2, <2>3, <2>4
  <1>3. TypeOK /\ IInv => IndexIsTheProject
    BY IndexCounts
  <1> HIDE DEF IInv, Balance
  <1> QED
    BY <1>1, <1>2, <1>3, TypeCorrect, PTL DEF Spec
=============================================================================
