------------------------- MODULE LanguageTag_proof -------------------------
(***************************************************************************)
(* Proofs about LanguageTag, for every table of subtags, every set of tags  *)
(* and every list of languages:                                            *)
(*   TypeCorrect      the type invariant,                                   *)
(*   TotallyOrdered   CompareBcp47Tags is a total order of languages,       *)
(*   ClosestIsFound   the search of a list finds the closest,               *)
(*   FieldsTile       a tag is cut into fields that cover it,               *)
(*   GrammarAccepted  the machine accepts the tags of a grammar,            *)
(*   PackageFound     a candidate goes to the package of its language.      *)
(***************************************************************************)
EXTENDS LanguageTag, Recursion, SequenceTheorems, FiniteSetTheorems, TLAPS

-----------------------------------------------------------------------------
(***************************************************************************)
(* One step of the machine: which field a subtag is taken for, and what is  *)
(* then the state.                                                         *)
(***************************************************************************)
ParserStates ==
  [state : 0 .. 6, at : Nat, valid : BOOLEAN, done : BOOLEAN, map : SUBSET Fields,
   start : [Fields -> Nat], length : [Fields -> Nat],
   extlang : BOOLEAN, extension : BOOLEAN, private : BOOLEAN, read : Nat]

Takes(p, s, field, next) ==
  \/ p.state = 0 /\ IsLanguage(s) /\ field = Language /\ next = 1
  \/ p.state = 0 /\ IsYear(s) /\ field = Variant /\ next = 4
  \/ p.state \in 0 .. 2 /\ IsScript(s) /\ field = Region /\ next = 2
  \/ p.state = 1 /\ IsExtlang(s) /\ ~p.extlang /\ field = Extlang /\ next = 1
  \/ p.state \in 1 .. 2 /\ IsRegion(s) /\ field = Region /\ next = 4
  \/ p.state \in {1, 2, 4} /\ IsVariant(s) /\ field = Variant /\ next = 4
  \/ p.state \in {1, 2, 4, 5} /\ IsSingleton(s) /\ ~p.extension /\ field = Extension /\ next = 5
  \/ p.state = 5 /\ Form[s].len \in 2 .. 8 /\ field = Extension /\ next = 5
  \/ p.state \in {0, 1, 2, 4, 5} /\ Form[s].len = 1 /\ Form[s].x /\ ~p.extension /\ field = PrivateUse /\ next = 6
  \/ p.state = 6 /\ Form[s].len \in 1 .. 8 /\ field = PrivateUse /\ next = 6

StartWith(p, field) == [p.start EXCEPT ![field] = IF field \in p.map THEN @ ELSE p.at]
LengthWith(p, s, field) ==
  [p.length EXCEPT ![field] = IF field \in p.map THEN @ + Form[s].len + 1 ELSE Form[s].len]

\* The machine q is p after it has taken the subtag.
IsTaken(p, q, s, field, next) ==
  /\ q.state = next /\ q.valid = TRUE /\ q.done = FALSE
  /\ q.map = p.map \cup {field}
  /\ q.start = StartWith(p, field)
  /\ q.length = LengthWith(p, s, field)
  /\ q.extlang = (p.extlang \/ field = Extlang)
  /\ q.extension = (IF field = Extension THEN Form[s].len = 1 ELSE p.extension)
  /\ q.private = (p.private \/ p.state = 6)

\* The machine starts in its types.
LEMMA StartType ==
  ASSUME NEW t, LengthOf(t) \in Int
  PROVE  Start(t) \in ParserStates
  BY DEF Start, ParserStates, Fields

\* Accept written out.
LEMMA AcceptIs ==
  ASSUME NEW p \in ParserStates, NEW s \in Subtag, NEW ok \in BOOLEAN, NEW field \in Fields, NEW next \in 0 .. 6
  PROVE  LET q == Accept(p, s, ok, field, next)
         IN  /\ q.state = next /\ q.valid = ok
             /\ q.at = p.at /\ q.done = p.done
             /\ q.map = p.map \cup {field}
             /\ q.start = StartWith(p, field) /\ q.length = LengthWith(p, s, field)
             /\ q.extlang = p.extlang /\ q.extension = p.extension /\ q.private = p.private /\ q.read = p.read
  BY DEF Accept, ParserStates, StartWith, LengthWith

\* To accept a subtag keeps the types.
LEMMA AcceptType ==
  ASSUME NEW p \in ParserStates, NEW s \in Subtag, NEW ok \in BOOLEAN, NEW field \in Fields, NEW next \in 0 .. 6
  PROVE  Accept(p, s, ok, field, next) \in ParserStates
  <1>1. StartWith(p, field) \in [Fields -> Nat] /\ LengthWith(p, s, field) \in [Fields -> Nat]
    BY FormAssumption DEF ParserStates, StartWith, LengthWith
  <1> QED  BY <1>1 DEF Accept, ParserStates, StartWith, LengthWith

\* The table of transitions, by the length of a subtag.
LEMMA Transition ==
  ASSUME NEW n \in 1 .. 8
  PROVE  /\ StateTransitions[0][n] = IF n = 1 THEN 9 ELSE IF n \in 2 .. 3 THEN 1 ELSE IF n = 4 THEN 4 ELSE 0
         /\ StateTransitions[1][n] = IF n = 1 THEN 9 ELSE IF n = 2 THEN 6 ELSE IF n = 3 THEN 2 ELSE IF n = 4 THEN 4 ELSE 8
         /\ StateTransitions[2][n] = IF n = 1 THEN 9 ELSE IF n = 2 THEN 6 ELSE IF n = 3 THEN 7 ELSE IF n = 4 THEN 4 ELSE 8
         /\ StateTransitions[4][n] = IF n = 1 THEN 9 ELSE IF n \in 2 .. 3 THEN 12 ELSE IF n = 4 THEN 5 ELSE 8
         /\ StateTransitions[5][n] = IF n = 1 THEN 9 ELSE 10
         /\ StateTransitions[6][n] = 11
  <1>1. /\ StateTransitions[0] = <<9, 1, 1, 4, 0, 0, 0, 0>>
        /\ StateTransitions[1] = <<9, 6, 2, 4, 8, 8, 8, 8>>
        /\ StateTransitions[2] = <<9, 6, 7, 4, 8, 8, 8, 8>>
        /\ StateTransitions[4] = <<9, 12, 12, 5, 8, 8, 8, 8>>
        /\ StateTransitions[5] = <<9, 10, 10, 10, 10, 10, 10, 10>>
        /\ StateTransitions[6] = <<11, 11, 11, 11, 11, 11, 11, 11>>
    BY DEF StateTransitions
  <1>2. n \in {1, 2, 3, 4, 5, 6, 7, 8}
    OBVIOUS
  <1> QED  BY <1>1, <1>2

\* A machine that can run, which the start is and every step keeps so.
Sound(p) ==
  /\ p \in ParserStates /\ p.state # 3
  /\ p.state = 0 <=> p.at = 0

\* What an action makes of the machine and a subtag.
Does(p, q, s, grandfathered) ==
  /\ q \in ParserStates /\ q.at = p.at /\ q.read = p.read
  /\ q.valid => Running(q) \/ grandfathered
  /\ q.valid /\ q.done => q.map = p.map /\ q.start = p.start
  /\ Running(q) => \E field \in Fields, next \in 0 .. 6 : Takes(p, s, field, next)
  /\ \A field \in Fields, next \in 0 .. 6 : Takes(p, s, field, next) => IsTaken(p, q, s, field, next)

\* Where no field takes the subtag the run ends.
LEMMA EndsRun ==
  ASSUME NEW p \in ParserStates, NEW s \in Subtag, NEW g \in BOOLEAN,
         \A field \in Fields, next \in 0 .. 6 : ~Takes(p, s, field, next)
  PROVE  Does(p, Reject(p), s, g) /\ Does(p, Finish(p, g), s, g)
  <1>1. /\ Reject(p) \in ParserStates /\ Reject(p).valid = FALSE
        /\ Reject(p).at = p.at /\ Reject(p).read = p.read
    BY DEF Reject, ParserStates
  <1>2. /\ Finish(p, g) \in ParserStates /\ Finish(p, g).done = TRUE /\ Finish(p, g).valid = g
        /\ Finish(p, g).at = p.at /\ Finish(p, g).read = p.read
        /\ Finish(p, g).map = p.map /\ Finish(p, g).start = p.start
    BY DEF Finish, ParserStates
  <1>3. Does(p, Reject(p), s, g)
    BY <1>1 DEF Does, Running
  <1>4. Does(p, Finish(p, g), s, g)
    BY <1>2 DEF Does, Running
  <1> QED  BY <1>3, <1>4

\* At most one field takes a subtag.
LEMMA TakesOnce ==
  ASSUME NEW p, NEW s \in Subtag, NEW f1, NEW f2, NEW n1, NEW n2, Takes(p, s, f1, n1), Takes(p, s, f2, n2)
  PROVE  f1 = f2 /\ n1 = n2
  BY FormAssumption
  DEF Takes, Language, Extlang, Region, Variant, Extension, PrivateUse, IsLanguage, IsExtlang, IsScript, IsRegion,
      IsYear, IsVariant, IsSingleton, Is

\* It is a field, and the machine goes on to a state.
LEMMA TakenType ==
  ASSUME NEW p, NEW s, NEW field, NEW next, Takes(p, s, field, next)
  PROVE  field \in Fields /\ next \in 0 .. 6
  BY DEF Takes, Language, Extlang, Region, Variant, Extension, PrivateUse, Fields

\* The field and the state of the condition ok are those the subtag may be
\* taken for.
Decides(p, s, ok, field, next) ==
  /\ (ok = TRUE) <=> Takes(p, s, field, next)
  /\ \A f \in Fields, n \in 0 .. 6 : Takes(p, s, f, n) => f = field /\ n = next

\* But for its flags q is the machine a, and its flags are those of p.
SameButFlags(q, a) ==
  /\ q.state = a.state /\ q.valid = a.valid /\ q.at = a.at /\ q.done = a.done /\ q.map = a.map
  /\ q.start = a.start /\ q.length = a.length /\ q.read = a.read

Flags(p, q, s, field) ==
  /\ q.extlang = (p.extlang \/ field = Extlang)
  /\ q.extension = (IF field = Extension THEN Form[s].len = 1 ELSE p.extension)
  /\ q.private = (p.private \/ p.state = 6)

\* An action that accepts a field.
LEMMA Accepted ==
  ASSUME NEW p \in ParserStates, NEW s \in Subtag, NEW g \in BOOLEAN, NEW ok \in BOOLEAN,
         NEW field \in Fields, NEW next \in 0 .. 6, NEW q \in ParserStates,
         Running(p), Decides(p, s, ok, field, next),
         SameButFlags(q, Accept(p, s, ok, field, next)), Flags(p, q, s, field)
  PROVE  Does(p, q, s, g)
  <1> DEFINE a == Accept(p, s, ok, field, next)
  <1>a. /\ a.state = next /\ a.valid = ok
        /\ a.at = p.at /\ a.done = p.done
        /\ a.map = p.map \cup {field}
        /\ a.start = StartWith(p, field) /\ a.length = LengthWith(p, s, field)
        /\ a.read = p.read
    BY AcceptIs
  <1>b. SameButFlags(q, a)
    OBVIOUS
  <1> HIDE DEF a
  <1>1. /\ q.state = next /\ q.valid = ok
        /\ q.at = p.at /\ q.done = p.done
        /\ q.map = p.map \cup {field}
        /\ q.start = StartWith(p, field) /\ q.length = LengthWith(p, s, field)
        /\ q.read = p.read
    BY <1>a, <1>b DEF SameButFlags
  <1>2. p.done = FALSE
    BY DEF Running, ParserStates
  <1>3. q.valid => Running(q) \/ g
    BY <1>1, <1>2 DEF Running
  <1>4. Running(q) => \E f \in Fields, n \in 0 .. 6 : Takes(p, s, f, n)
    BY <1>1 DEF Running, Decides
  <1>5. ASSUME NEW f \in Fields, NEW n \in 0 .. 6, Takes(p, s, f, n)
        PROVE  IsTaken(p, q, s, f, n)
    <2>1. f = field /\ n = next /\ ok = TRUE
      BY <1>5 DEF Decides
    <2> QED  BY <2>1, <1>1, <1>2 DEF IsTaken, Flags
  <1>6. ~q.done
    BY <1>1, <1>2
  <1> QED  BY <1>1, <1>3, <1>4, <1>5, <1>6 DEF Does

\* What becomes of a subtag that is accepted, for each way to accept it.
LEMMA AcceptedPlain ==
  ASSUME NEW p \in ParserStates, NEW s \in Subtag, NEW g \in BOOLEAN, NEW ok \in BOOLEAN,
         NEW field \in Fields, NEW next \in 0 .. 6,
         Running(p), p.state # 6, field \notin {Extlang, Extension},
         Decides(p, s, ok, field, next)
  PROVE  Does(p, Accept(p, s, ok, field, next), s, g)
  <1> DEFINE q == Accept(p, s, ok, field, next)
  <1>1. q \in ParserStates
    BY AcceptType
  <1>2. q.extlang = p.extlang /\ q.extension = p.extension /\ q.private = p.private
    BY AcceptIs
  <1>3. p.extlang \in BOOLEAN /\ p.extension \in BOOLEAN /\ p.private \in BOOLEAN
    BY DEF ParserStates
  <1>4. Flags(p, q, s, field)
    BY <1>2, <1>3 DEF Flags
  <1>5. SameButFlags(q, q)
    BY DEF SameButFlags
  <1> QED  BY <1>1, <1>4, <1>5, Accepted

LEMMA AcceptedSurely ==
  ASSUME NEW p \in ParserStates, NEW s \in Subtag, NEW g \in BOOLEAN,
         NEW field \in Fields, NEW next \in 0 .. 6,
         Running(p), p.state # 6, field \notin {Extlang, Extension},
         Decides(p, s, TRUE, field, next)
  PROVE  Does(p, Accept(p, s, TRUE, field, next), s, g)
  BY AcceptedPlain

LEMMA AcceptedExtlang ==
  ASSUME NEW p \in ParserStates, NEW s \in Subtag, NEW g \in BOOLEAN, NEW next \in 0 .. 6,
         Running(p), p.state # 6, Decides(p, s, TRUE, Extlang, next)
  PROVE  Does(p, [Accept(p, s, TRUE, Extlang, next) EXCEPT !.extlang = TRUE], s, g)
  <1> DEFINE a == Accept(p, s, TRUE, Extlang, next)
             q == [a EXCEPT !.extlang = TRUE]
  <1>0. Extlang \in Fields /\ Extlang # Extension
    BY DEF Extlang, Extension, Fields
  <1>1. a \in ParserStates
    BY <1>0, AcceptType
  <1>2. a.extension = p.extension /\ a.private = p.private
    BY DEF Accept, ParserStates
  <1>3. p.extension \in BOOLEAN /\ p.private \in BOOLEAN
    BY DEF ParserStates
  <1> HIDE DEF a
  <1>4. q \in ParserStates /\ SameButFlags(q, a) /\ q.extlang = TRUE /\ q.extension = a.extension /\ q.private = a.private
    BY <1>1 DEF ParserStates, SameButFlags
  <1> HIDE DEF q
  <1>5. Flags(p, q, s, Extlang)
    BY <1>0, <1>2, <1>3, <1>4 DEF Flags
  <1>6. Does(p, q, s, g)
    BY <1>0, <1>4, <1>5, Accepted DEF a
  <1> QED  BY <1>6 DEF q, a

LEMMA AcceptedExtension ==
  ASSUME NEW p \in ParserStates, NEW s \in Subtag, NEW g \in BOOLEAN, NEW next \in 0 .. 6,
         Running(p), p.state # 6, Decides(p, s, TRUE, Extension, next)
  PROVE  Does(p, [Accept(p, s, TRUE, Extension, next) EXCEPT !.extension = (Form[s].len = 1)], s, g)
  <1> DEFINE a == Accept(p, s, TRUE, Extension, next)
             one == Form[s].len = 1
             q == [a EXCEPT !.extension = one]
  <1>0. Extension \in Fields /\ Extlang # Extension
    BY DEF Extlang, Extension, Fields
  <1>1. a \in ParserStates
    BY <1>0, AcceptType
  <1>2. a.extlang = p.extlang /\ a.private = p.private
    BY DEF Accept, ParserStates
  <1>3. p.extlang \in BOOLEAN /\ p.private \in BOOLEAN
    BY DEF ParserStates
  <1> HIDE DEF a
  <1>4. q \in ParserStates /\ SameButFlags(q, a) /\ q.extension = one /\ q.extlang = a.extlang /\ q.private = a.private
    BY <1>1 DEF ParserStates, SameButFlags
  <1> HIDE DEF q
  <1>5. Flags(p, q, s, Extension)
    BY <1>0, <1>2, <1>3, <1>4 DEF Flags
  <1>6. Does(p, q, s, g)
    BY <1>0, <1>4, <1>5, Accepted DEF a
  <1> QED  BY <1>6 DEF q, a

LEMMA AcceptedPrivate ==
  ASSUME NEW p \in ParserStates, NEW s \in Subtag, NEW g \in BOOLEAN, NEW next \in 0 .. 6,
         Running(p), p.state = 6, Decides(p, s, TRUE, PrivateUse, next)
  PROVE  Does(p, [Accept(p, s, TRUE, PrivateUse, next) EXCEPT !.private = TRUE], s, g)
  <1> DEFINE a == Accept(p, s, TRUE, PrivateUse, next)
             q == [a EXCEPT !.private = TRUE]
  <1>0. PrivateUse \in Fields /\ PrivateUse \notin {Extlang, Extension}
    BY DEF Extlang, Extension, PrivateUse, Fields
  <1>1. a \in ParserStates
    BY <1>0, AcceptType
  <1>2. a.extlang = p.extlang /\ a.extension = p.extension
    BY DEF Accept, ParserStates
  <1>3. p.extlang \in BOOLEAN /\ p.extension \in BOOLEAN
    BY DEF ParserStates
  <1> HIDE DEF a
  <1>4. q \in ParserStates /\ SameButFlags(q, a) /\ q.private = TRUE /\ q.extlang = a.extlang /\ q.extension = a.extension
    BY <1>1 DEF ParserStates, SameButFlags
  <1> HIDE DEF q
  <1>5. Flags(p, q, s, PrivateUse)
    BY <1>0, <1>2, <1>3, <1>4 DEF Flags
  <1>6. Does(p, q, s, g)
    BY <1>0, <1>4, <1>5, Accepted DEF a
  <1> QED  BY <1>6 DEF q, a

-----------------------------------------------------------------------------
(* The actions, by the state in which they are taken. *)

\* What a subtag of one character does.
LEMMA SingletonDoes ==
  ASSUME NEW p, Sound(p), NEW s \in Subtag, NEW g \in BOOLEAN, Running(p), p.state # 6, Form[s].len = 1
  PROVE  Does(p, Singleton(p, s, g), s, g)
  <1>0. p \in ParserStates /\ p.state \in {0, 1, 2, 4, 5}
    BY DEF Sound, ParserStates
  <1>1. CASE p.extension
    <2>1. \A field \in Fields, next \in 0 .. 6 : ~Takes(p, s, field, next)
      BY <1>0, <1>1 DEF Takes, IsLanguage, IsYear, IsScript, IsExtlang, IsRegion, IsVariant, IsSingleton, Is
    <2> QED  BY <1>0, <1>1, <2>1, EndsRun DEF Singleton
  <1>2. CASE ~p.extension /\ Form[s].x
    <2>1. Decides(p, s, TRUE, PrivateUse, 6)
      BY <1>0, <1>2 DEF Decides, Takes, IsLanguage, IsYear, IsScript, IsExtlang, IsRegion, IsVariant, IsSingleton, Is
    <2>2. PrivateUse \in Fields /\ PrivateUse \notin {Extlang, Extension}
      BY DEF PrivateUse, Extlang, Extension, Fields
    <2>a. 6 \in 0 .. 6
      OBVIOUS
    <2>3. Does(p, Accept(p, s, TRUE, PrivateUse, 6), s, g)
      BY <1>0, <2>1, <2>2, <2>a, AcceptedSurely, Zenon
    <2>4. PrivateUse = 6
      BY DEF PrivateUse
    <2> QED  BY <1>2, <2>3, <2>4 DEF Singleton
  <1>3. CASE ~p.extension /\ ~Form[s].x /\ p.at # 0
    <2>0. p.state # 0
      BY <1>3 DEF Sound
    <2>1. Decides(p, s, TRUE, Extension, 5)
      BY <1>0, <1>3, <2>0 DEF Decides, Takes, IsLanguage, IsYear, IsScript, IsExtlang, IsRegion, IsVariant, IsSingleton, Is
    <2>a. 5 \in 0 .. 6
      OBVIOUS
    <2>2. Does(p, [Accept(p, s, TRUE, Extension, 5) EXCEPT !.extension = (Form[s].len = 1)], s, g)
      BY <1>0, <2>1, <2>a, AcceptedExtension, Zenon
    <2>3. (Form[s].len = 1) = TRUE
      OBVIOUS
    <2> QED  BY <1>3, <2>2, <2>3 DEF Singleton
  <1>4. CASE ~p.extension /\ ~Form[s].x /\ p.at = 0
    <2>0. p.state = 0
      BY <1>4 DEF Sound
    <2>1. \A field \in Fields, next \in 0 .. 6 : ~Takes(p, s, field, next)
      BY <1>4, <2>0 DEF Takes, IsLanguage, IsYear, IsScript, IsExtlang, IsRegion, IsVariant, IsSingleton, Is
    <2> QED  BY <1>0, <1>4, <2>1, EndsRun DEF Singleton
  <1> QED  BY <1>1, <1>2, <1>3, <1>4

\* The subtags by their form: what their characters say of their kinds.
LEMMA FormOf ==
  ASSUME NEW s \in Subtag
  PROVE  /\ Form[s].len \in Nat
         /\ Form[s].letters \in BOOLEAN /\ Form[s].digits \in BOOLEAN /\ Form[s].digitFirst \in BOOLEAN /\ Form[s].x \in BOOLEAN
         /\ Form[s].len > 0 => Form[s].letters \/ Form[s].digits
         /\ Form[s].len = 1 => ~(Form[s].letters /\ Form[s].digits)
         /\ Form[s].digitFirst => Form[s].digits
         /\ Form[s].x => Form[s].letters
  BY FormAssumption

\* The fields by name, and the states by number.
LEMMA FieldsAre ==
  /\ {Language, Extlang, Region, Variant, Extension, PrivateUse} \subseteq Fields
  /\ {Language, Region, Variant, PrivateUse} \cap {Extlang, Extension} = {}
  /\ {0, 1, 2, 4, 5, 6} \subseteq 0 .. 6
  BY DEF Language, Extlang, Region, Variant, Extension, PrivateUse, Fields

\* What a turn of ParseTag does: it takes the subtag, or ends.
LEMMA ActDoes ==
  ASSUME NEW p, Sound(p), NEW s \in Subtag, NEW g \in BOOLEAN, Running(p), Form[s].len \in 1 .. 8
  PROVE  Does(p, Act(p, s, StateTransitions[p.state][Form[s].len], g), s, g)
  <1> DEFINE n == Form[s].len
             act == Act(p, s, StateTransitions[p.state][n], g)
  <1>0. /\ p \in ParserStates /\ p.state \in {0, 1, 2, 4, 5, 6}
        /\ n \in 1 .. 8
    BY DEF Sound, ParserStates
  <1>1. CASE n = 1 /\ p.state # 6
    <2>1. StateTransitions[p.state][n] = 9
      BY <1>0, <1>1, Transition
    <2>2. act = Singleton(p, s, g)
      BY <2>1 DEF Act
    <2> QED  BY <1>1, <2>2, SingletonDoes
  <1>2. CASE p.state = 0 /\ n \in 2 .. 3
    <2>1. StateTransitions[p.state][n] = 1
      BY <1>2, Transition
    <2>2. act = Accept(p, s, ~Form[s].digits, Language, 1)
      BY <2>1 DEF Act
    <2>3. Decides(p, s, ~Form[s].digits, Language, 1)
      BY <1>2, FormOf DEF Decides, Takes, IsLanguage, IsYear, IsScript, IsExtlang, IsRegion, IsVariant, IsSingleton, Is
    <2>4. p.state # 6 /\ (~Form[s].digits) \in BOOLEAN /\ 1 \in 0 .. 6
      BY <1>2
    <2>5. Does(p, Accept(p, s, ~Form[s].digits, Language, 1), s, g)
      BY <1>0, <2>3, <2>4, FieldsAre, AcceptedPlain, Zenon
    <2> QED  BY <2>2, <2>5
  <1>3. CASE p.state = 0 /\ n \in 5 .. 8
    <2>1. StateTransitions[p.state][n] = 0
      BY <1>3, Transition
    <2>2. act = Reject(p)
      BY <2>1 DEF Act
    <2>3. \A field \in Fields, next \in 0 .. 6 : ~Takes(p, s, field, next)
      BY <1>3 DEF Takes, IsLanguage, IsYear, IsScript, IsExtlang, IsRegion, IsVariant, IsSingleton, Is
    <2> QED  BY <1>0, <2>2, <2>3, EndsRun
  <1>4. CASE p.state \in 0 .. 2 /\ n = 4
    <2>1. StateTransitions[p.state][n] = 4
      BY <1>0, <1>4, Transition
    <2>2. p.state # 6 /\ 4 \in 0 .. 6 /\ 2 \in 0 .. 6
      BY <1>4
    <2>3. CASE Form[s].digits
      <3>1. act = Accept(p, s, Form[s].digitFirst, Variant, 4)
        BY <2>1, <2>3 DEF Act
      <3>2. Decides(p, s, Form[s].digitFirst, Variant, 4)
        BY <1>0, <1>4, <2>3, FormOf DEF Decides, Takes, IsLanguage, IsYear, IsScript, IsExtlang, IsRegion, IsVariant, IsSingleton, Is
      <3>3. Form[s].digitFirst \in BOOLEAN
        BY FormOf
      <3>4. Does(p, Accept(p, s, Form[s].digitFirst, Variant, 4), s, g)
        BY <1>0, <2>2, <3>2, <3>3, FieldsAre, AcceptedPlain, Zenon
      <3> QED  BY <3>1, <3>4
    <2>4. CASE ~Form[s].digits
      <3>1. act = Accept(p, s, TRUE, Region, 2)
        BY <2>1, <2>4 DEF Act
      <3>2. Decides(p, s, TRUE, Region, 2)
        BY <1>0, <1>4, <2>4, FormOf DEF Decides, Takes, IsLanguage, IsYear, IsScript, IsExtlang, IsRegion, IsVariant, IsSingleton, Is
      <3>3. Does(p, Accept(p, s, TRUE, Region, 2), s, g)
        BY <1>0, <2>2, <3>2, FieldsAre, AcceptedSurely, Zenon
      <3> QED  BY <3>1, <3>3
    <2> QED  BY <2>3, <2>4
  <1>5. CASE p.state \in 1 .. 2 /\ n = 2
    <2>1. StateTransitions[p.state][n] = 6
      BY <1>0, <1>5, Transition
    <2>2. p.state # 6 /\ 4 \in 0 .. 6
      BY <1>5
    <2>3. CASE Form[s].digits
      <3>1. act = Reject(p)
        BY <2>1, <2>3 DEF Act
      <3>2. \A field \in Fields, next \in 0 .. 6 : ~Takes(p, s, field, next)
        BY <1>5, <2>3, FormOf DEF Takes, IsLanguage, IsYear, IsScript, IsExtlang, IsRegion, IsVariant, IsSingleton, Is
      <3> QED  BY <1>0, <3>1, <3>2, EndsRun
    <2>4. CASE ~Form[s].digits
      <3>1. act = Accept(p, s, TRUE, Region, 4)
        BY <2>1, <2>4 DEF Act
      <3>2. Decides(p, s, TRUE, Region, 4)
        BY <1>0, <1>5, <2>4, FormOf DEF Decides, Takes, IsLanguage, IsYear, IsScript, IsExtlang, IsRegion, IsVariant, IsSingleton, Is
      <3>3. Does(p, Accept(p, s, TRUE, Region, 4), s, g)
        BY <1>0, <2>2, <3>2, FieldsAre, AcceptedSurely, Zenon
      <3> QED  BY <3>1, <3>3
    <2> QED  BY <2>3, <2>4
  <1>6. CASE p.state = 1 /\ n = 3
    <2>0. StateTransitions[p.state][n] = 2
      BY <1>6, Transition
    <2>1. act = ExtlangOrRegion(p, s)
      BY <2>0 DEF Act
    <2>2. p.state # 6 /\ 4 \in 0 .. 6 /\ 1 \in 0 .. 6
      BY <1>6
    <2>3. CASE (Form[s].digits /\ Form[s].letters) \/ (~Form[s].digits /\ p.extlang)
      <3>1. act = Reject(p)
        BY <2>1, <2>3 DEF ExtlangOrRegion
      <3>2. \A field \in Fields, next \in 0 .. 6 : ~Takes(p, s, field, next)
        BY <1>6, <2>3, FormOf DEF Takes, IsLanguage, IsYear, IsScript, IsExtlang, IsRegion, IsVariant, IsSingleton, Is
      <3> QED  BY <1>0, <3>1, <3>2, EndsRun
    <2>4. CASE Form[s].digits /\ ~Form[s].letters
      <3>1. act = Accept(p, s, TRUE, Region, 4)
        BY <2>1, <2>4 DEF ExtlangOrRegion
      <3>2. Decides(p, s, TRUE, Region, 4)
        BY <1>0, <1>6, <2>4, FormOf DEF Decides, Takes, IsLanguage, IsYear, IsScript, IsExtlang, IsRegion, IsVariant, IsSingleton, Is
      <3>3. Does(p, Accept(p, s, TRUE, Region, 4), s, g)
        BY <1>0, <2>2, <3>2, FieldsAre, AcceptedSurely, Zenon
      <3> QED  BY <3>1, <3>3
    <2>5. CASE ~Form[s].digits /\ ~p.extlang
      <3>1. act = [Accept(p, s, TRUE, Extlang, 1) EXCEPT !.extlang = TRUE]
        BY <2>1, <2>5 DEF ExtlangOrRegion
      <3>2. Decides(p, s, TRUE, Extlang, 1)
        BY <1>0, <1>6, <2>5, FormOf DEF Decides, Takes, IsLanguage, IsYear, IsScript, IsExtlang, IsRegion, IsVariant, IsSingleton, Is
      <3>3. Does(p, [Accept(p, s, TRUE, Extlang, 1) EXCEPT !.extlang = TRUE], s, g)
        BY <1>0, <2>2, <3>2, AcceptedExtlang, Zenon
      <3> QED  BY <3>1, <3>3
    <2> QED  BY <2>3, <2>4, <2>5
  <1>7. CASE p.state = 2 /\ n = 3
    <2>1. StateTransitions[p.state][n] = 7
      BY <1>7, Transition
    <2>2. p.state # 6 /\ 4 \in 0 .. 6
      BY <1>7
    <2>3. CASE Form[s].letters
      <3>1. act = Reject(p)
        BY <2>1, <2>3 DEF Act
      <3>2. \A field \in Fields, next \in 0 .. 6 : ~Takes(p, s, field, next)
        BY <1>7, <2>3, FormOf DEF Takes, IsLanguage, IsYear, IsScript, IsExtlang, IsRegion, IsVariant, IsSingleton, Is
      <3> QED  BY <1>0, <3>1, <3>2, EndsRun
    <2>4. CASE ~Form[s].letters
      <3>1. act = Accept(p, s, TRUE, Region, 4)
        BY <2>1, <2>4 DEF Act
      <3>2. Decides(p, s, TRUE, Region, 4)
        BY <1>0, <1>7, <2>4, FormOf DEF Decides, Takes, IsLanguage, IsYear, IsScript, IsExtlang, IsRegion, IsVariant, IsSingleton, Is
      <3>3. Does(p, Accept(p, s, TRUE, Region, 4), s, g)
        BY <1>0, <2>2, <3>2, FieldsAre, AcceptedSurely, Zenon
      <3> QED  BY <3>1, <3>3
    <2> QED  BY <2>3, <2>4
  <1>8. CASE p.state \in {1, 2, 4} /\ n \in 5 .. 8
    <2>1. StateTransitions[p.state][n] = 8
      BY <1>0, <1>8, Transition
    <2>2. p.state # 6 /\ 4 \in 0 .. 6
      BY <1>8
    <2>3. act = Accept(p, s, TRUE, Variant, 4)
      BY <2>1 DEF Act
    <2>4. Decides(p, s, TRUE, Variant, 4)
      BY <1>0, <1>8, FormOf DEF Decides, Takes, IsLanguage, IsYear, IsScript, IsExtlang, IsRegion, IsVariant, IsSingleton, Is
    <2>5. Does(p, Accept(p, s, TRUE, Variant, 4), s, g)
      BY <1>0, <2>2, <2>4, FieldsAre, AcceptedSurely, Zenon
    <2> QED  BY <2>3, <2>5
  <1>9. CASE p.state = 4 /\ n = 4
    <2>1. StateTransitions[p.state][n] = 5
      BY <1>9, Transition
    <2>2. p.state # 6 /\ Form[s].digitFirst \in BOOLEAN /\ 4 \in 0 .. 6
      BY <1>9, FormOf
    <2>3. act = Accept(p, s, Form[s].digitFirst, Variant, 4)
      BY <2>1 DEF Act
    <2>4. Decides(p, s, Form[s].digitFirst, Variant, 4)
      BY <1>9, FormOf DEF Decides, Takes, IsLanguage, IsYear, IsScript, IsExtlang, IsRegion, IsVariant, IsSingleton, Is
    <2>5. Does(p, Accept(p, s, Form[s].digitFirst, Variant, 4), s, g)
      BY <1>0, <2>2, <2>4, FieldsAre, AcceptedPlain, Zenon
    <2> QED  BY <2>3, <2>5
  <1>10. CASE p.state = 4 /\ n \in 2 .. 3
    <2>1. StateTransitions[p.state][n] = 12
      BY <1>10, Transition
    <2>2. act = Finish(p, g)
      BY <2>1 DEF Act
    <2>3. \A field \in Fields, next \in 0 .. 6 : ~Takes(p, s, field, next)
      BY <1>10 DEF Takes, IsLanguage, IsYear, IsScript, IsExtlang, IsRegion, IsVariant, IsSingleton, Is
    <2> QED  BY <1>0, <2>2, <2>3, EndsRun
  <1>11. CASE p.state = 5 /\ n # 1
    <2>1. StateTransitions[p.state][n] = 10
      BY <1>11, <1>0, Transition
    <2>2. p.state # 6 /\ 5 \in 0 .. 6 /\ (Form[s].len = 1) = FALSE
      BY <1>11
    <2>3. act = [Accept(p, s, TRUE, Extension, 5) EXCEPT !.extension = FALSE]
      BY <2>1 DEF Act
    <2>4. Decides(p, s, TRUE, Extension, 5)
      BY <1>0, <1>11, FormOf DEF Decides, Takes, IsLanguage, IsYear, IsScript, IsExtlang, IsRegion, IsVariant, IsSingleton, Is
    <2>5. Does(p, [Accept(p, s, TRUE, Extension, 5) EXCEPT !.extension = (Form[s].len = 1)], s, g)
      BY <1>0, <2>2, <2>4, AcceptedExtension, Zenon
    <2> QED  BY <2>2, <2>3, <2>5
  <1>12. CASE p.state = 6
    <2>1. StateTransitions[p.state][n] = 11
      BY <1>12, <1>0, Transition
    <2>2. 6 \in 0 .. 6
      OBVIOUS
    <2>3. act = [Accept(p, s, TRUE, PrivateUse, 6) EXCEPT !.private = TRUE]
      BY <2>1 DEF Act
    <2>4. Decides(p, s, TRUE, PrivateUse, 6)
      BY <1>0, <1>12, FormOf DEF Decides, Takes, IsLanguage, IsYear, IsScript, IsExtlang, IsRegion, IsVariant, IsSingleton, Is
    <2>5. Does(p, [Accept(p, s, TRUE, PrivateUse, 6) EXCEPT !.private = TRUE], s, g)
      BY <1>0, <1>12, <2>2, <2>4, AcceptedPrivate, Zenon
    <2> QED  BY <2>3, <2>5
  <1> QED  BY <1>0, <1>1, <1>2, <1>3, <1>4, <1>5, <1>6, <1>7, <1>8, <1>9, <1>10, <1>11, <1>12

\* The machine has read on to the place at.
LEMMA ReadsOn ==
  ASSUME NEW n \in ParserStates, NEW at \in Nat
  PROVE  [n EXCEPT !.at = at, !.read = @ + 1] \in ParserStates
  <1> DEFINE m == [n EXCEPT !.at = at]
             next == n.read + 1
  <1>1. m \in ParserStates /\ m.read = n.read
    BY DEF ParserStates
  <1>2. next \in Nat
    BY DEF ParserStates
  <1>3. [n EXCEPT !.at = at, !.read = @ + 1] = [m EXCEPT !.read = next]
    BY DEF ParserStates
  <1> HIDE DEF m, next
  <1>4. [m EXCEPT !.read = next] \in ParserStates
    BY <1>1, <1>2 DEF ParserStates
  <1> QED  BY <1>3, <1>4

\* A step reads the subtag: it is taken for one field, or the run is over.
LEMMA StepDoes ==
  ASSUME NEW p, Sound(p), NEW s \in Subtag, NEW g \in BOOLEAN, Running(p)
  PROVE  LET q == Step(p, s, g)
         IN  /\ q \in ParserStates
             /\ q.at = p.at + Form[s].len + 1 /\ q.read = p.read + 1
             /\ q.valid => Running(q) \/ g
             /\ q.valid /\ q.done => q.map = p.map /\ q.start = p.start
             /\ Running(q) => \E field \in Fields, next \in 0 .. 6 : Takes(p, s, field, next)
             /\ \A field \in Fields, next \in 0 .. 6 : Takes(p, s, field, next) => IsTaken(p, q, s, field, next)
  <1> DEFINE n == IF Form[s].len \in 1 .. 8
                    THEN Act(p, s, StateTransitions[p.state][Form[s].len], g)
                    ELSE Reject(p)
             at == p.at + Form[s].len + 1
             q == [n EXCEPT !.at = at, !.read = @ + 1]
  <1>1. Does(p, n, s, g)
    <2>1. CASE Form[s].len \in 1 .. 8
      BY <2>1, ActDoes
    <2>2. CASE Form[s].len \notin 1 .. 8
      <3>1. \A field \in Fields, next \in 0 .. 6 : ~Takes(p, s, field, next)
        BY <2>2, FormOf DEF Takes, IsLanguage, IsYear, IsScript, IsExtlang, IsRegion, IsVariant, IsSingleton, Is
      <3>2. p \in ParserStates
        BY DEF Sound
      <3>3. Does(p, Reject(p), s, g)
        BY <3>1, <3>2, EndsRun
      <3> QED  BY <2>2, <3>3
    <2> QED  BY <2>1, <2>2
  <1> HIDE DEF n
  <1>2. n \in ParserStates /\ n.at = p.at /\ n.read = p.read
    BY <1>1 DEF Does
  <1>3. at \in Nat
    BY FormOf DEF Sound, ParserStates
  <1>5. q = Step(p, s, g)
    BY DEF Step, n
  <1>at. at = p.at + Form[s].len + 1
    OBVIOUS
  <1> HIDE DEF at
  <1>a. q \in ParserStates
    BY <1>2, <1>3, ReadsOn
  <1>b. q.at = at /\ q.read = p.read + 1
    BY <1>2 DEF ParserStates
  <1>c. /\ q.state = n.state /\ q.valid = n.valid /\ q.done = n.done /\ q.map = n.map
        /\ q.start = n.start /\ q.length = n.length
        /\ q.extlang = n.extlang /\ q.extension = n.extension /\ q.private = n.private
    BY <1>2 DEF ParserStates
  <1>4. /\ q \in ParserStates
        /\ q.at = p.at + Form[s].len + 1 /\ q.read = p.read + 1
        /\ q.state = n.state /\ q.valid = n.valid /\ q.done = n.done /\ q.map = n.map
        /\ q.start = n.start /\ q.length = n.length
        /\ q.extlang = n.extlang /\ q.extension = n.extension /\ q.private = n.private
    BY <1>a, <1>b, <1>c, <1>at
  <1> HIDE DEF q
  <1>6. q.valid => Running(q) \/ g
    BY <1>1, <1>4 DEF Does, Running
  <1>7. Running(q) => \E field \in Fields, next \in 0 .. 6 : Takes(p, s, field, next)
    BY <1>1, <1>4 DEF Does, Running
  <1>8. \A field \in Fields, next \in 0 .. 6 : Takes(p, s, field, next) => IsTaken(p, q, s, field, next)
    BY <1>1, <1>4 DEF Does, IsTaken
  <1>9. q.valid /\ q.done => q.map = p.map /\ q.start = p.start
    BY <1>1, <1>4 DEF Does
  <1> QED  BY <1>4, <1>5, <1>6, <1>7, <1>8, <1>9

-----------------------------------------------------------------------------
(* The places where subtags begin. *)

\* A tag is a sequence of subtags with a length.
LEMMA SubtagsOf ==
  ASSUME NEW t \in Seq(Subtag)
  PROVE  Len(t) \in Nat /\ \A n \in 1 .. Len(t) : t[n] \in Subtag /\ Form[t[n]].len \in Nat
  BY FormAssumption

\* A subtag begins one place after the one before has ended.
LEMMA Starts ==
  ASSUME NEW t \in Seq(Subtag)
  PROVE  /\ StartOf(t, 1) = 0
         /\ \A i \in 1 .. Len(t) :
              StartOf(t, i) \in Nat /\ StartOf(t, i + 1) \in Nat /\ StartOf(t, i + 1) = StartOf(t, i) + Form[t[i]].len + 1
  <1>0. Len(t) \in Nat
    BY SubtagsOf
  <1>a. Len(t) \in Nat /\ \A n \in 1 .. Len(t) : Form[t[n]].len \in Nat
    BY SubtagsOf
  <1> DEFINE e == [n \in 1 .. Len(t) |-> Form[t[n]].len]
             d == [n \in Nat |-> IF n + 1 \in 1 .. Len(t) THEN e[n + 1] + 1 ELSE 0]
  <1>1. \A n \in 1 .. Len(t) : e[n] = Form[t[n]].len /\ e[n] \in Nat
    BY <1>a
  <1>2. d \in [Nat -> Nat] /\ \A n \in Nat : n + 1 \in 1 .. Len(t) => d[n] = e[n + 1] + 1
    <2> HIDE DEF e
    <2> QED  BY <1>1
  <1> HIDE DEF d
  <1>3. PICK f \in [Nat -> Nat] : f[0] = 0 /\ \A n \in Nat : f[n + 1] = f[n] + d[n]
    BY <1>2, SumsExist
  <1>4. ASSUME NEW i \in 1 .. Len(t) + 1
        PROVE  StartOf(t, i) = f[i - 1]
    <2>a. i \in Nat /\ i > 0
      BY <1>0
    <2>b. \A n \in Nat : n + 1 < i => n + 1 \in 1 .. Len(t)
      BY <1>0, <2>a
    <2>1. i \in Nat /\ i > 0 /\ \A n \in Nat : n + 1 < i => n + 1 \in 1 .. Len(t)
      BY <2>a, <2>b
    <2>2. \A n \in Nat : n + 1 < i => f[n + 1] = f[n] + e[n + 1] + 1
      <3>1. ASSUME NEW n \in Nat, n + 1 < i
            PROVE  f[n + 1] = f[n] + e[n + 1] + 1
        <4>1. n + 1 \in 1 .. Len(t)
          BY <3>1, <2>b
        <4> HIDE DEF e
        <4>2. e[n + 1] \in Nat /\ f[n] \in Nat
          BY <4>1, <1>1
        <4>3. d[n] = e[n + 1] + 1
          BY <4>1, <1>2
        <4>4. f[n + 1] = f[n] + d[n]
          BY <1>3
        <4>5. ASSUME NEW v, NEW w \in Nat, NEW x \in Nat, v = w + (x + 1)
              PROVE  v = w + x + 1
          BY <4>5
        <4> QED  BY <4>2, <4>3, <4>4, <4>5
      <3> QED  BY <3>1
    <2> DEFINE Defines(at) == at = [j \in 1 .. i |-> IF j = 1 THEN 0 ELSE at[j - 1] + Form[t[j - 1]].len + 1]
               c == CHOOSE at : Defines(at)
    <2>d. ASSUME NEW at
          PROVE  SumTo(at, e, i) <=> Defines(at)
      <3>1. \A j \in 1 .. i : j # 1 => e[j - 1] = Form[t[j - 1]].len
        BY <2>a, <1>a
      <3>2. [j \in 1 .. i |-> IF j = 1 THEN 0 ELSE at[j - 1] + Form[t[j - 1]].len + 1]
              = [j \in 1 .. i |-> IF j = 1 THEN 0 ELSE at[j - 1] + e[j - 1] + 1]
        <4> HIDE DEF e
        <4> QED  BY <3>1
      <3> HIDE DEF e
      <3> QED  BY <3>2 DEF SumTo
    <2>e. (\E at : SumTo(at, e, i)) /\ \A at : SumTo(at, e, i) => at[i] = f[i - 1]
      <3> HIDE DEF e
      <3> QED  BY <1>3, <2>a, <2>2, SumsAre, Zenon
    <2>f. Defines(c)
      <3> HIDE DEF e, Defines
      <3> QED  BY <2>e, <2>d, Zenon
    <2>3. SumTo(c, e, i)
      <3> HIDE DEF e, Defines, c
      <3> QED  BY <2>d, <2>f, Zenon
    <2>4. c[i] = f[i - 1]
      <3> HIDE DEF e, c
      <3> QED  BY <2>e, <2>3, Zenon
    <2>5. StartOf(t, i) = c[i]
      BY DEF StartOf
    <2> QED  BY <2>4, <2>5
  <1>5. StartOf(t, 1) = 0
    BY <1>3, <1>4, <1>a
  <1>6. ASSUME NEW i \in 1 .. Len(t)
        PROVE  StartOf(t, i) \in Nat /\ StartOf(t, i + 1) \in Nat /\ StartOf(t, i + 1) = StartOf(t, i) + Form[t[i]].len + 1
    <2>1. /\ i \in 1 .. Len(t) + 1 /\ i + 1 \in 1 .. Len(t) + 1 /\ (i + 1) - 1 = i
          /\ i - 1 \in Nat /\ (i - 1) + 1 = i /\ i \in Nat
      BY <1>a
    <2>2. StartOf(t, i) = f[i - 1] /\ StartOf(t, i + 1) = f[i]
      BY <1>4, <2>1
    <2>3. f[i] = f[i - 1] + e[i] + 1 /\ f[i] \in Nat /\ f[i - 1] \in Nat
      <3>1. f[i] = f[i - 1] + d[i - 1] /\ f[i] \in Nat /\ f[i - 1] \in Nat
        BY <1>3, <2>1
      <3>2. d[i - 1] = e[i] + 1 /\ e[i] \in Nat
        <4> HIDE DEF e
        <4> QED  BY <1>1, <1>2, <2>1
      <3>3. ASSUME NEW v, NEW w \in Nat, NEW x \in Nat, v = w + (x + 1)
            PROVE  v = w + x + 1
        BY <3>3
      <3> HIDE DEF e
      <3> QED  BY <3>1, <3>2, <3>3
    <2> HIDE DEF e
    <2>4. e[i] = Form[t[i]].len
      BY <1>1
    <2>5. StartOf(t, i + 1) = StartOf(t, i) + Form[t[i]].len + 1
      BY <2>2, <2>3, <2>4
    <2>6. StartOf(t, i) \in Nat /\ StartOf(t, i + 1) \in Nat
      BY <2>2, <2>3
    <2> QED  BY <2>5, <2>6
  <1> QED  BY <1>5, <1>6

-----------------------------------------------------------------------------
(* How close two languages are. *)

\* How close two regions are that are not the same.
LEMMA RegionsAre ==
  ASSUME NEW a, NEW b, a # b
  PROVE  CompareRegions(a, b) \in {0, 25, 50, 75}
  BY DEF CompareRegions

\* The affinity of two regions is one of a few.
LEMMA AffinityIs ==
  ASSUME NEW l, NEW m, l.compact.region # m.compact.region
  PROVE  RegionAffinity(l, m) \in {75, 76, 77, 80, 84, 86, 88}
  <1> DEFINE a == l.compact.region
             b == m.compact.region
             distances == {CompareRegions(a, b), CompareRegions(b, a)} \ {0}
  <1>1. distances \subseteq {25, 50, 75}
    BY RegionsAre
  <1>2. distances # {} => GroupAffinity(Max(distances)) \in {84, 86, 88}
    <2> HIDE DEF distances
    <2> SUFFICES ASSUME distances # {} PROVE GroupAffinity(Max(distances)) \in {84, 86, 88}
      OBVIOUS
    <2>1. \E x \in distances : \A y \in distances : x >= y
      <3>0. distances = {} \/ 75 \in distances \/ 50 \in distances \/ 25 \in distances
        BY <1>1
      <3>1. CASE 75 \in distances
        <4>1. 75 \in distances /\ \A y \in distances : 75 >= y
          BY <1>1, <3>1
        <4> QED  BY <4>1
      <3>2. CASE 75 \notin distances /\ 50 \in distances
        <4>1. 50 \in distances /\ \A y \in distances : 50 >= y
          BY <1>1, <3>2
        <4> QED  BY <4>1
      <3>3. CASE 75 \notin distances /\ 50 \notin distances
        <4>0. 25 \in distances
          BY <3>0, <3>3
        <4>1. 25 \in distances /\ \A y \in distances : 25 >= y
          BY <1>1, <3>3, <4>0
        <4> QED  BY <4>1
      <3> QED  BY <3>1, <3>2, <3>3
    <2>2. Max(distances) \in distances
      BY <2>1 DEF Max
    <2> DEFINE x == Max(distances)
    <2>3. x \in {25, 50, 75}
      BY <1>1, <2>2
    <2> HIDE DEF x
    <2>4. GroupAffinity(x) \in {84, 86, 88}
      BY <2>3 DEF GroupAffinity
    <2> QED  BY <2>4 DEF x
  <1>3. EnglishAffinity(a, b) \in {75, 76, 77}
    BY DEF EnglishAffinity
  <1> DEFINE near == {a, b} \cap Table.groups # {} /\ None \notin {a, b} /\ distances # {}
             neutral == {a, b} \cap NeutralRegions # {}
             english == l.compact.lang = English /\ EnglishAffinity(a, b) # 75
             mui == Format(l) = MuiForm(m) \/ MuiForm(l) = Format(m)
  <1>4. RegionAffinity(l, m) = IF near THEN GroupAffinity(Max(distances)) ELSE IF neutral THEN 80
                               ELSE IF english THEN EnglishAffinity(a, b) ELSE IF mui THEN 76 ELSE 75
    BY DEF RegionAffinity
  <1>5. near => distances # {}
    OBVIOUS
  <1> HIDE DEF near, neutral, english, mui, distances
  <1> QED  BY <1>2, <1>3, <1>4, <1>5

\* The closeness of languages is one of a few.
LEMMA ClosenessIs ==
  ASSUME NEW l, NEW m
  PROVE  Closeness(l, m) \in Closenesses
  BY AffinityIs DEF Closeness, Closenesses

\* So is what Compare makes of it.
LEMMA CompareIs ==
  ASSUME NEW l, NEW m
  PROVE  Compare(l, m) \in Closenesses
  <1> DEFINE c == Closeness(l, m)
             d == IF DifferentPseudo(l, m) THEN Lowered[c] ELSE c
  <1>1. d \in Closenesses
    BY ClosenessIs DEF Lowered, Closenesses
  <1> HIDE DEF c, d
  <1>2. Raised({l, m})[d] \in Closenesses
    BY <1>1 DEF Raised, Closenesses
  <1>3. 0 \in Closenesses
    BY DEF Closenesses
  <1> QED  BY <1>2, <1>3 DEF Compare, c, d

\* And what the search sees; the language of everything is close to all.
LEMMA ComparisonIs ==
  ASSUME NEW l, NEW m
  PROVE  /\ Comparison(l, m) \in Closenesses
         /\ ~IsAny(l) => Comparison(l, m) = Compare(l, m)
         /\ IsAny(l) /\ l.compact.script \in AnyScript => Comparison(l, m) > 0
  <1> DEFINE c == Compare(l, m)
  <1>1. c \in Closenesses
    BY CompareIs
  <1> HIDE DEF c
  <1>2. Comparison(l, m) = IF ~IsAny(l) THEN c
                           ELSE IF c = 40 THEN 65
                           ELSE IF l.compact.script \in AnyScript /\ c < 60 THEN 60 ELSE c
    BY <1>1 DEF Comparison, Adjusted, c
  <1>3. c \in Int /\ 0 <= c /\ c <= 100 /\ Comparison(l, m) \in Closenesses
    BY <1>1, <1>2 DEF Closenesses
  <1>4. ~IsAny(l) => Comparison(l, m) = Compare(l, m)
    BY <1>2 DEF c
  <1>5. IsAny(l) /\ l.compact.script \in AnyScript => Comparison(l, m) > 0
    BY <1>2, <1>3
  <1> QED  BY <1>3, <1>4, <1>5

-----------------------------------------------------------------------------
(***************************************************************************)
(* The types: a machine that can still run is sound, and a search has not   *)
(* begun before the list is there.                                         *)
(***************************************************************************)
SearchStates ==
  [index : Nat, closest : Nat, score : Closenesses, status : {"OK", "NO_MATCH", "INVALID"}, done : BOOLEAN]

TypeInv ==
  /\ tag \in Tags /\ list \in Seq(Seq(Subtag)) /\ read \in BOOLEAN
  /\ parser \in ParserStates /\ parser.read <= Len(Replaced(tag))
  /\ Running(parser) => Sound(parser)
  /\ search \in SearchStates /\ search.index <= Len(list) /\ search.closest <= search.index
  /\ ~read => search = NotSearched

\* The tag that is parsed is a tag.
LEMMA ReplacedType ==
  ASSUME NEW t \in Seq(Subtag)
  PROVE  Replaced(t) \in Seq(Subtag)
  BY TagsAssumption DEF Replaced

\* The length of a tag is a number.
LEMMA LengthType ==
  ASSUME NEW t \in Seq(Subtag)
  PROVE  LengthOf(t) \in Int
  <1>1. Len(t) \in Nat
    BY SubtagsOf
  <1>2. StartOf(t, 1) = 0 /\ \A i \in 1 .. Len(t) : StartOf(t, i + 1) \in Nat
    BY Starts
  <1>3. StartOf(t, Len(t) + 1) \in Nat
    <2>1. CASE Len(t) = 0
      <3>1. Len(t) + 1 = 1
        BY <2>1
      <3> QED  BY <1>2, <3>1
    <2>2. CASE Len(t) # 0
      <3>1. Len(t) \in 1 .. Len(t)
        BY <1>1, <2>2
      <3> QED  BY <1>2, <3>1
    <2> QED  BY <2>1, <2>2
  <1> QED  BY <1>3 DEF LengthOf

\* A step keeps a machine sound that can still run after it.
LEMMA StaysSound ==
  ASSUME NEW p, Sound(p), Running(p), NEW s \in Subtag, NEW g \in BOOLEAN
  PROVE  /\ Step(p, s, g) \in ParserStates /\ Step(p, s, g).read = p.read + 1
         /\ Running(Step(p, s, g)) => Sound(Step(p, s, g))
  <1> DEFINE q == Step(p, s, g)
  <1>1. /\ q \in ParserStates
        /\ q.at = p.at + Form[s].len + 1 /\ q.read = p.read + 1
        /\ Running(q) => \E field \in Fields, next \in 0 .. 6 : Takes(p, s, field, next)
        /\ \A field \in Fields, next \in 0 .. 6 : Takes(p, s, field, next) => IsTaken(p, q, s, field, next)
    BY StepDoes
  <1> HIDE DEF q
  <1>2. ASSUME Running(q)
        PROVE  Sound(q)
    <2>1. PICK field \in Fields, next \in 0 .. 6 : Takes(p, s, field, next)
      BY <1>1, <1>2
    <2>2. q.state = next
      BY <1>1, <2>1 DEF IsTaken
    <2>3. next # 0 /\ next # 3
      BY <2>1 DEF Takes
    <2>4. q.at > 0
      BY <1>1, FormOf DEF Sound, ParserStates
    <2> QED  BY <1>1, <2>2, <2>3, <2>4 DEF Sound
  <1> QED  BY <1>1, <1>2 DEF q

\* A search that looks at the next item stays within its list.
LEMMA LookedType ==
  ASSUME TypeInv, NEW i, i = search.index + 1, i <= Len(list), NEW c \in Closenesses
  PROVE  /\ Looked(i, c) \in SearchStates
         /\ Looked(i, c).index <= Len(list) /\ Looked(i, c).closest <= Looked(i, c).index
  <1>1. /\ search \in SearchStates /\ search.index <= Len(list) /\ search.closest <= search.index
        /\ search.index \in Nat /\ search.closest \in Nat
    BY DEF TypeInv, SearchStates
  <1>2. i \in Nat /\ search.closest <= i
    BY <1>1
  <1>3. 0 \in Closenesses
    BY DEF Closenesses
  <1> DEFINE found == [search EXCEPT !.index = i, !.closest = i, !.score = c]
  <1>4. found \in SearchStates /\ found.index = i /\ found.closest = i
    BY <1>1, <1>2 DEF SearchStates
  <1> DEFINE Fine(q) == q \in SearchStates /\ q.index <= Len(list) /\ q.closest <= q.index
             passed == [search EXCEPT !.index = i]
             failed == [search EXCEPT !.status = "INVALID", !.done = TRUE]
             first == [found EXCEPT !.status = "OK", !.done = TRUE]
             later == [search EXCEPT !.index = i, !.closest = 0, !.score = 0, !.status = "OK"]
             last == [found EXCEPT !.status = IF LooksTooFar(i, c) THEN "INVALID" ELSE "OK", !.done = TRUE]
  <1>a. Fine(passed)
    BY <1>1, <1>2 DEF SearchStates
  <1>b. Fine(failed)
    BY <1>1 DEF SearchStates
  <1>c. Fine(later)
    <2>1. later \in SearchStates
      BY <1>1, <1>2, <1>3 DEF SearchStates
    <2>2. later.index = i /\ later.closest = 0
      BY <1>1 DEF SearchStates
    <2> HIDE DEF later
    <2> QED  BY <1>2, <2>1, <2>2
  <1>6. Fine(found)
    BY <1>4, <1>2
  <1>7. Fine(first) /\ Fine(last)
    <2> HIDE DEF found
    <2> QED  BY <1>4, <1>6 DEF SearchStates
  <1>8. Looked(i, c) \in {passed, failed, first, found, later, last}
    BY DEF Looked
  <1> HIDE DEF passed, failed, first, found, later, last
  <1>9. Fine(Looked(i, c))
    <2> HIDE DEF Fine
    <2> QED  BY <1>a, <1>b, <1>c, <1>6, <1>7, <1>8
  <1> QED  BY <1>9

\* TypeInv holds at first.
LEMMA TypeInvInit ==
  ASSUME Init
  PROVE  TypeInv
  <1>1. tag \in Tags /\ tag \in Seq(Subtag) /\ list = <<>> /\ read = FALSE /\ search = NotSearched
    BY TagsAssumption DEF Init
  <1>2. Replaced(tag) \in Seq(Subtag)
    BY <1>1, ReplacedType
  <1>3. LengthOf(Replaced(tag)) \in Int /\ Len(Replaced(tag)) \in Nat
    BY <1>2, LengthType, SubtagsOf
  <1>4. parser = Start(Replaced(tag))
    BY DEF Init
  <1>5. parser \in ParserStates /\ parser.read = 0 /\ parser.state = 0 /\ parser.at = 0
    BY <1>3, <1>4, StartType DEF Start
  <1>6. parser.read <= Len(Replaced(tag)) /\ Sound(parser)
    BY <1>3, <1>5 DEF Sound
  <1>7. /\ search \in SearchStates /\ search.index <= Len(list) /\ search.closest <= search.index
        /\ list \in Seq(Seq(Subtag))
    BY <1>1 DEF NotSearched, SearchStates, Closenesses
  <1> QED  BY <1>1, <1>5, <1>6, <1>7 DEF TypeInv

\* TypeInv is inductive.
LEMMA TypeInvNext ==
  ASSUME TypeInv, [Next]_vars
  PROVE  TypeInv'
  <1>1. CASE ReadSubtag
    <2>1. Replaced(tag) \in Seq(Subtag)
      BY TagsAssumption, ReplacedType DEF TypeInv
    <2>2. Len(Replaced(tag)) \in Nat /\ parser.read \in Nat
      BY <2>1 DEF TypeInv, ParserStates
    <2>3. Replaced(tag)[parser.read + 1] \in Subtag /\ parser.read + 1 <= Len(Replaced(tag))
      BY <1>1, <2>1, <2>2 DEF ReadSubtag
    <2>4. Grandfathered(tag) \in BOOLEAN /\ Running(parser) /\ Sound(parser)
      BY <1>1 DEF Grandfathered, ReadSubtag, TypeInv
    <2>5. parser' = Step(parser, Replaced(tag)[parser.read + 1], Grandfathered(tag))
      BY <1>1 DEF ReadSubtag
    <2>6. parser' \in ParserStates /\ (parser').read = parser.read + 1 /\ (Running(parser') => Sound(parser'))
      BY <2>3, <2>4, <2>5, StaysSound
    <2>7. UNCHANGED <<tag, list, read, search>>
      BY <1>1 DEF ReadSubtag
    <2> QED  BY <2>3, <2>6, <2>7 DEF TypeInv, Replaced
  <1>2. CASE Construct
    <2>1. list' \in Seq(Seq(Subtag)) /\ read' = TRUE /\ UNCHANGED <<tag, parser, search>> /\ search = NotSearched
      BY <1>2, TagsAssumption DEF Construct, TypeInv
    <2>2. Len(list') \in Nat
      BY <2>1
    <2> QED  BY <2>1, <2>2 DEF TypeInv, NotSearched, Replaced
  <1>3. CASE FindClosest
    <2>1. UNCHANGED <<tag, list, read, parser>> /\ read
      BY <1>3 DEF FindClosest
    <2>2. PICK i, c : /\ i = search.index + 1 /\ search.index < Len(list)
                      /\ c = Comparison(language, listed[i]) /\ search' = Looked(i, c)
      BY <1>3 DEF FindClosest, Look
    <2>3. c \in Closenesses
      BY <2>2, ComparisonIs
    <2>4. i <= Len(list)
      BY <2>2 DEF TypeInv, SearchStates
    <2>5. /\ search' \in SearchStates /\ (search').index <= Len(list) /\ (search').closest <= (search').index
      BY <2>2, <2>3, <2>4, LookedType
    <2> QED  BY <2>1, <2>5 DEF TypeInv, Replaced
  <1>4. CASE GetPackagingInfo
    BY <1>4 DEF GetPackagingInfo, TypeInv, Replaced
  <1>5. CASE UNCHANGED vars
    BY <1>5 DEF vars, TypeInv, Replaced
  <1> QED  BY <1>1, <1>2, <1>3, <1>4, <1>5 DEF Next

\* The machine stays in its states and a search within its list, whatever the
\* tables are.
THEOREM TypeCorrect == Spec => []TypeOK
  <1>1. TypeInv => TypeOK
    BY DEF TypeInv, TypeOK, ParserStates, SearchStates
  <1> QED  BY TypeInvInit, TypeInvNext, <1>1, PTL DEF Spec

-----------------------------------------------------------------------------
(***************************************************************************)
(* What a language is made of: names the tables know, or none.             *)
(***************************************************************************)
IsCompact(c) ==
  /\ c.lang \in Subtag \cup {None} /\ c.script \in Subtag \cup {None}
  /\ c.region \in Table.regions \cup {None}
  /\ c.lang = Undetermined => c.script \in AnyScript

\* The tables have subtags.
LEMMA TablesAre ==
  /\ Table.languages \subseteq Subtag /\ Table.scripts \subseteq Subtag /\ Table.regions \subseteq Subtag
  /\ DOMAIN Table.extlangs \subseteq Subtag
  BY TableAssumption

\* A language whose script is filled in is compact.
LEMMA SuppressedCompact ==
  ASSUME NEW lang \in Subtag \cup {None}, NEW region \in Table.regions \cup {None}, NEW variant
  PROVE  LET c == [lang |-> lang, script |-> None, region |-> region, variant |-> variant]
         IN  IsCompact(c) /\ IsCompact(SuppressedScript(c).to)
  <1> DEFINE c == [lang |-> lang, script |-> None, region |-> region, variant |-> variant]
             drops == InCompactTable(c) /\ <<c.lang, c.script>> \notin Table.parents
             kept == IF drops THEN [c EXCEPT !.region = None] ELSE c
             default == IF lang \in DOMAIN Table.suppress THEN Table.suppress[lang]
                        ELSE IF lang \in DOMAIN Table.written THEN Table.written[lang]
                        ELSE None
             to == [kept EXCEPT !.script = default]
  <1>1. c.lang = lang /\ c.script = None /\ c.region = region
    OBVIOUS
  <1>2. default \in Subtag \cup {None}
    BY TablesAre, TableAssumption
  <1>3. lang = Undetermined => default \in AnyScript
    BY UndeterminedAssumption
  <1>4. IsCompact(c)
    BY <1>1 DEF IsCompact, AnyScript
  <1>5. kept = [lang |-> lang, script |-> None, region |-> kept.region, variant |-> variant] /\ kept.region \in Table.regions \cup {None}
    <2> HIDE DEF drops
    <2> QED  OBVIOUS
  <1> HIDE DEF drops, default
  <1>6. to.lang = lang /\ to.script = default /\ to.region \in Table.regions \cup {None} /\ kept.lang = lang /\ kept.script = None
    <2> HIDE DEF kept
    <2> QED  BY <1>5
  <1>7. IsCompact(to) /\ IsCompact(kept)
    <2> HIDE DEF to, kept
    <2> QED  BY <1>2, <1>3, <1>5, <1>6 DEF IsCompact, AnyScript
  <1>8. SuppressedScript(c).to \in {kept, to}
    BY DEF SuppressedScript, default, drops
  <1> HIDE DEF to, kept
  <1> QED  BY <1>4, <1>7, <1>8

\* So is a language that is looked up.
LEMMA PlainCompact ==
  ASSUME NEW t, NEW p, NEW g
  PROVE  IsCompact(ValidatePlain(t, p, g).compact)
  <1> DEFINE first == IF Language \in p.map THEN FindLanguage(t[1]) ELSE None
             extlang == ExtlangMatches(t, p, first)
             lang == IF extlang THEN SubtagAt(t, p.start[Extlang]) ELSE first
             map == IF extlang THEN p.map \ {Extlang} ELSE p.map
             region == IF Region \in map THEN FindRegion(t, p) ELSE None
             named == [lang |-> lang, script |-> None, region |-> region, variant |-> FindVariant(t, p, lang)]
  <1>1. FindLanguage(t[1]) \in Subtag \cup {None}
    BY TablesAre, TableAssumption DEF FindLanguage, Lookup
  <1>2. first \in Subtag \cup {None}
    BY <1>1
  <1>3. extlang => SubtagAt(t, p.start[Extlang]) \in Subtag
    BY TablesAre DEF ExtlangMatches
  <1>4. lang \in Subtag \cup {None}
    <2> HIDE DEF extlang, first
    <2> QED  BY <1>2, <1>3
  <1>5. FindRegion(t, p) \in Table.regions \cup {None}
    BY TableAssumption DEF FindRegion, Lookup
  <1>6. region \in Table.regions \cup {None}
    BY <1>5
  <1>7. IsCompact(named) /\ IsCompact(SuppressedScript(named).to)
    <2> HIDE DEF region, lang
    <2> QED  BY <1>4, <1>6, SuppressedCompact
  <1>8. ValidatePlain(t, p, g).compact \in {named, SuppressedScript(named).to}
    <2> DEFINE known == first # None /\ (Region \in map => region # None)
               found == SuppressedScript(named)
    <2>2. ValidatePlain(t, p, g) = IF known THEN Filled(t, p, g, extlang, map, TRUE, found.to, found.suppressed)
                                   ELSE Filled(t, p, g, extlang, map, FALSE, named, FALSE)
      BY DEF ValidatePlain
    <2> HIDE DEF first, extlang, map, region, named, lang, known
    <2>3. /\ Filled(t, p, g, extlang, map, TRUE, found.to, found.suppressed).compact = found.to
          /\ Filled(t, p, g, extlang, map, FALSE, named, FALSE).compact = named
      <3> HIDE DEF found
      <3> QED  BY DEF Filled
    <2> HIDE DEF found
    <2>4. ValidatePlain(t, p, g).compact \in {named, found.to}
      BY <2>2, <2>3
    <2> QED  BY <2>4 DEF found
  <1> HIDE DEF named
  <1> QED  BY <1>7, <1>8

\* So is any language.
LEMMA CompactIs ==
  ASSUME NEW t
  PROVE  IsCompact(LanguageOf(t).compact)
  <1>1. IsCompact(NoLanguage)
    BY DEF IsCompact, NoLanguage, None, Undetermined
  <1>2. ASSUME NEW v \in DOMAIN Table.pseudo
        PROVE  IsCompact(Table.pseudo[v])
    BY TablesAre, TableAssumption, UndeterminedAssumption DEF IsCompact
  <1>3. LanguageOf(t).compact = Validate(t).compact
    BY DEF LanguageOf, ValidateTagAndInitialize
  <1>4. ASSUME NEW v, NEW p, NEW g
        PROVE  IsCompact(ValidateParsed(v, p, g).compact)
    <2>1. Unknown(p, FALSE).compact = NoLanguage /\ Unknown(p, TRUE).compact = NoLanguage
      BY DEF Unknown
    <2>2. PseudoLocale(p, Table.pseudo[v]).compact = Table.pseudo[v]
      BY DEF PseudoLocale
    <2> QED  BY <1>1, <1>2, <2>1, <2>2, PlainCompact DEF ValidateParsed
  <1> QED  BY <1>3, <1>4 DEF Validate

-----------------------------------------------------------------------------
(* The order of tags. *)

\* The order of tags is that of the indexes of their names.
Indexes == [lang : Nat, script : Nat, region : Nat]
IndexesOf(c) == [lang |-> Table.rank[c.lang], script |-> Table.rank[c.script], region |-> Table.rank[c.region]]

Order(x, y) ==
  IF Sign(x.lang, y.lang) # 0 THEN Sign(x.lang, y.lang)
  ELSE IF Sign(x.script, y.script) # 0 THEN Sign(x.script, y.script)
  ELSE IF x.region = 0 \/ y.region = 0 THEN -Sign(x.region, y.region)
  ELSE Sign(x.region, y.region)

\* y is not before x.
NotAfter(x, y) ==
  \/ x.lang < y.lang
  \/ x.lang = y.lang /\ x.script < y.script
  \/ x.lang = y.lang /\ x.script = y.script /\ (y.region = 0 \/ (x.region # 0 /\ x.region <= y.region))

\* The order of indexes is antisymmetric,
LEMMA OrderOfTwo ==
  ASSUME NEW x \in Indexes, NEW y \in Indexes
  PROVE  /\ Order(x, y) = -Order(y, x)
         /\ Order(x, y) <= 0 <=> NotAfter(x, y)
  <1>0. \A a, b \in Nat : Sign(a, b) = IF a < b THEN -1 ELSE IF a > b THEN 1 ELSE 0
    BY DEF Sign
  <1>a. /\ x.lang \in Nat /\ x.script \in Nat /\ x.region \in Nat
        /\ y.lang \in Nat /\ y.script \in Nat /\ y.region \in Nat
    BY DEF Indexes
  <1>1. CASE x.lang # y.lang
    <2>1. \/ Sign(x.lang, y.lang) = -1 /\ Sign(y.lang, x.lang) = 1 /\ x.lang < y.lang
          \/ Sign(x.lang, y.lang) = 1 /\ Sign(y.lang, x.lang) = -1 /\ y.lang < x.lang
      BY <1>0, <1>a, <1>1
    <2>2. Order(x, y) = Sign(x.lang, y.lang) /\ Order(y, x) = Sign(y.lang, x.lang)
      BY <2>1 DEF Order
    <2> QED  BY <1>1, <1>a, <2>1, <2>2 DEF NotAfter
  <1>2. CASE x.lang = y.lang /\ x.script # y.script
    <2>1. \/ Sign(x.script, y.script) = -1 /\ Sign(y.script, x.script) = 1 /\ x.script < y.script
          \/ Sign(x.script, y.script) = 1 /\ Sign(y.script, x.script) = -1 /\ y.script < x.script
      BY <1>0, <1>a, <1>2
    <2>2. Sign(x.lang, y.lang) = 0 /\ Sign(y.lang, x.lang) = 0
      BY <1>0, <1>a, <1>2
    <2>3. Order(x, y) = Sign(x.script, y.script) /\ Order(y, x) = Sign(y.script, x.script)
      BY <2>1, <2>2 DEF Order
    <2> QED  BY <1>2, <1>a, <2>1, <2>3 DEF NotAfter
  <1>3. CASE x.lang = y.lang /\ x.script = y.script
    <2>1. Sign(x.lang, y.lang) = 0 /\ Sign(y.lang, x.lang) = 0 /\ Sign(x.script, y.script) = 0 /\ Sign(y.script, x.script) = 0
      BY <1>0, <1>a, <1>3
    <2>2. /\ Order(x, y) = IF x.region = 0 \/ y.region = 0 THEN -Sign(x.region, y.region) ELSE Sign(x.region, y.region)
          /\ Order(y, x) = IF x.region = 0 \/ y.region = 0 THEN -Sign(y.region, x.region) ELSE Sign(y.region, x.region)
      BY <2>1 DEF Order
    <2>3. /\ Sign(x.region, y.region) = -Sign(y.region, x.region) /\ Sign(x.region, y.region) \in -1 .. 1
          /\ Sign(y.region, x.region) \in -1 .. 1
          /\ Sign(x.region, y.region) <= 0 <=> x.region <= y.region
          /\ -Sign(x.region, y.region) <= 0 <=> y.region <= x.region
      BY <1>0, <1>a
    <2> QED  BY <1>3, <1>a, <2>2, <2>3 DEF NotAfter
  <1> QED  BY <1>1, <1>2, <1>3

\* and transitive.
LEMMA OrderOfThree ==
  ASSUME NEW x \in Indexes, NEW y \in Indexes, NEW z \in Indexes, Order(x, y) <= 0, Order(y, z) <= 0
  PROVE  Order(x, z) <= 0
  <1>1. NotAfter(x, y) /\ NotAfter(y, z)
    BY OrderOfTwo
  <1>2. NotAfter(x, z)
    BY <1>1 DEF NotAfter, Indexes
  <1> QED  BY <1>2, OrderOfTwo

\* CompareTags is this order, of the indexes of two languages.
LEMMA OrderIs ==
  ASSUME NEW a, NEW b, IsCompact(a), IsCompact(b)
  PROVE  IndexesOf(a) \in Indexes /\ CompareTags(a, b) = Order(IndexesOf(a), IndexesOf(b))
  <1>1. /\ Table.rank[a.lang] \in Nat /\ Table.rank[a.script] \in Nat /\ Table.rank[a.region] \in Nat
        /\ a.region = None <=> Table.rank[a.region] = 0
        /\ b.region = None <=> Table.rank[b.region] = 0
    BY TableAssumption DEF IsCompact
  <1>2. IndexesOf(a) \in Indexes
    BY <1>1 DEF IndexesOf, Indexes
  <1>3. CompareTags(a, b) = Order(IndexesOf(a), IndexesOf(b))
    BY <1>1 DEF CompareTags, Order, IndexesOf
  <1> QED  BY <1>2, <1>3

\* So it is antisymmetric and transitive.
LEMMA Ordered ==
  ASSUME NEW a, NEW b, NEW c, IsCompact(a), IsCompact(b), IsCompact(c)
  PROVE  /\ CompareTags(a, b) = -CompareTags(b, a)
         /\ CompareTags(a, b) <= 0 /\ CompareTags(b, c) <= 0 => CompareTags(a, c) <= 0
  <1> DEFINE x == IndexesOf(a)
             y == IndexesOf(b)
             z == IndexesOf(c)
  <1>1. /\ x \in Indexes /\ y \in Indexes /\ z \in Indexes
        /\ CompareTags(a, b) = Order(x, y) /\ CompareTags(b, a) = Order(y, x)
        /\ CompareTags(b, c) = Order(y, z) /\ CompareTags(a, c) = Order(x, z)
    BY OrderIs
  <1> HIDE DEF x, y, z
  <1>2. Order(x, y) = -Order(y, x)
    BY <1>1, OrderOfTwo
  <1>3. Order(x, y) <= 0 /\ Order(y, z) <= 0 => Order(x, z) <= 0
    BY <1>1, OrderOfThree
  <1> QED  BY <1>1, <1>2, <1>3

LanguagesInv ==
  IsCompact(language.compact) /\ \A i \in DOMAIN listed : IsCompact(listed[i].compact)

\* LanguagesInv holds at first.
LEMMA LanguagesInvInit ==
  ASSUME Init
  PROVE  LanguagesInv
  BY CompactIs DEF Init, LanguagesInv

\* LanguagesInv is inductive.
LEMMA LanguagesInvNext ==
  ASSUME LanguagesInv, [Next]_vars
  PROVE  LanguagesInv'
  <1>1. CASE Construct
    <2>1. language' = LanguageOf(tag) /\ listed' = [i \in DOMAIN list' |-> Listed[list'[i]]]
      BY <1>1 DEF Construct
    <2>2. IsCompact((language').compact)
      BY <2>1, CompactIs
    <2>3. ASSUME NEW i \in DOMAIN listed'
          PROVE  IsCompact((listed')[i].compact)
      <3>1. i \in DOMAIN list' /\ (listed')[i] = Listed[list'[i]]
        BY <2>1
      <3>2. list' \in Lists
        BY <1>1, <3>1 DEF Construct
      <3>3. list'[i] \in UNION {ToSet(l) : l \in Lists}
        BY <3>1, <3>2 DEF ToSet
      <3>4. Listed[list'[i]] = LanguageOf(list'[i])
        BY <3>3 DEF Listed
      <3> QED  BY <3>1, <3>4, CompactIs
    <2> QED  BY <2>2, <2>3 DEF LanguagesInv
  <1>2. CASE ReadSubtag
    BY <1>2 DEF ReadSubtag, LanguagesInv
  <1>3. CASE FindClosest
    BY <1>3 DEF FindClosest, LanguagesInv
  <1>4. CASE GetPackagingInfo
    BY <1>4 DEF GetPackagingInfo, LanguagesInv
  <1>5. CASE UNCHANGED vars
    BY <1>5 DEF vars, LanguagesInv
  <1> QED  BY <1>1, <1>2, <1>3, <1>4, <1>5 DEF Next

\* CompareBcp47Tags is a total preorder of the tags of any list and language.
THEOREM TotallyOrdered == Spec => []OrderIsTotal
  <1>1. LanguagesInv => OrderIsTotal
    <2> SUFFICES ASSUME LanguagesInv PROVE OrderIsTotal
      OBVIOUS
    <2> DEFINE all == {l.compact : l \in ToSet(listed)} \cup {language.compact}
    <2>1. \A c \in all : IsCompact(c)
      BY DEF LanguagesInv, ToSet
    <2> HIDE DEF all
    <2>2. \A a, b, c \in all : /\ CompareTags(a, b) = -CompareTags(b, a)
                               /\ CompareTags(a, b) <= 0 /\ CompareTags(b, c) <= 0 => CompareTags(a, c) <= 0
      BY <2>1, Ordered, Zenon
    <2>3. \A a, b \in all :
            /\ CompareTags(a, b) = -CompareTags(b, a)
            /\ \A c \in all : CompareTags(a, b) <= 0 /\ CompareTags(b, c) <= 0 => CompareTags(a, c) <= 0
      BY <2>2, Zenon
    <2> QED  BY <2>3 DEF OrderIsTotal, all
  <1> QED  BY LanguagesInvInit, LanguagesInvNext, <1>1, PTL DEF Spec

-----------------------------------------------------------------------------
(***************************************************************************)
(* The search.  c[i] is how close the language is to the i-th of the n of   *)
(* the list.                                                               *)
(***************************************************************************)
\* The k-th is the one to find.
Wanted(k, c, n) ==
  /\ k \in 1 .. n /\ c[k] >= 75
  /\ IF c[k] >= 80 THEN \A j \in 1 .. n : j < k => c[j] < 80
     ELSE \A j \in 1 .. n : c[j] < 80 /\ (c[j] < c[k] \/ (c[j] = c[k] /\ j <= k))

\* What is known during the search: nothing seen so far is what is looked for,
\* and whatever was close is surpassed by what is still to come.
Sought(s, c, n) ==
  IF s.done THEN s.status = "OK" /\ Wanted(s.closest, c, n)
  ELSE /\ s.score < 75
       /\ s.status = "OK" => \E k \in 1 .. n : k > s.index /\ c[k] >= 75
       /\ \A j \in 1 .. n : j <= s.index =>
            c[j] < 80 /\ (c[j] >= 75 => \E k \in 1 .. n : k > s.index /\ c[k] >= c[j])

Nearness == [i \in DOMAIN list |-> Compare(language, listed[i])]

AllShort == \A i \in DOMAIN list : ~TooLong(list[i])

SearchInv ==
  read /\ AllShort =>
    IF IsAny(language) THEN search = NotSearched \/ (search.done /\ search.status = "OK" /\ search.closest = 1)
    ELSE Sought(search, Nearness, Len(list))

\* The items after one are looked at as the loop looks at them.
LEMMA ReachesIs ==
  ASSUME list \in Seq(Seq(Subtag)), AllShort, NEW i \in DOMAIN list, NEW least
  PROVE  /\ Reaches(i, least) <=> \E k \in 1 .. Len(list) : k > i /\ Nearness[k] >= least
         /\ ~LooksTooFar(i, least)
  <1>1. Len(list) \in Nat /\ DOMAIN list = 1 .. Len(list) /\ i \in 1 .. Len(list)
    OBVIOUS
  <1>2. \A k \in 1 .. Len(list) : ~TooLong(list[k]) /\ Nearness[k] = Compare(language, listed[k])
    BY <1>1 DEF AllShort, Nearness
  <1>3. \A k : k \in i + 1 .. Len(list) <=> k \in 1 .. Len(list) /\ k > i
    BY <1>1
  <1>4. Reaches(i, least) <=> \E k \in i + 1 .. Len(list) : Compare(language, listed[k]) >= least
    <2>1. \A j \in i + 1 .. Len(list) : \A k \in i + 1 .. j : k \in 1 .. Len(list)
      BY <1>1
    <2> QED  BY <1>2, <2>1 DEF Reaches
  <1>5. ~LooksTooFar(i, least)
    BY <1>2, <1>3 DEF LooksTooFar
  <1> QED  BY <1>2, <1>3, <1>4, <1>5

\* One round of the loop.
LEMMA LookedFinds ==
  ASSUME TypeInv, AllShort, ~IsAny(language), ~search.done, search.index < Len(list),
         Sought(search, Nearness, Len(list)),
         NEW i, i = search.index + 1
  PROVE  Sought(Looked(i, Comparison(language, listed[i])), Nearness, Len(list))
  <1> DEFINE n == Len(list)
             c == Nearness
             q == Looked(i, c[i])
  <1>0. \A v \in Closenesses : v \in Nat
    BY DEF Closenesses
  <1>1. /\ search \in SearchStates /\ search.index \in Nat /\ search.score \in Closenesses
        /\ search.status \in {"OK", "NO_MATCH", "INVALID"}
        /\ n \in Nat /\ DOMAIN list = 1 .. n /\ list \in Seq(Seq(Subtag))
    BY DEF TypeInv, SearchStates
  <1>2. i \in 1 .. n /\ i \in Nat
    BY <1>1
  <1>3. \A j \in 1 .. n : c[j] = Compare(language, listed[j]) /\ c[j] \in Nat
    <2> TAKE j \in 1 .. n
    <2>1. c[j] = Compare(language, listed[j])
      BY <1>1 DEF Nearness
    <2>2. Compare(language, listed[j]) \in Closenesses
      BY CompareIs
    <2> QED  BY <1>0, <2>1, <2>2
  <1>4. Comparison(language, listed[i]) = c[i]
    BY <1>2, <1>3, ComparisonIs
  <1>5. ~TooLong(list[i])
    BY <1>1, <1>2 DEF AllShort
  <1>6. (Reaches(i, c[i]) <=> \E k \in 1 .. n : k > i /\ c[k] >= c[i]) /\ ~LooksTooFar(i, c[i])
    BY <1>1, <1>2, ReachesIs
  <1>7. Sought(search, c, n)
    OBVIOUS
  <1> SUFFICES Sought(q, c, n)
    BY <1>4
  <1> HIDE DEF c, n
  <1>8. /\ search.score \in Nat /\ search.score < 75
        /\ search.status = "OK" => \E k \in 1 .. n : k >= i /\ c[k] >= 75
        /\ \A j \in 1 .. n : j < i =>
             c[j] < 80 /\ (c[j] >= 75 => \E k \in 1 .. n : k >= i /\ c[k] >= c[j])
    <2>1. /\ search.score < 75
          /\ search.status = "OK" => \E k \in 1 .. n : k > search.index /\ c[k] >= 75
          /\ \A j \in 1 .. n : j <= search.index =>
               c[j] < 80 /\ (c[j] >= 75 => \E k \in 1 .. n : k > search.index /\ c[k] >= c[j])
      BY <1>7 DEF Sought
    <2>2. \A k \in 1 .. n : (k > search.index <=> k >= i) /\ (k <= search.index <=> k < i)
      BY <1>1, <1>2
    <2>3. search.score \in Nat
      BY <1>0, <1>1
    <2> QED  BY <2>1, <2>2, <2>3
  <1>9. c[i] \in Nat
    BY <1>2, <1>3
  <1> DEFINE found == [search EXCEPT !.index = i, !.closest = i, !.score = c[i]]
  <1>10. /\ found \in SearchStates /\ found.index = i /\ found.closest = i /\ found.score = c[i]
         /\ found.status = search.status /\ found.done = FALSE
    <2>1. c[i] \in Closenesses
      BY <1>2, <1>4, ComparisonIs
    <2> QED  BY <1>1, <1>2, <2>1 DEF SearchStates
  <1>a. CASE c[i] <= search.score
    <2>1. q = [search EXCEPT !.index = i]
      BY <1>5, <1>a DEF Looked
    <2>2. q.index = i /\ q.score = search.score /\ q.status = search.status /\ q.done = FALSE
      BY <1>1, <2>1 DEF SearchStates
    <2>3. c[i] < 75
      BY <1>8, <1>9, <1>a
    <2> HIDE DEF q
    <2> QED  BY <1>2, <1>3, <1>8, <2>2, <2>3 DEF Sought

  <1>b. CASE c[i] >= 80
    <2>1. c[i] > search.score
      BY <1>8, <1>9, <1>b
    <2>2. q = [found EXCEPT !.status = "OK", !.done = TRUE]
      BY <1>1, <1>5, <1>8, <1>9, <1>b DEF Looked
    <2>3. q.closest = i /\ q.status = "OK" /\ q.done = TRUE
      <3> HIDE DEF found
      <3> QED  BY <1>10, <2>2 DEF SearchStates
    <2>4. Wanted(i, c, n)
      BY <1>2, <1>8, <1>9, <1>b DEF Wanted
    <2> HIDE DEF q
    <2> QED  BY <2>3, <2>4 DEF Sought
  <1>c. CASE c[i] > search.score /\ c[i] < 75
    <2>1. ~(c[i] <= search.score) /\ ~(c[i] >= 80)
      BY <1>8, <1>9, <1>c
    <2>2. q = found
      BY <1>5, <1>c, <2>1 DEF Looked
    <2>3. q.index = i /\ q.score = c[i] /\ q.status = search.status /\ q.done = FALSE
      BY <1>10, <2>2
    <2>4. \A j \in 1 .. n : j <= i => j = i \/ j < i
      BY <1>2
    <2>5. \A k \in 1 .. n : k >= i /\ c[k] >= 75 => k > i
      BY <1>2, <1>9, <1>c
    <2>6. \A j \in 1 .. n : j <= i =>
            c[j] < 80 /\ (c[j] >= 75 => \E k \in 1 .. n : k > i /\ c[k] >= c[j])
      <3> TAKE j \in 1 .. n
      <3>1. CASE j = i
        BY <1>9, <1>c, <3>1
      <3>2. CASE j < i
        <4>1. ASSUME NEW k \in 1 .. n, k >= i, c[k] >= c[j], c[j] >= 75
              PROVE  k > i
          BY <1>3, <2>5, <4>1
        <4> QED  BY <1>8, <3>2, <4>1
      <3> QED  BY <2>4, <3>1, <3>2
    <2>7. search.status = "OK" => \E k \in 1 .. n : k > i /\ c[k] >= 75
      BY <1>8, <2>5
    <2> HIDE DEF q
    <2> QED  BY <1>c, <2>3, <2>6, <2>7 DEF Sought
  <1>d. CASE c[i] \in 75 .. 79 /\ Reaches(i, c[i])
    <2>1. ~(c[i] <= search.score) /\ ~(c[i] >= 80) /\ ~(c[i] < 75)
      BY <1>8, <1>9, <1>d
    <2>2. q = [search EXCEPT !.index = i, !.closest = 0, !.score = 0, !.status = "OK"]
      BY <1>5, <1>d, <2>1 DEF Looked
    <2>3. q.index = i /\ q.score = 0 /\ q.status = "OK" /\ q.done = FALSE
      BY <1>1, <2>2 DEF SearchStates
    <2>4. PICK m \in 1 .. n : m > i /\ c[m] >= c[i]
      BY <1>6, <1>d
    <2>5. c[m] \in Nat /\ c[m] >= 75
      BY <1>3, <1>9, <1>d, <2>4
    <2>6. ASSUME NEW j \in 1 .. n, j <= i
          PROVE  c[j] < 80 /\ (c[j] >= 75 => \E k \in 1 .. n : k > i /\ c[k] >= c[j])
      <3>1. c[j] < 80
        BY <1>2, <1>8, <1>9, <1>d, <2>6
      <3>2. ASSUME c[j] >= 75
            PROVE  \E k \in 1 .. n : k > i /\ c[k] >= c[j]
        <4>1. CASE j = i
          BY <2>4, <4>1
        <4>2. CASE j < i
          <5>1. PICK k \in 1 .. n : k >= i /\ c[k] >= c[j]
            BY <1>8, <3>2, <4>2
          <5>2. CASE k = i
            <6>1. c[m] >= c[j]
              BY <1>3, <1>9, <2>4, <2>5, <5>1, <5>2
            <6> QED  BY <2>4, <6>1
          <5>3. CASE k # i
            BY <1>2, <5>1, <5>3
          <5> QED  BY <5>2, <5>3
        <4> QED  BY <1>2, <2>6, <4>1, <4>2
      <3> QED  BY <3>1, <3>2
    <2> HIDE DEF q
    <2> QED  BY <2>3, <2>4, <2>5, <2>6 DEF Sought
  <1>e. CASE c[i] \in 75 .. 79 /\ ~Reaches(i, c[i])
    <2>1. ~(c[i] <= search.score) /\ ~(c[i] >= 80) /\ ~(c[i] < 75)
      BY <1>8, <1>9, <1>e
    <2>2. q = [found EXCEPT !.status = "OK", !.done = TRUE]
      BY <1>5, <1>6, <1>e, <2>1 DEF Looked
    <2>3. q.closest = i /\ q.status = "OK" /\ q.done = TRUE
      <3> HIDE DEF found
      <3> QED  BY <1>10, <2>2 DEF SearchStates
    <2>4. ASSUME NEW j \in 1 .. n
          PROVE  c[j] < 80 /\ (c[j] < c[i] \/ (c[j] = c[i] /\ j <= i))
      <3>1. \A k \in 1 .. n : k > i => c[k] < c[i]
        BY <1>3, <1>6, <1>9, <1>e
      <3>2. CASE j >= i
        BY <1>2, <1>3, <1>e, <3>1, <3>2
      <3>3. CASE j < i
        <4>1. c[j] < 80 /\ c[j] \in Nat
          BY <1>3, <1>8, <3>3
        <4>2. CASE c[j] < 75
          BY <1>e, <4>1, <4>2, <3>3
        <4>3. CASE c[j] >= 75
          <5>1. PICK k \in 1 .. n : k >= i /\ c[k] >= c[j]
            BY <1>8, <3>3, <4>3
          <5>2. c[k] \in Nat /\ (k = i \/ c[k] < c[i])
            BY <1>2, <1>3, <3>1, <5>1
          <5> QED  BY <1>9, <3>3, <4>1, <5>1, <5>2
        <4> QED  BY <4>1, <4>2, <4>3
      <3> QED  BY <1>2, <3>2, <3>3
    <2>5. Wanted(i, c, n)
      BY <1>2, <1>e, <2>4 DEF Wanted
    <2> HIDE DEF q
    <2> QED  BY <2>3, <2>5 DEF Sought
  <1> QED  BY <1>9, <1>8, <1>a, <1>b, <1>c, <1>d, <1>e

\* SearchInv is inductive, given the types and the languages.
LEMMA SearchInvNext ==
  ASSUME TypeInv, LanguagesInv, SearchInv, [Next]_vars
  PROVE  SearchInv'
  <1>1. CASE ReadSubtag
    BY <1>1 DEF ReadSubtag, SearchInv, AllShort, Nearness
  <1>2. CASE Construct
    <2>1. search' = NotSearched
      BY <1>2 DEF Construct, TypeInv
    <2>2. Sought(NotSearched, Nearness', Len(list'))
      <3>1. list' \in Seq(Seq(Subtag))
        BY <1>2, TagsAssumption DEF Construct
      <3>2. \A j \in 1 .. Len(list') : ~(j <= 0)
        BY <3>1
      <3> QED  BY <3>2 DEF Sought, NotSearched
    <2> QED  BY <2>1, <2>2 DEF SearchInv
  <1>3. CASE FindClosest
    <2>1. /\ UNCHANGED <<list, read, language, listed>> /\ read /\ ~search.done /\ search.index < Len(list)
          /\ search' = Looked(search.index + 1, Comparison(language, listed[search.index + 1]))
      BY <1>3 DEF FindClosest, Look
    <2>2. AllShort' = AllShort /\ Nearness' = Nearness /\ Len(list') = Len(list)
      BY <2>1 DEF AllShort, Nearness
    <2> SUFFICES ASSUME AllShort
                 PROVE  IF IsAny(language)
                          THEN search' = NotSearched \/ ((search').done /\ (search').status = "OK" /\ (search').closest = 1)
                          ELSE Sought(search', Nearness, Len(list))
      BY <2>1, <2>2 DEF SearchInv
    <2>3. CASE IsAny(language)
      <3>1. search = NotSearched
        BY <2>1, <2>3 DEF SearchInv
      <3>2. search.index + 1 = 1 /\ search.score = 0
        BY <3>1 DEF NotSearched
      <3>3. Comparison(language, listed[1]) > 0 /\ Comparison(language, listed[1]) \in Nat
        BY <2>3, ComparisonIs DEF LanguagesInv, IsCompact, IsAny, Closenesses
      <3>4. ~TooLong(list[1])
        <4>1. 1 \in DOMAIN list
          <5>1. list \in Seq(Seq(Subtag)) /\ 0 < Len(list)
            BY <2>1, <3>1 DEF TypeInv, NotSearched
          <5> QED  BY <5>1
        <4> QED  BY <4>1 DEF AllShort
      <3>5. search' = [[search EXCEPT !.index = 1, !.closest = 1, !.score = Comparison(language, listed[1])]
                          EXCEPT !.status = "OK", !.done = TRUE]
        <4> DEFINE c == Comparison(language, listed[1])
        <4>1. search' = Looked(1, c)
          BY <2>1, <3>2
        <4>2. ~(c <= search.score)
          BY <3>2, <3>3
        <4> HIDE DEF c
        <4>3. search' = [[search EXCEPT !.index = 1, !.closest = 1, !.score = c] EXCEPT !.status = "OK", !.done = TRUE]
          BY <2>3, <3>4, <4>1, <4>2 DEF Looked
        <4> QED  BY <4>3 DEF c
      <3>6. (search').done = TRUE /\ (search').status = "OK" /\ (search').closest = 1
        BY <3>1, <3>5 DEF NotSearched
      <3> QED  BY <2>3, <3>6
    <2>4. CASE ~IsAny(language)
      <3>1. Sought(search, Nearness, Len(list))
        BY <2>1, <2>4 DEF SearchInv
      <3>2. search.index + 1 = search.index + 1
        OBVIOUS
      <3>3. Sought(Looked(search.index + 1, Comparison(language, listed[search.index + 1])), Nearness, Len(list))
        BY <2>1, <2>4, <3>1, <3>2, LookedFinds, Zenon
      <3> QED  BY <2>1, <2>4, <3>3
    <2> QED  BY <2>3, <2>4
  <1>4. CASE GetPackagingInfo
    BY <1>4 DEF GetPackagingInfo, SearchInv, AllShort, Nearness
  <1>5. CASE UNCHANGED vars
    BY <1>5 DEF vars, SearchInv, AllShort, Nearness
  <1> QED  BY <1>1, <1>2, <1>3, <1>4, <1>5 DEF Next

\* What the search is to find is what the property asks for,
LEMMA WantedIsExpected ==
  ASSUME TypeInv, ~IsAny(language), NEW k, Wanted(k, Nearness, Len(list))
  PROVE  Expected(k)
  <1> DEFINE n == Len(list)
             c == [i \in DOMAIN list |-> Compare(language, listed[i])]
             strong == {i \in DOMAIN list : c[i] >= 80}
             close == {i \in DOMAIN list : c[i] \in 75 .. 79}
             last(i) == \A j \in close : c[j] < c[i] \/ (c[j] = c[i] /\ j <= i)
             latest == CHOOSE i \in close : last(i)
  <1>1. DOMAIN list = 1 .. n /\ n \in Nat
    BY DEF TypeInv
  <1>2. \A i \in 1 .. n : c[i] \in Nat
    <2> TAKE i \in 1 .. n
    <2>1. c[i] = Compare(language, listed[i])
      BY <1>1
    <2>2. \A v \in Closenesses : v \in Nat
      BY DEF Closenesses
    <2>3. Compare(language, listed[i]) \in Closenesses
      BY CompareIs
    <2> QED  BY <2>1, <2>2, <2>3
  <1>3. Wanted(k, c, n)
    BY DEF Nearness
  <1> SUFFICES k = IF strong # {} THEN Min(strong)
                   ELSE IF close = {} THEN 0
                   ELSE latest
    BY DEF Expected
  <1> HIDE DEF c, n
  <1>4. k \in 1 .. n /\ c[k] \in Nat
    BY <1>2, <1>3 DEF Wanted
  <1>5. CASE c[k] >= 80
    <2>1. k \in strong /\ \A y \in strong : k <= y
      BY <1>1, <1>2, <1>3, <1>4, <1>5 DEF Wanted
    <2>2. strong \subseteq Nat
      BY <1>1
    <2> HIDE DEF strong, close, last
    <2>3. Min(strong) \in strong /\ \A y \in strong : Min(strong) <= y
      BY <2>1 DEF Min
    <2>a. ASSUME NEW m \in strong, \A y \in strong : m <= y
          PROVE  m = k
      <3>1. m \in Nat /\ k \in Nat /\ m <= k /\ k <= m
        BY <2>1, <2>2, <2>a
      <3> QED  BY <3>1
    <2>4. Min(strong) = k
      BY <2>3, <2>a
    <2> QED  BY <2>1, <2>4
  <1>6. CASE c[k] < 80
    <2>1. \A j \in 1 .. n : c[j] < 80 /\ (c[j] < c[k] \/ (c[j] = c[k] /\ j <= k))
      BY <1>3, <1>4, <1>6 DEF Wanted
    <2>2. strong = {}
      BY <1>1, <1>2, <2>1
    <2>3. k \in close
      BY <1>1, <1>3, <1>4, <1>6 DEF Wanted
    <2>4. last(k)
      BY <1>1, <2>1
    <2>5. ASSUME NEW i \in close, last(i)
          PROVE  i = k
      <3>1. c[k] < c[i] \/ (c[k] = c[i] /\ k <= i)
        BY <2>3, <2>5
      <3>2. i \in 1 .. n /\ c[i] \in Nat
        BY <1>1, <1>2
      <3>3. c[i] < c[k] \/ (c[i] = c[k] /\ i <= k)
        BY <2>1, <3>2
      <3> QED  BY <1>4, <3>1, <3>2, <3>3
    <2> HIDE DEF strong, close, last
    <2>6. latest = k
      BY <2>3, <2>4, <2>5
    <2>7. close # {}
      BY <2>3
    <2> HIDE DEF latest
    <2> QED  BY <2>2, <2>6, <2>7
  <1> HIDE DEF strong, close, latest
  <1> QED  BY <1>4, <1>5, <1>6

\* and where nothing is close enough, so is nothing.
LEMMA NothingIsExpected ==
  ASSUME TypeInv, ~IsAny(language), \A j \in 1 .. Len(list) : Nearness[j] < 75
  PROVE  Expected(0)
  <1> DEFINE c == [i \in DOMAIN list |-> Compare(language, listed[i])]
  <1>1. DOMAIN list = 1 .. Len(list) /\ Len(list) \in Nat
    BY DEF TypeInv
  <1>2. \A i \in DOMAIN list : c[i] \in Nat /\ c[i] < 75
    <2> TAKE i \in DOMAIN list
    <2>1. c[i] = Compare(language, listed[i]) /\ c[i] < 75
      BY <1>1 DEF Nearness
    <2>2. \A v \in Closenesses : v \in Nat
      BY DEF Closenesses
    <2>3. Compare(language, listed[i]) \in Closenesses
      BY CompareIs
    <2> QED  BY <2>1, <2>2, <2>3
  <1> HIDE DEF c
  <1>3. {i \in DOMAIN list : c[i] >= 80} = {} /\ {i \in DOMAIN list : c[i] \in 75 .. 79} = {}
    BY <1>2
  <1> QED  BY <1>3 DEF Expected, c

\* A search that has ended has found it.
LEMMA SoughtIsFound ==
  ASSUME TypeInv, SearchInv
  PROVE  FindsTheClosest
  <1> SUFFICES ASSUME read, Ended, list # <<>>, AllShort
               PROVE  Expected(IF search.status = "OK" THEN search.closest ELSE 0)
    BY DEF FindsTheClosest, AllShort
  <1>1. Len(list) \in Nat /\ Len(list) # 0 /\ search.index \in Nat /\ search.done \in BOOLEAN
    BY DEF TypeInv, SearchStates
  <1>2. CASE IsAny(language)
    <2>1. search # NotSearched
      BY <1>1 DEF Ended, NotSearched
    <2>2. search.status = "OK" /\ search.closest = 1
      BY <1>2, <2>1 DEF SearchInv
    <2> QED  BY <1>2, <2>2 DEF Expected
  <1>3. CASE ~IsAny(language) /\ search.done
    <2>1. search.status = "OK" /\ Wanted(search.closest, Nearness, Len(list))
      BY <1>3 DEF SearchInv, Sought
    <2> QED  BY <1>3, <2>1, WantedIsExpected
  <1>4. CASE ~IsAny(language) /\ ~search.done
    <2>1. search.index = Len(list) /\ \A k \in 1 .. Len(list) : ~(k > search.index) /\ k <= search.index
      BY <1>1, <1>4 DEF Ended
    <2>2. /\ search.status = "OK" => \E k \in 1 .. Len(list) : k > search.index /\ Nearness[k] >= 75
          /\ \A j \in 1 .. Len(list) : j <= search.index =>
                Nearness[j] < 80
                  /\ (Nearness[j] >= 75 => \E k \in 1 .. Len(list) : k > search.index /\ Nearness[k] >= Nearness[j])
      BY <1>4 DEF SearchInv, Sought
    <2>3. search.status # "OK"
      BY <2>1, <2>2
    <2>4. ASSUME NEW j \in 1 .. Len(list)
          PROVE  Nearness[j] < 75
      <3>1. ~(Nearness[j] >= 75)
        BY <2>1, <2>2
      <3>2. Nearness[j] = Compare(language, listed[j])
        BY DEF Nearness, TypeInv
      <3>3. \A v \in Closenesses : v \in Nat
        BY DEF Closenesses
      <3>4. Compare(language, listed[j]) \in Closenesses
        BY CompareIs
      <3> QED  BY <3>1, <3>2, <3>3, <3>4
    <2>5. Expected(0)
      BY <1>4, <2>4, NothingIsExpected
    <2> QED  BY <2>3, <2>5
  <1> QED  BY <1>2, <1>3, <1>4

\* FindClosestInList returns the first item of the list that matches in its
\* region or better, or else the last of those closest in language and script,
\* whatever the list and the tables are.
THEOREM ClosestIsFound == Spec => []FindsTheClosest
  <1>1. Init => SearchInv
    BY DEF Init, SearchInv
  <1>2. TypeInv /\ SearchInv => FindsTheClosest
    BY SoughtIsFound
  <1> QED
    BY TypeInvInit, TypeInvNext, LanguagesInvInit, LanguagesInvNext, SearchInvNext, <1>1, <1>2, PTL DEF Spec

-----------------------------------------------------------------------------
(***************************************************************************)
(* The fields of a machine that can still run: they follow each other in   *)
(* the order of their numbers, and the last of them ends where it reads on. *)
(***************************************************************************)
\* The highest field there may be in a state.
Highest == [s \in 0 .. 6 |-> IF s = 2 THEN Region ELSE s]

Ends(p, f) == p.start[f] + p.length[f]

Tiled(p) ==
  /\ \A f \in p.map : f <= Highest[p.state]
  /\ \A f \in p.map : p.start[f] = 0 \/ \E g \in p.map : g < f /\ Ends(p, g) + 1 = p.start[f]
  /\ \A f, g \in p.map : f < g => Ends(p, f) < p.start[g]
  /\ IF p.map = {} THEN p.at = 0
     ELSE \E f \in p.map : Ends(p, f) + 1 = p.at /\ \A g \in p.map : g <= f

\* A field that is taken is not below the highest there is.
LEMMA TakesUp ==
  ASSUME NEW p, NEW s, NEW field, NEW next, Takes(p, s, field, next)
  PROVE  Highest[p.state] <= field /\ field <= Highest[next]
  BY DEF Takes, Highest, Language, Extlang, Region, Variant, Extension, PrivateUse

\* The field that is taken begins or grows, and the others stay.
LEMMA TakenIs ==
  ASSUME NEW p \in ParserStates, NEW s \in Subtag, NEW field \in Fields, NEW next, NEW q,
         IsTaken(p, q, s, field, next)
  PROVE  /\ \A f \in Fields : f # field => q.start[f] = p.start[f] /\ q.length[f] = p.length[f]
         /\ field \in p.map => q.start[field] = p.start[field] /\ q.length[field] = p.length[field] + Form[s].len + 1
         /\ field \notin p.map => q.start[field] = p.at /\ q.length[field] = Form[s].len
  BY DEF IsTaken, StartWith, LengthWith, ParserStates

\* So the fields go on following each other.
LEMMA TilesOn ==
  ASSUME NEW p \in ParserStates, NEW q \in ParserStates, NEW s \in Subtag, NEW field \in Fields, NEW next \in 0 .. 6,
         Tiled(p), Takes(p, s, field, next), IsTaken(p, q, s, field, next), q.at = p.at + Form[s].len + 1
  PROVE  Tiled(q)
  <1> DEFINE len == Form[s].len
  <1>1. /\ \A f \in Fields : f \in Nat /\ p.start[f] \in Nat /\ p.length[f] \in Nat /\ Ends(p, f) = p.start[f] + p.length[f]
        /\ \A f \in Fields : Ends(q, f) = q.start[f] + q.length[f]
        /\ p.map \subseteq Fields /\ p.at \in Nat /\ len \in Nat
    BY FormOf DEF ParserStates, Fields, Ends
  <1>2. /\ \A f \in Fields : f # field => q.start[f] = p.start[f] /\ q.length[f] = p.length[f]
        /\ field \in p.map => q.start[field] = p.start[field] /\ q.length[field] = p.length[field] + len + 1
        /\ field \notin p.map => q.start[field] = p.at /\ q.length[field] = len
    BY TakenIs
  <1>3. q.map = p.map \cup {field} /\ q.state = next
    BY DEF IsTaken
  <1>4. Highest[p.state] <= field /\ field <= Highest[next] /\ Highest[p.state] \in Nat /\ Highest[next] \in Nat
    <2>1. Highest[p.state] \in Nat /\ Highest[next] \in Nat
      BY DEF Highest, ParserStates, Region
    <2> QED  BY <2>1, TakesUp
  <1>5. \A f \in p.map : f <= field
    BY <1>1, <1>4 DEF Tiled
  <1>6. \A f \in q.map : f <= Highest[q.state]
    BY <1>1, <1>3, <1>4, <1>5
  <1> HIDE DEF len
  <1>a. /\ \A f \in p.map : p.start[f] = 0 \/ \E g \in p.map : g < f /\ Ends(p, g) + 1 = p.start[f]
        /\ \A f, g \in p.map : f < g => Ends(p, f) < p.start[g]
    BY DEF Tiled
  <1>b. \A f \in Fields : f # field => Ends(q, f) = Ends(p, f) /\ q.start[f] = p.start[f]
    BY <1>1, <1>2
  <1>c. q.at = p.at + len + 1
    BY DEF len
  <1>7. CASE field \in p.map
    <2>1. q.map = p.map /\ q.start[field] = p.start[field] /\ Ends(q, field) = Ends(p, field) + len + 1
      BY <1>1, <1>2, <1>3, <1>7
    <2>2. PICK f \in p.map : Ends(p, f) + 1 = p.at /\ \A g \in p.map : g <= f
      BY <1>7 DEF Tiled
    <2>3. f = field
      BY <1>1, <1>5, <1>7, <2>2
    <2>4. Ends(q, field) + 1 = q.at
      BY <1>1, <1>c, <2>1, <2>2, <2>3
    <2>5. ASSUME NEW h \in q.map
          PROVE  q.start[h] = 0 \/ \E g \in q.map : g < h /\ Ends(q, g) + 1 = q.start[h]
      <3>1. q.start[h] = p.start[h] /\ h \in p.map
        BY <1>1, <1>b, <2>1
      <3>2. ASSUME NEW g \in p.map, g < h
            PROVE  Ends(q, g) = Ends(p, g)
        BY <1>1, <1>5, <1>b, <3>1, <3>2
      <3> QED  BY <1>a, <2>1, <3>1, <3>2
    <2>6. ASSUME NEW h \in q.map, NEW g \in q.map, h < g
          PROVE  Ends(q, h) < q.start[g]
      <3>1. h # field /\ h \in p.map /\ g \in p.map
        BY <1>1, <1>5, <2>1, <2>6
      <3>2. Ends(q, h) = Ends(p, h) /\ q.start[g] = p.start[g]
        BY <1>1, <1>b, <2>1, <3>1
      <3> QED  BY <1>a, <2>6, <3>1, <3>2
    <2> QED  BY <1>5, <1>6, <1>7, <2>1, <2>4, <2>5, <2>6 DEF Tiled
  <1>8. CASE field \notin p.map
    <2>1. q.start[field] = p.at /\ Ends(q, field) = p.at + len
      BY <1>1, <1>2, <1>8
    <2>2. Ends(q, field) + 1 = q.at
      BY <1>1, <1>c, <2>1
    <2>3. \A f \in p.map : f < field /\ Ends(q, f) = Ends(p, f) /\ q.start[f] = p.start[f]
      BY <1>1, <1>5, <1>8, <1>b
    <2>4. \A f \in p.map : Ends(p, f) < p.at
      <3> TAKE f \in p.map
      <3>1. PICK c \in p.map : Ends(p, c) + 1 = p.at /\ \A g \in p.map : g <= c
        BY DEF Tiled
      <3>2. CASE f = c
        BY <1>1, <3>1, <3>2
      <3>3. CASE f # c
        <4>1. f < c
          BY <1>1, <3>1, <3>3
        <4>2. Ends(p, f) < p.start[c]
          BY <1>a, <4>1
        <4> QED  BY <1>1, <3>1, <4>2
      <3> QED  BY <3>2, <3>3
    <2>5. p.at = 0 \/ \E g \in p.map : Ends(p, g) + 1 = p.at
      BY DEF Tiled
    <2>6. ASSUME NEW h \in q.map
          PROVE  q.start[h] = 0 \/ \E g \in q.map : g < h /\ Ends(q, g) + 1 = q.start[h]
      <3>1. CASE h = field
        BY <1>3, <2>1, <2>3, <2>5, <3>1
      <3>2. CASE h # field
        <4>1. h \in p.map
          BY <1>3, <3>2
        <4> QED  BY <1>3, <1>a, <2>3, <4>1
      <3> QED  BY <3>1, <3>2
    <2>7. ASSUME NEW h \in q.map, NEW g \in q.map, h < g
          PROVE  Ends(q, h) < q.start[g]
      <3>1. h \in p.map
        BY <1>1, <1>3, <2>3, <2>7
      <3>2. CASE g = field
        BY <2>1, <2>3, <2>4, <3>1, <3>2
      <3>3. CASE g # field
        <4>1. g \in p.map
          BY <1>3, <3>3
        <4> QED  BY <1>a, <2>3, <2>7, <3>1, <4>1
      <3> QED  BY <3>2, <3>3
    <2>8. \A g \in q.map : g <= field
      BY <1>1, <1>3, <1>5
    <2>9. field \in q.map
      BY <1>3
    <2> QED  BY <1>6, <2>2, <2>6, <2>7, <2>8, <2>9 DEF Tiled
  <1> QED  BY <1>7, <1>8

\* The machine has read the first subtags of the tag, and if the tag is not
\* grandfathered it can still run while it holds the tag for valid.
ReadInv ==
  /\ parser.valid => Running(parser) \/ Grandfathered(tag)
  /\ Running(parser) => /\ Start(Replaced(tag)).valid
                        /\ Tiled(parser) /\ parser.at = StartOf(Replaced(tag), parser.read + 1)
                        /\ read => parser.read = Len(Replaced(tag))

\* ReadInv holds at first.
LEMMA ReadInvInit ==
  ASSUME Init
  PROVE  ReadInv
  <1>1. parser = Start(Replaced(tag)) /\ read = FALSE /\ tag \in Seq(Subtag)
    BY TagsAssumption DEF Init
  <1>2. /\ parser.done = FALSE /\ parser.map = {} /\ parser.at = 0 /\ parser.read = 0
        /\ parser.valid = Start(Replaced(tag)).valid /\ parser.valid \in BOOLEAN
    BY <1>1 DEF Start
  <1>3. StartOf(Replaced(tag), 1) = 0
    BY <1>1, ReplacedType, Starts
  <1>4. Tiled(parser)
    BY <1>2 DEF Tiled
  <1> QED  BY <1>1, <1>2, <1>3, <1>4 DEF ReadInv, Running

\* ReadInv is inductive.
LEMMA ReadInvNext ==
  ASSUME TypeInv, ReadInv, [Next]_vars
  PROVE  ReadInv'
  <1>1. CASE ReadSubtag
    <2> DEFINE t == Replaced(tag)
               s == t[parser.read + 1]
               g == Grandfathered(tag)
               q == Step(parser, s, g)
    <2>1. t \in Seq(Subtag)
      BY TagsAssumption, ReplacedType DEF TypeInv
    <2>2. Len(t) \in Nat /\ parser.read \in Nat /\ parser.read < Len(t)
      BY <1>1, <2>1 DEF TypeInv, ParserStates, ReadSubtag
    <2>3. parser.read + 1 \in 1 .. Len(t) /\ s \in Subtag
      BY <2>1, <2>2
    <2>4. g \in BOOLEAN /\ Running(parser) /\ Sound(parser) /\ parser \in ParserStates
      BY <1>1 DEF Grandfathered, ReadSubtag, TypeInv
    <2>5. parser' = q /\ UNCHANGED <<tag, read>> /\ ~read
      BY <1>1 DEF ReadSubtag
    <2>6. Start(t).valid /\ Tiled(parser) /\ parser.at = StartOf(t, parser.read + 1)
      BY <2>4 DEF ReadInv
    <2> HIDE DEF t, g, s
    <2>7. /\ q \in ParserStates
          /\ q.at = parser.at + Form[s].len + 1 /\ q.read = parser.read + 1
          /\ q.valid => Running(q) \/ g
          /\ Running(q) => \E field \in Fields, next \in 0 .. 6 : Takes(parser, s, field, next)
          /\ \A field \in Fields, next \in 0 .. 6 : Takes(parser, s, field, next) => IsTaken(parser, q, s, field, next)
      BY <2>3, <2>4, StepDoes
    <2> HIDE DEF q
    <2>8. ASSUME Running(q)
          PROVE  Tiled(q)
      <3>1. PICK field \in Fields, next \in 0 .. 6 : Takes(parser, s, field, next)
        BY <2>7, <2>8
      <3>2. IsTaken(parser, q, s, field, next)
        BY <2>7, <3>1
      <3> QED  BY <2>3, <2>4, <2>6, <2>7, <3>1, <3>2, TilesOn
    <2>9. q.at = StartOf(t, q.read + 1)
      BY <2>1, <2>3, <2>6, <2>7, Starts DEF s
    <2>10. /\ q.valid => Running(q) \/ g
           /\ Running(q) => Start(t).valid /\ Tiled(q) /\ q.at = StartOf(t, q.read + 1)
      BY <2>6, <2>7, <2>8, <2>9
    <2>11. t' = t /\ g' = g
      BY <2>5 DEF t, g, Replaced, Grandfathered
    <2> QED  BY <2>5, <2>10, <2>11 DEF ReadInv, t, g
  <1>2. CASE Construct
    <2>1. UNCHANGED <<tag, parser>> /\ (Running(parser) => parser.read = Len(Replaced(tag)))
      BY <1>2 DEF Construct
    <2> QED  BY <2>1 DEF ReadInv, Grandfathered, Replaced
  <1>3. CASE FindClosest
    BY <1>3 DEF FindClosest, ReadInv, Grandfathered, Replaced
  <1>4. CASE GetPackagingInfo
    BY <1>4 DEF GetPackagingInfo, ReadInv, Grandfathered, Replaced
  <1>5. CASE UNCHANGED vars
    BY <1>5 DEF vars, ReadInv, Grandfathered, Replaced
  <1> QED  BY <1>1, <1>2, <1>3, <1>4, <1>5 DEF Next

\* What has been read is cut into fields.
LEMMA ReadIsTiled ==
  ASSUME TypeInv, ReadInv
  PROVE  FieldsTileTheTag
  <1> SUFFICES ASSUME read, WellFormedTag(parser), ~Grandfathered(tag)
               PROVE  /\ \A f \in parser.map :
                           \/ parser.start[f] = 0
                           \/ \E g \in parser.map : g < f /\ EndOf(g) + 1 = parser.start[f]
                      /\ \E f \in parser.map : EndOf(f) = LengthOf(Replaced(tag))
                      /\ \A f, g \in parser.map : f < g => EndOf(f) < parser.start[g]
    BY DEF FieldsTileTheTag, Constructed
  <1>1. Running(parser)
    BY DEF WellFormedTag, ReadInv
  <1>2. /\ Start(Replaced(tag)).valid /\ Tiled(parser)
        /\ parser.at = StartOf(Replaced(tag), Len(Replaced(tag)) + 1)
    BY <1>1 DEF ReadInv
  <1>3. \A f : EndOf(f) = Ends(parser, f)
    BY DEF EndOf, Ends
  <1>4. LengthOf(Replaced(tag)) = parser.at - 1 /\ LengthOf(Replaced(tag)) \in 2 .. MaximumTagLength
    BY <1>2 DEF LengthOf, Start
  <1>5. parser.at \in Nat /\ parser.map \subseteq Fields /\ \A f \in Fields : Ends(parser, f) \in Nat
    <2>1. parser \in ParserStates
      BY DEF TypeInv
    <2>2. parser.at \in Nat /\ parser.map \subseteq Fields
      BY <2>1 DEF ParserStates
    <2>3. \A f \in Fields : parser.start[f] \in Nat /\ parser.length[f] \in Nat
      BY <2>1 DEF ParserStates
    <2> QED  BY <2>2, <2>3 DEF Ends
  <1>6. parser.map # {}
    BY <1>2, <1>4, <1>5 DEF Tiled
  <1>7. PICK f \in parser.map : Ends(parser, f) + 1 = parser.at
    BY <1>2, <1>6 DEF Tiled
  <1>8. EndOf(f) = LengthOf(Replaced(tag))
    BY <1>3, <1>4, <1>5, <1>7
  <1> QED  BY <1>2, <1>3, <1>8 DEF Tiled

\* A tag that ParseTag calls well-formed has been cut into fields that follow
\* each other in the order of their numbers and leave nothing out: CLanguage
\* keeps no more of a field than where it begins and how long it is.
THEOREM FieldsTile == Spec => []FieldsTileTheTag
  BY TypeInvInit, TypeInvNext, ReadInvInit, ReadInvNext, ReadIsTiled, PTL DEF Spec

-----------------------------------------------------------------------------
(***************************************************************************)
(* The whole run of the machine over a tag.                                *)
(***************************************************************************)
After(t, g, p, i) == IF Running(p) THEN Step(p, t[i], g) ELSE p

\* The machines after each of the first n subtags.
IsRun(p, t, g, n) == p = [i \in 0 .. n |-> IF i = 0 THEN Start(t) ELSE After(t, g, p[i - 1], i)]

\* There is a run of any length.
LEMMA RunExists ==
  ASSUME NEW t, NEW g, NEW n \in Nat
  PROVE  \E p : IsRun(p, t, g, n)
  <1> DEFINE S == {k \in Nat : \E p : IsRun(p, t, g, k)}
  <1>1. 0 \in S
    <2> DEFINE p == [i \in 0 .. 0 |-> Start(t)]
    <2>1. \A i \in 0 .. 0 : i = 0
      OBVIOUS
    <2>2. p = [i \in 0 .. 0 |-> IF i = 0 THEN Start(t) ELSE After(t, g, p[i - 1], i)]
      BY <2>1
    <2>3. IsRun(p, t, g, 0)
      BY <2>2, Zenon DEF IsRun
    <2> HIDE DEF p
    <2> QED  BY <2>3
  <1>2. ASSUME NEW k \in Nat, k \in S
        PROVE  k + 1 \in S
    <2>1. PICK p : IsRun(p, t, g, k)
      BY <1>2
    <2>2. \A i \in 0 .. k : p[i] = IF i = 0 THEN Start(t) ELSE After(t, g, p[i - 1], i)
      BY <2>1, Zenon DEF IsRun
    <2> DEFINE q == [i \in 0 .. k + 1 |-> IF i = k + 1 THEN After(t, g, p[k], k + 1) ELSE p[i]]
    <2>3. ASSUME NEW i \in 0 .. k + 1
          PROVE  q[i] = IF i = 0 THEN Start(t) ELSE After(t, g, q[i - 1], i)
      <3>1. CASE i = k + 1
        <4>1. i # 0 /\ i - 1 = k /\ i - 1 \in 0 .. k + 1 /\ i - 1 # k + 1
          BY <3>1
        <4>2. q[i] = After(t, g, p[k], k + 1) /\ q[i - 1] = p[i - 1]
          BY <3>1, <4>1
        <4> HIDE DEF q
        <4> QED  BY <3>1, <4>1, <4>2
      <3>2. CASE i # k + 1
        <4>1. i \in 0 .. k /\ (i # 0 => i - 1 \in 0 .. k + 1 /\ i - 1 # k + 1)
          BY <3>2
        <4>2. q[i] = p[i] /\ (i # 0 => q[i - 1] = p[i - 1])
          BY <3>2, <4>1
        <4> HIDE DEF q
        <4> QED  BY <2>2, <4>1, <4>2
      <3> QED  BY <3>1, <3>2
    <2>4. q = [i \in 0 .. k + 1 |-> IF i = 0 THEN Start(t) ELSE After(t, g, q[i - 1], i)]
      BY <2>3
    <2>5. IsRun(q, t, g, k + 1)
      BY <2>4, Zenon DEF IsRun
    <2>6. k + 1 \in Nat
      OBVIOUS
    <2> HIDE DEF q
    <2> QED  BY <2>5, <2>6
  <1> HIDE DEF S
  <1>3. n \in S
    BY <1>1, <1>2, Induction
  <1> QED  BY <1>3 DEF S

\* ParseTag, defined by recursion, is the end of the run.
LEMMA ParseIs ==
  ASSUME NEW t \in Seq(Subtag), NEW g
  PROVE  \E p : /\ p[0] = Start(t) /\ ParseTag(t, g) = p[Len(t)]
                /\ \A i \in 1 .. Len(t) : p[i] = After(t, g, p[i - 1], i)
  <1> DEFINE p == CHOOSE p : IsRun(p, t, g, Len(t))
  <1>0. Len(t) \in Nat
    OBVIOUS
  <1>1. IsRun(p, t, g, Len(t))
    BY <1>0, RunExists, Zenon
  <1>2. ParseTag(t, g) = p[Len(t)]
    BY Zenon DEF ParseTag, IsRun, After
  <1> HIDE DEF p
  <1>3. \A i \in 0 .. Len(t) : p[i] = IF i = 0 THEN Start(t) ELSE After(t, g, p[i - 1], i)
    BY <1>1, Zenon DEF IsRun
  <1>4. p[0] = Start(t) /\ \A i \in 1 .. Len(t) : p[i] = After(t, g, p[i - 1], i)
    <2>1. 0 \in 0 .. Len(t) /\ \A i \in 1 .. Len(t) : i \in 0 .. Len(t) /\ i # 0
      BY <1>0
    <2> QED  BY <1>3, <2>1, Zenon
  <1> QED  BY <1>2, <1>4, Zenon

-----------------------------------------------------------------------------
(***************************************************************************)
(* How the machine moves, said of its states and flags.                    *)
(***************************************************************************)
IsX(s) == Form[s].len = 1 /\ Form[s].x

\* What the flags and the lengths of the last two fields say.
Flagged(p) ==
  /\ \A f \in p.map : f <= Highest[p.state]
  /\ p.state = 5 => Extension \in p.map
  /\ p.state = 6 => PrivateUse \in p.map
  /\ p.state = 0 => ~p.extlang
  /\ p.extension => p.state = 5
  /\ p.private => p.state = 6
  /\ p.state = 5 => (p.length[Extension] = 1 /\ p.extension) \/ p.length[Extension] > 3
  /\ p.state = 6 => (p.length[PrivateUse] = 1 /\ ~p.private) \/ (p.length[PrivateUse] > 2 /\ p.private)

\* Which state the machine goes to.
Moves(p, q, s) ==
  /\ Running(q) /\ q.state = 1 <=> \/ p.state = 0 /\ IsLanguage(s)
                                   \/ p.state = 1 /\ IsExtlang(s) /\ ~p.extlang
  /\ Running(q) /\ q.state = 2 <=> p.state \in 0 .. 2 /\ IsScript(s)
  /\ Running(q) /\ q.state = 4 <=> \/ p.state = 0 /\ IsYear(s)
                                   \/ p.state \in 1 .. 2 /\ IsRegion(s)
                                   \/ p.state \in {1, 2, 4} /\ IsVariant(s)
  /\ Running(q) /\ q.state = 5 <=> \/ p.state \in {1, 2, 4, 5} /\ IsSingleton(s) /\ ~p.extension
                                   \/ p.state = 5 /\ Form[s].len \in 2 .. 8
  /\ Running(q) /\ q.state = 6 <=> \/ p.state \in {0, 1, 2, 4, 5} /\ IsX(s) /\ ~p.extension
                                   \/ p.state = 6 /\ Form[s].len \in 1 .. 8

\* A running machine moves as stated, or stops running.
LEMMA GoesTo ==
  ASSUME NEW p, Sound(p), Running(p), NEW s \in Subtag, NEW q, q = Step(p, s, FALSE)
  PROVE  /\ Moves(p, q, s)
         /\ q.valid => Running(q)
         /\ Running(q) => q.state \in {1, 2, 4, 5, 6}
  <1> DEFINE Goes(n) == \E field \in Fields : Takes(p, s, field, n)
  <1>1. /\ q.valid => Running(q)
        /\ Running(q) => \E field \in Fields, next \in 0 .. 6 : Takes(p, s, field, next)
        /\ \A field \in Fields, next \in 0 .. 6 : Takes(p, s, field, next) => IsTaken(p, q, s, field, next)
    BY StepDoes
  <1>2. ASSUME NEW n \in 0 .. 6
        PROVE  Running(q) /\ q.state = n <=> Goes(n)
    <2>1. ASSUME Running(q), q.state = n
          PROVE  Goes(n)
      <3>1. PICK field \in Fields, next \in 0 .. 6 : Takes(p, s, field, next)
        BY <1>1, <2>1
      <3>2. next = n
        BY <1>1, <2>1, <3>1 DEF IsTaken
      <3> QED  BY <3>1, <3>2
    <2>2. ASSUME Goes(n)
          PROVE  Running(q) /\ q.state = n
      BY <1>1, <2>2 DEF IsTaken, Running
    <2> QED  BY <2>1, <2>2
  <1>3. Running(q) => q.state \in 0 .. 6 /\ Goes(q.state)
    <2>1. q \in ParserStates
      BY StepDoes
    <2>2. q.state \in 0 .. 6
      BY <2>1 DEF ParserStates
    <2> QED  BY <1>2, <2>2
  <1>4. /\ Goes(1) <=> \/ p.state = 0 /\ IsLanguage(s)
                       \/ p.state = 1 /\ IsExtlang(s) /\ ~p.extlang
        /\ Goes(2) <=> p.state \in 0 .. 2 /\ IsScript(s)
        /\ Goes(4) <=> \/ p.state = 0 /\ IsYear(s)
                       \/ p.state \in 1 .. 2 /\ IsRegion(s)
                       \/ p.state \in {1, 2, 4} /\ IsVariant(s)
        /\ Goes(5) <=> \/ p.state \in {1, 2, 4, 5} /\ IsSingleton(s) /\ ~p.extension
                       \/ p.state = 5 /\ Form[s].len \in 2 .. 8
        /\ Goes(6) <=> \/ p.state \in {0, 1, 2, 4, 5} /\ IsX(s) /\ ~p.extension
                       \/ p.state = 6 /\ Form[s].len \in 1 .. 8
        /\ ~Goes(0) /\ ~Goes(3)
    BY DEF Takes, Fields, Language, Extlang, Region, Variant, Extension, PrivateUse, IsX
  <1> HIDE DEF Goes
  <1>5. 1 \in 0 .. 6 /\ 2 \in 0 .. 6 /\ 4 \in 0 .. 6 /\ 5 \in 0 .. 6 /\ 6 \in 0 .. 6
    OBVIOUS
  <1>6. /\ Running(q) /\ q.state = 1 <=> Goes(1)
        /\ Running(q) /\ q.state = 2 <=> Goes(2)
        /\ Running(q) /\ q.state = 4 <=> Goes(4)
        /\ Running(q) /\ q.state = 5 <=> Goes(5)
        /\ Running(q) /\ q.state = 6 <=> Goes(6)
    BY <1>2, <1>5
  <1>7. Running(q) => q.state \in {1, 2, 4, 5, 6}
    <2> SUFFICES ASSUME Running(q)
                 PROVE  q.state \in {1, 2, 4, 5, 6}
      OBVIOUS
    <2>1. q.state \in 0 .. 6 /\ Goes(q.state)
      BY <1>3
    <2>2. q.state # 0 /\ q.state # 3
      BY <1>4, <2>1
    <2>3. q.state \in 0 .. 6
      BY <2>1
    <2>4. \A n \in 0 .. 6 : n # 0 /\ n # 3 => n \in {1, 2, 4, 5, 6}
      OBVIOUS
    <2> QED  BY <2>2, <2>3, <2>4, Zenon
  <1> QED  BY <1>1, <1>4, <1>6, <1>7, Zenon DEF Moves

\* What becomes of the flags and of the last two fields.
LEMMA FlagsTo ==
  ASSUME NEW p, Sound(p), Running(p), Flagged(p), NEW s \in Subtag, NEW q, q = Step(p, s, FALSE), Running(q)
  PROVE  /\ Flagged(q)
         /\ q.extlang <=> p.extlang \/ (p.state = 1 /\ q.state = 1)
         /\ q.extension <=> q.state = 5 /\ Form[s].len = 1
         /\ q.private <=> q.state = 6 /\ p.state = 6
         /\ p.state = 6 => q.state = 6
         /\ q.state = 5 => (q.length[Extension] > 3 <=> p.state = 5)
         /\ Language \in q.map <=> Language \in p.map \/ (p.state = 0 /\ IsLanguage(s))
         /\ PrivateUse \in p.map => q.start[PrivateUse] = p.start[PrivateUse]
         /\ PrivateUse \in q.map \ p.map => q.start[PrivateUse] = p.at
  <1>1. PICK field \in Fields, next \in 0 .. 6 : Takes(p, s, field, next)
    BY StepDoes
  <1>2. IsTaken(p, q, s, field, next)
    BY StepDoes, <1>1
  <1>3. Highest[p.state] <= field /\ field <= Highest[next]
    BY <1>1, TakesUp
  <1>4. p \in ParserStates /\ p.state # 3
    BY DEF Sound
  <1>5. /\ p.state \in 0 .. 6 /\ p.map \subseteq 0 .. 6
        /\ p.extlang \in BOOLEAN /\ p.extension \in BOOLEAN /\ p.private \in BOOLEAN
        /\ p.length[Extension] \in Nat /\ p.length[PrivateUse] \in Nat
    BY <1>4 DEF ParserStates, Fields, Extension, PrivateUse
  <1>6. q.state = next /\ q.map = p.map \cup {field}
    BY <1>2 DEF IsTaken
  <1>7. /\ \A f \in Fields : f # field => q.start[f] = p.start[f] /\ q.length[f] = p.length[f]
        /\ field \in p.map => q.start[field] = p.start[field] /\ q.length[field] = p.length[field] + Form[s].len + 1
        /\ field \notin p.map => q.start[field] = p.at /\ q.length[field] = Form[s].len
    BY <1>2, <1>4 DEF IsTaken, StartWith, LengthWith, ParserStates
  <1>8. Form[s].len \in Nat
    BY FormOf
  <1>9. /\ field = Extension <=> next = 5
        /\ field = PrivateUse <=> next = 6
        /\ field = Extlang <=> p.state = 1 /\ next = 1
        /\ field = Language <=> p.state = 0 /\ IsLanguage(s)
        /\ p.extension => field = Extension \/ p.state # 5
        /\ p.state = 6 => next = 6
        /\ next = 5 => Form[s].len \in 1 .. 8 /\ (Form[s].len = 1 => ~p.extension)
        /\ next = 5 /\ p.state # 5 => Form[s].len = 1
        /\ next = 6 /\ p.state # 6 => Form[s].len = 1
        /\ next = 6 => Form[s].len \in 1 .. 8
        /\ next # 0
    BY <1>1, <1>8 DEF Takes, Fields, Language, Extlang, Region, Variant, Extension, PrivateUse, IsLanguage, Is, IsSingleton,
                        IsYear, IsScript, IsExtlang
  <1>10. /\ \A f \in p.map : f <= Highest[p.state]
         /\ p.state = 5 => Extension \in p.map
         /\ p.state = 6 => PrivateUse \in p.map
         /\ p.state = 0 => ~p.extlang
         /\ p.extension => p.state = 5
         /\ p.private => p.state = 6
         /\ p.state = 5 => (p.length[Extension] = 1 /\ p.extension) \/ p.length[Extension] > 3
         /\ p.state = 6 => (p.length[PrivateUse] = 1 /\ ~p.private) \/ (p.length[PrivateUse] > 2 /\ p.private)
    BY DEF Flagged
  <1>11. /\ q.extlang = (p.extlang \/ field = Extlang)
         /\ q.extension = (IF field = Extension THEN Form[s].len = 1 ELSE p.extension)
         /\ q.private = (p.private \/ p.state = 6)
    BY <1>2 DEF IsTaken
  <1>12. /\ q.extlang <=> p.extlang \/ (p.state = 1 /\ q.state = 1)
         /\ q.extension <=> q.state = 5 /\ Form[s].len = 1
         /\ q.private <=> q.state = 6 /\ p.state = 6
    BY <1>5, <1>6, <1>9, <1>10, <1>11
  <1>13. /\ Language \in q.map <=> Language \in p.map \/ (p.state = 0 /\ IsLanguage(s))
         /\ PrivateUse \in p.map => q.start[PrivateUse] = p.start[PrivateUse]
         /\ PrivateUse \in q.map \ p.map => q.start[PrivateUse] = p.at
    <2>1. PrivateUse \in Fields
      BY DEF PrivateUse, Fields
    <2> QED  BY <1>6, <1>7, <1>9, <2>1
  <1>14. \A f \in q.map : f <= Highest[q.state]
    <2>1. \A n \in 0 .. 6 : Highest[n] \in 0 .. 6
      BY DEF Highest, Region
    <2>2. Highest[p.state] \in 0 .. 6 /\ Highest[next] \in 0 .. 6 /\ field \in 0 .. 6
      BY <2>1, <1>5 DEF Fields
    <2>3. \A f \in p.map : f \in 0 .. 6 /\ f <= Highest[p.state]
      BY <1>5, <1>10
    <2>4. \A f \in p.map : f <= Highest[next]
      BY <1>3, <2>2, <2>3
    <2> QED  BY <1>3, <1>6, <2>4
  <1>15. q.state = 5 => /\ Extension \in q.map
                        /\ (q.length[Extension] = 1 /\ q.extension) \/ q.length[Extension] > 3
                        /\ q.length[Extension] > 3 <=> p.state = 5
    <2> SUFFICES ASSUME next = 5
                 PROVE  /\ Extension \in q.map
                        /\ (q.length[Extension] = 1 /\ q.extension) \/ q.length[Extension] > 3
                        /\ q.length[Extension] > 3 <=> p.state = 5
      BY <1>6
    <2>1. field = Extension /\ Extension \in q.map /\ (q.extension <=> Form[s].len = 1) /\ Form[s].len \in 1 .. 8
      BY <1>6, <1>9, <1>11
    <2>2. CASE p.state = 5
      <3>1. (p.length[Extension] = 1 /\ p.extension) \/ p.length[Extension] > 3
        BY <1>10, <2>2
      <3>2. q.length[Extension] = p.length[Extension] + Form[s].len + 1
        BY <1>7, <1>10, <2>1, <2>2
      <3>3. p.extension => Form[s].len # 1
        BY <1>9
      <3>4. \A m \in Nat, n \in 1 .. 8 : m > 3 \/ (m = 1 /\ n # 1) => m + n + 1 > 3
        OBVIOUS
      <3>5. /\ p.length[Extension] \in Nat /\ Form[s].len \in 1 .. 8
            /\ p.length[Extension] > 3 \/ (p.length[Extension] = 1 /\ Form[s].len # 1)
        BY <1>5, <2>1, <3>1, <3>3, Zenon
      <3>6. q.length[Extension] > 3
        BY <3>2, <3>4, <3>5
      <3> QED  BY <2>1, <2>2, <3>6
    <2>3. CASE p.state # 5
      <3>1. p.state \in {1, 2, 4}
        BY <1>1, <2>1, <2>3 DEF Takes, Language, Extlang, Region, Variant, Extension, PrivateUse
      <3>2. Highest[p.state] \in 0 .. 4
        BY <3>1 DEF Highest, Region
      <3>3. Extension \notin p.map
        BY <1>10, <3>2 DEF Extension
      <3>4. Form[s].len = 1
        BY <1>9, <2>3
      <3>5. q.length[Extension] = 1
        BY <1>7, <2>1, <3>3, <3>4
      <3>6. ~(1 > 3)
        OBVIOUS
      <3>7. ~(q.length[Extension] > 3)
        BY <3>5, <3>6, Zenon
      <3> QED  BY <2>1, <2>3, <3>4, <3>5, <3>7, Zenon
    <2> QED  BY <2>2, <2>3
  <1>16. q.state = 6 => /\ PrivateUse \in q.map
                        /\ \/ q.length[PrivateUse] = 1 /\ ~q.private
                           \/ q.length[PrivateUse] > 2 /\ q.private
    <2> SUFFICES ASSUME next = 6
                 PROVE  /\ PrivateUse \in q.map
                        /\ \/ q.length[PrivateUse] = 1 /\ ~q.private
                           \/ q.length[PrivateUse] > 2 /\ q.private
      BY <1>6
    <2>1. field = PrivateUse /\ PrivateUse \in q.map /\ Form[s].len \in 1 .. 8
      BY <1>6, <1>9
    <2>2. CASE p.state = 6
      <3>1. p.length[PrivateUse] = 1 \/ p.length[PrivateUse] > 2
        BY <1>10, <2>2
      <3>2. q.length[PrivateUse] = p.length[PrivateUse] + Form[s].len + 1
        BY <1>7, <1>10, <2>1, <2>2
      <3>3. \A m \in Nat, n \in 1 .. 8 : m = 1 \/ m > 2 => m + n + 1 > 2
        OBVIOUS
      <3>4. p.length[PrivateUse] \in Nat /\ Form[s].len \in 1 .. 8
        BY <1>5, <2>1, Zenon
      <3>5. q.length[PrivateUse] > 2
        BY <3>1, <3>2, <3>3, <3>4
      <3> QED  BY <1>11, <2>1, <2>2, <3>5
    <2>3. CASE p.state # 6
      <3>1. p.state \in 0 .. 5
        BY <1>5, <2>3
      <3>2. Highest[p.state] \in 0 .. 5
        BY <3>1 DEF Highest, Region
      <3>3. PrivateUse \notin p.map
        BY <1>10, <3>2 DEF PrivateUse
      <3>4. Form[s].len = 1 /\ ~q.private
        BY <1>9, <1>12, <2>3
      <3> QED  BY <1>7, <2>1, <3>3, <3>4
    <2> QED  BY <2>2, <2>3
  <1>17. Flagged(q)
    <2>1. q.state = 0 => ~q.extlang
      BY <1>6, <1>9
    <2> QED  BY <1>12, <1>14, <1>15, <1>16, <2>1, Zenon DEF Flagged
  <1>18. p.state = 6 => q.state = 6
    BY <1>6, <1>9
  <1> QED  BY <1>12, <1>13, <1>15, <1>17, <1>18

-----------------------------------------------------------------------------
(***************************************************************************)
(* The grammar of the tags, from place to place, and the states of the      *)
(* machine: after each subtag the machine is in the state of the parts of   *)
(* the grammar that may end there.                                         *)
(***************************************************************************)
\* The places Many goes to from those in at, over subtags at the places ks.
LEMMA ManyGrow ==
  ASSUME NEW n \in Nat, NEW at \in SUBSET (0 .. n), NEW ks \in SUBSET (1 .. n), NEW j \in Nat, j < n
  PROVE  LET m == {i \in 0 .. n : \E h \in at : h <= i /\ \A k \in h + 1 .. i : k \in ks}
         IN  /\ j + 1 \in m <=> j + 1 \in at \/ (j \in m /\ j + 1 \in ks)
             /\ 0 \in m <=> 0 \in at
  <1> DEFINE m == {i \in 0 .. n : \E h \in at : h <= i /\ \A k \in h + 1 .. i : k \in ks}
  <1>1. ASSUME j + 1 \in at
        PROVE  j + 1 \in m
    BY <1>1
  <1>2. ASSUME j \in m, j + 1 \in ks
        PROVE  j + 1 \in m
    <2>1. PICK h \in at : h <= j /\ \A k \in h + 1 .. j : k \in ks
      BY <1>2
    <2>2. h \in Nat /\ h <= j + 1
      BY <2>1
    <2>3. \A k \in h + 1 .. j + 1 : k \in h + 1 .. j \/ k = j + 1
      BY <2>2
    <2> QED  BY <1>2, <2>1, <2>2, <2>3
  <1>3. ASSUME j + 1 \in m, j + 1 \notin at
        PROVE  j \in m /\ j + 1 \in ks
    <2>1. PICK h \in at : h <= j + 1 /\ \A k \in h + 1 .. j + 1 : k \in ks
      BY <1>3
    <2>2. h <= j /\ h \in Nat /\ j + 1 \in h + 1 .. j + 1
      BY <1>3, <2>1
    <2>3. \A k \in h + 1 .. j : k \in h + 1 .. j + 1
      BY <2>2
    <2> QED  BY <2>1, <2>2, <2>3
  <1>4. 0 \in m <=> 0 \in at
    <2>1. ASSUME 0 \in m
          PROVE  0 \in at
      BY <2>1
    <2>2. ASSUME 0 \in at
          PROVE  0 \in m
      <3>1. \A k \in 0 + 1 .. 0 : k \in ks
        OBVIOUS
      <3> QED  BY <2>2, <3>1
    <2> QED  BY <2>1, <2>2
  <1> QED  BY <1>1, <1>2, <1>3, <1>4

\* Where the parts of the grammar end, from place to place.
LEMMA NamedGrow ==
  ASSUME NEW t \in Seq(Subtag), NEW j \in Nat, j < Len(t)
  PROVE  /\ Named(t) \subseteq 0 .. Len(t) /\ 0 \notin Named(t)
         /\ 0 \notin One(t, {0}, IsLanguage)
         /\ j + 1 \in One(t, {0}, IsLanguage) <=> j = 0 /\ IsLanguage(t[j + 1])
         /\ j + 1 \in Named(t) <=> \/ j + 1 \in One(t, {0}, IsLanguage)
                                   \/ j \in One(t, {0}, IsLanguage) /\ IsExtlang(t[j + 1])
  <1> DEFINE first == One(t, {0}, IsLanguage)
  <1>1. first = {i + 1 : i \in {h \in {0} : h < Len(t) /\ IsLanguage(t[h + 1])}}
    BY DEF One
  <1>2. Named(t) = first \cup {i + 1 : i \in {h \in first : h < Len(t) /\ IsExtlang(t[h + 1])}}
    BY DEF Named, Opt, One
  <1>3. Len(t) \in Nat
    OBVIOUS
  <1> HIDE DEF first
  <1>4. first \subseteq 0 .. Len(t) /\ 0 \notin first /\ (j + 1 \in first <=> j = 0 /\ IsLanguage(t[j + 1]))
    BY <1>1, <1>3
  <1>5. Named(t) \subseteq 0 .. Len(t) /\ 0 \notin Named(t)
    <2>1. ASSUME NEW i \in Named(t), i \notin first
          PROVE  i \in 0 .. Len(t) /\ i # 0
      <3>1. PICK h \in first : h < Len(t) /\ i = h + 1
        BY <1>2, <2>1
      <3>2. h \in Nat
        BY <1>3, <1>4
      <3> QED  BY <1>3, <3>1, <3>2
    <2> QED  BY <1>4, <2>1
  <1>6. \A h \in first : h + 1 = j + 1 <=> h = j
    BY <1>3, <1>4
  <1>7. j + 1 \in Named(t) <=> j + 1 \in first \/ (j \in first /\ IsExtlang(t[j + 1]))
    BY <1>2, <1>6
  <1> QED  BY <1>4, <1>5, <1>7 DEF first

\* Where the scripts end.
LEMMA ScriptedGrow ==
  ASSUME NEW t \in Seq(Subtag), NEW j \in Nat, j < Len(t)
  PROVE  /\ Scripted(t) \subseteq 0 .. Len(t) /\ 0 \notin Scripted(t)
         /\ j + 1 \in Scripted(t) <=> j + 1 \in Named(t) \/ (j \in Scripted(t) /\ IsScript(t[j + 1]))
  <1> DEFINE ks == {k \in DOMAIN t : IsScript(t[k])}
             at == Named(t)
             m == {i \in 0 .. Len(t) : \E h \in at : h <= i /\ \A k \in h + 1 .. i : k \in ks}
  <1>0. Len(t) \in Nat
    OBVIOUS
  <1>1. at \in SUBSET (0 .. Len(t)) /\ 0 \notin at
    <2>1. Named(t) \subseteq 0 .. Len(t) /\ 0 \notin Named(t)
      BY NamedGrow
    <2> QED  BY <2>1, Zenon
  <1>2. Scripted(t) = m
    <2>1. \A i \in 0 .. Len(t), h \in at : \A k \in h + 1 .. i : k \in DOMAIN t
      BY <1>0, <1>1
    <2>2. Scripted(t) = {i \in 0 .. Len(t) : \E h \in at : h <= i /\ \A k \in h + 1 .. i : IsScript(t[k])}
      BY DEF Scripted, Many
    <2> HIDE DEF at
    <2> QED  BY <2>1, <2>2
  <1>3. j + 1 \in ks <=> IsScript(t[j + 1])
    BY <1>0
  <1> HIDE DEF ks, at, m
  <1>4. m = {i \in 0 .. Len(t) : \E h \in at : h <= i /\ \A k \in h + 1 .. i : k \in ks}
    BY Zenon DEF m
  <1>5. /\ j + 1 \in m <=> j + 1 \in at \/ (j \in m /\ j + 1 \in ks)
        /\ 0 \in m <=> 0 \in at
    <2>1. at \in SUBSET (0 .. Len(t))
      BY <1>1
    <2>2. ks \in SUBSET (1 .. Len(t))
      BY <1>0 DEF ks
    <2> QED  BY <1>0, <2>1, <2>2, ManyGrow, Zenon DEF m
  <1>6. m \subseteq 0 .. Len(t)
    BY <1>4
  <1> QED  BY <1>1, <1>2, <1>3, <1>5, <1>6, Zenon DEF at

\* Where the regions and variants end.
LEMMA PlacedGrow ==
  ASSUME NEW t \in Seq(Subtag), NEW j \in Nat, j < Len(t)
  PROVE  /\ Placed(t) \subseteq 0 .. Len(t) /\ 0 \notin Placed(t)
         /\ j + 1 \in Placed(t) <=> \/ j + 1 \in Scripted(t)
                                    \/ j \in Scripted(t) /\ IsRegion(t[j + 1])
                                    \/ j = 0 /\ IsYear(t[j + 1])
                                    \/ j \in Placed(t) /\ IsVariant(t[j + 1])
  <1> DEFINE ks == {k \in DOMAIN t : IsVariant(t[k])}
             at == Opt(t, Scripted(t), IsRegion) \cup One(t, {0}, IsYear)
             m == {i \in 0 .. Len(t) : \E h \in at : h <= i /\ \A k \in h + 1 .. i : k \in ks}
  <1>0. Len(t) \in Nat /\ Scripted(t) \subseteq 0 .. Len(t) /\ 0 \notin Scripted(t)
    BY ScriptedGrow
  <1>1. at = Scripted(t) \cup {i + 1 : i \in {h \in Scripted(t) : h < Len(t) /\ IsRegion(t[h + 1])}}
                         \cup {i + 1 : i \in {h \in {0} : h < Len(t) /\ IsYear(t[h + 1])}}
    BY DEF Opt, One
  <1>2. Placed(t) = m
    <2>1. at \subseteq 0 .. Len(t)
      <3> HIDE DEF at
      <3> QED  BY <1>0, <1>1
    <2>2. \A i \in 0 .. Len(t), h \in at : \A k \in h + 1 .. i : k \in DOMAIN t
      BY <1>0, <2>1
    <2>3. Placed(t) = {i \in 0 .. Len(t) : \E h \in at : h <= i /\ \A k \in h + 1 .. i : IsVariant(t[k])}
      BY DEF Placed, Many
    <2> HIDE DEF at
    <2> QED  BY <2>2, <2>3
  <1>3. j + 1 \in ks <=> IsVariant(t[j + 1])
    BY <1>0
  <1> HIDE DEF ks, at, m
  <1>4. m = {i \in 0 .. Len(t) : \E h \in at : h <= i /\ \A k \in h + 1 .. i : k \in ks}
    BY Zenon DEF m
  <1>5. /\ at \in SUBSET (0 .. Len(t)) /\ 0 \notin at
        /\ j + 1 \in at <=> \/ j + 1 \in Scripted(t)
                            \/ j \in Scripted(t) /\ IsRegion(t[j + 1])
                            \/ j = 0 /\ IsYear(t[j + 1])
    BY <1>0, <1>1
  <1>6. /\ j + 1 \in m <=> j + 1 \in at \/ (j \in m /\ j + 1 \in ks)
        /\ 0 \in m <=> 0 \in at
    <2>1. at \in SUBSET (0 .. Len(t))
      BY <1>5
    <2>2. Len(t) \in Nat
      BY <1>0
    <2>3. ks \in SUBSET (1 .. Len(t))
      BY <2>2 DEF ks
    <2> QED  BY <2>1, <2>2, <2>3, ManyGrow, Zenon DEF m
  <1>7. m \subseteq 0 .. Len(t)
    BY <1>4
  <1> QED  BY <1>2, <1>3, <1>5, <1>6, <1>7, Zenon

\* The subtags from i + 1 to j are extensions, of which the last may be open;
\* they are an x and what follows it.
Opens(t, i, j) ==
  /\ i < j /\ IsSingleton(t[i + 1])
  /\ \A k \in i + 1 .. j : IsPart(t[k]) /\ (Form[t[k]].len = 1 => IsSingleton(t[k]))
  /\ \A k \in i + 1 .. j - 1 : Form[t[k]].len = 1 => Form[t[k + 1]].len # 1

Keeps(t, i, j) == i < j /\ IsX(t[i + 1]) /\ \A k \in i + 1 .. j : IsPart(t[k])

\* How extensions go on, one subtag at a time.
LEMMA OpensGrow ==
  ASSUME NEW t \in Seq(Subtag), NEW j \in Nat, j < Len(t), NEW i \in Nat
  PROVE  /\ ~Opens(t, i, 0)
         /\ Opens(t, i, j + 1) <=> \/ i = j /\ IsSingleton(t[j + 1])
                                   \/ /\ Opens(t, i, j) /\ IsPart(t[j + 1])
                                      /\ Form[t[j + 1]].len = 1 => IsSingleton(t[j + 1]) /\ Form[t[j]].len # 1
  <1>1. ~Opens(t, i, 0)
    BY DEF Opens
  <1>2. ASSUME i = j, IsSingleton(t[j + 1])
        PROVE  Opens(t, i, j + 1)
    <2>1. \A k \in i + 1 .. j + 1 : k = j + 1
      BY <1>2
    <2>2. IsPart(t[j + 1])
      BY <1>2 DEF IsPart, IsSingleton
    <2> QED  BY <1>2, <2>1, <2>2 DEF Opens
  <1>3. ASSUME Opens(t, i, j), IsPart(t[j + 1]),
               Form[t[j + 1]].len = 1 => IsSingleton(t[j + 1]) /\ Form[t[j]].len # 1
        PROVE  Opens(t, i, j + 1)
    <2>1. i < j /\ i < j + 1
      BY <1>3 DEF Opens
    <2>2. \A k \in i + 1 .. j + 1 : k \in i + 1 .. j \/ k = j + 1
      OBVIOUS
    <2>3. \A k \in i + 1 .. (j + 1) - 1 : k \in i + 1 .. j - 1 \/ k = j
      BY <2>1
    <2>4. \A k \in i + 1 .. j + 1 : IsPart(t[k]) /\ (Form[t[k]].len = 1 => IsSingleton(t[k]))
      BY <1>3, <2>2 DEF Opens
    <2>5. \A k \in i + 1 .. (j + 1) - 1 : Form[t[k]].len = 1 => Form[t[k + 1]].len # 1
      BY <1>3, <2>3 DEF Opens
    <2> QED  BY <1>3, <2>1, <2>4, <2>5 DEF Opens
  <1>4. ASSUME Opens(t, i, j + 1)
        PROVE  \/ i = j /\ IsSingleton(t[j + 1])
               \/ /\ Opens(t, i, j) /\ IsPart(t[j + 1])
                  /\ Form[t[j + 1]].len = 1 => IsSingleton(t[j + 1]) /\ Form[t[j]].len # 1
    <2>1. CASE i = j
      BY <1>4, <2>1 DEF Opens
    <2>2. CASE i # j
      <3>1. i < j /\ j + 1 \in i + 1 .. j + 1 /\ j \in i + 1 .. (j + 1) - 1
        BY <1>4, <2>2 DEF Opens
      <3>2. /\ \A k \in i + 1 .. j : k \in i + 1 .. j + 1
            /\ \A k \in i + 1 .. j - 1 : k \in i + 1 .. (j + 1) - 1
        BY <3>1
      <3>3. Opens(t, i, j)
        BY <1>4, <3>1, <3>2 DEF Opens
      <3>4. IsPart(t[j + 1]) /\ (Form[t[j + 1]].len = 1 => IsSingleton(t[j + 1]))
        BY <1>4, <3>1 DEF Opens
      <3>5. Form[t[j]].len = 1 => Form[t[j + 1]].len # 1
        BY <1>4, <3>1 DEF Opens
      <3> QED  BY <3>3, <3>4, <3>5
    <2> QED  BY <2>1, <2>2
  <1> QED  BY <1>1, <1>2, <1>3, <1>4

\* How private use goes on.
LEMMA KeepsGrow ==
  ASSUME NEW t \in Seq(Subtag), NEW j \in Nat, j < Len(t), NEW i \in Nat
  PROVE  /\ ~Keeps(t, i, 0)
         /\ Keeps(t, i, j + 1) <=> \/ i = j /\ IsX(t[j + 1])
                                   \/ Keeps(t, i, j) /\ IsPart(t[j + 1])
  <1>1. ~Keeps(t, i, 0)
    BY DEF Keeps
  <1>2. ASSUME i = j, IsX(t[j + 1])
        PROVE  Keeps(t, i, j + 1)
    <2>1. \A k \in i + 1 .. j + 1 : k = j + 1
      BY <1>2
    <2>2. IsPart(t[j + 1])
      BY <1>2 DEF IsPart, IsX
    <2> QED  BY <1>2, <2>1, <2>2 DEF Keeps
  <1>3. ASSUME Keeps(t, i, j), IsPart(t[j + 1])
        PROVE  Keeps(t, i, j + 1)
    <2>1. i < j + 1 /\ \A k \in i + 1 .. j + 1 : k \in i + 1 .. j \/ k = j + 1
      BY <1>3 DEF Keeps
    <2> QED  BY <1>3, <2>1 DEF Keeps
  <1>4. ASSUME Keeps(t, i, j + 1)
        PROVE  \/ i = j /\ IsX(t[j + 1])
               \/ Keeps(t, i, j) /\ IsPart(t[j + 1])
    <2>1. CASE i = j
      BY <1>4, <2>1 DEF Keeps
    <2>2. CASE i # j
      <3>1. i < j /\ j + 1 \in i + 1 .. j + 1 /\ \A k \in i + 1 .. j : k \in i + 1 .. j + 1
        BY <1>4, <2>2 DEF Keeps
      <3> QED  BY <1>4, <3>1 DEF Keeps
    <2> QED  BY <2>1, <2>2
  <1> QED  BY <1>1, <1>2, <1>3, <1>4

\* Whether a tag of which j subtags are read is in an extension or behind an x,
\* and whether something follows that singleton or that x.
InExtension(t, j) == \E i \in Placed(t) : Opens(t, i, j)
InPrivateUse(t, j) == \E i \in Extended(t) \cup {0} : Keeps(t, i, j)
PastSingleton(t, j) == \E i \in Placed(t) : Opens(t, i, j) /\ i + 1 < j
PastX(t, j) == \E i \in Extended(t) \cup {0} : Keeps(t, i, j) /\ i + 1 < j

\* Where the extensions may end.
LEMMA ExtendedIs ==
  ASSUME NEW t \in Seq(Subtag)
  PROVE  /\ Extended(t) \subseteq 0 .. Len(t)
         /\ \A j \in DOMAIN t : j \in Extended(t) <=>
              j \in Placed(t) \/ \E i \in Placed(t) : /\ Opens(t, i, j)
                                                      /\ Form[t[j]].len # 1 \/ (j = Len(t) /\ i + 1 < j)
  <1> DEFINE from(i, j) == /\ i < j /\ IsSingleton(t[i + 1])
                           /\ Form[t[j]].len # 1 \/ (j = Len(t) /\ i + 1 < j)
                           /\ \A k \in i + 1 .. j : IsPart(t[k]) /\ (Form[t[k]].len = 1 => IsSingleton(t[k]))
                           /\ \A k \in i + 1 .. j - 1 : Form[t[k]].len = 1 => Form[t[k + 1]].len # 1
  <1>1. Extended(t) = Placed(t) \cup {j \in DOMAIN t : \E i \in Placed(t) : from(i, j)}
    BY DEF Extended, Extensions
  <1>2. \A i, j : from(i, j) <=> Opens(t, i, j) /\ (Form[t[j]].len # 1 \/ (j = Len(t) /\ i + 1 < j))
    BY DEF Opens
  <1>3. Placed(t) \subseteq 0 .. Len(t)
    BY DEF Placed, Many
  <1> HIDE DEF from
  <1>4. DOMAIN t \subseteq 0 .. Len(t)
    OBVIOUS
  <1>5. Extended(t) \subseteq 0 .. Len(t)
    BY <1>1, <1>3, <1>4
  <1>6. \A j \in DOMAIN t : j \in Extended(t) <=>
              j \in Placed(t) \/ \E i \in Placed(t) : /\ Opens(t, i, j)
                                                      /\ Form[t[j]].len # 1 \/ (j = Len(t) /\ i + 1 < j)
    BY <1>1, <1>2, Zenon
  <1> QED  BY <1>5, <1>6

\* How a tag gets into an extension and goes on in it.
LEMMA ExtensionGrow ==
  ASSUME NEW t \in Seq(Subtag), NEW j \in Nat, j < Len(t)
  PROVE  /\ ~InExtension(t, 0) /\ ~PastSingleton(t, 0)
         /\ InExtension(t, j + 1) <=> \/ j \in Placed(t) /\ IsSingleton(t[j + 1])
                                      \/ PastSingleton(t, j + 1)
         /\ PastSingleton(t, j + 1) <=>
              /\ InExtension(t, j) /\ IsPart(t[j + 1])
              /\ Form[t[j + 1]].len = 1 => IsSingleton(t[j + 1]) /\ Form[t[j]].len # 1
  <1> DEFINE goes == IsPart(t[j + 1]) /\ (Form[t[j + 1]].len = 1 => IsSingleton(t[j + 1]) /\ Form[t[j]].len # 1)
  <1>1. \A i \in Placed(t) : i \in Nat
    BY PlacedGrow
  <1>2. \A i \in Placed(t) : /\ ~Opens(t, i, 0)
                             /\ Opens(t, i, j + 1) <=> (i = j /\ IsSingleton(t[j + 1])) \/ (Opens(t, i, j) /\ goes)
    BY <1>1, OpensGrow
  <1>3. \A i \in Placed(t) : Opens(t, i, j) => i + 1 < j + 1
    BY <1>1 DEF Opens
  <1>4. \A i \in Placed(t) : i = j => ~(i + 1 < j + 1)
    BY <1>1
  <1> HIDE DEF goes
  <1>5. ~InExtension(t, 0) /\ ~PastSingleton(t, 0)
    BY <1>2, Zenon DEF InExtension, PastSingleton
  <1>6. PastSingleton(t, j + 1) <=> InExtension(t, j) /\ goes
    BY <1>2, <1>3, <1>4, Zenon DEF InExtension, PastSingleton
  <1>7. InExtension(t, j + 1) <=> (j \in Placed(t) /\ IsSingleton(t[j + 1])) \/ (InExtension(t, j) /\ goes)
    BY <1>2, Zenon DEF InExtension
  <1> QED  BY <1>5, <1>6, <1>7 DEF goes

\* How it gets behind an x and goes on there.
LEMMA PrivateUseGrow ==
  ASSUME NEW t \in Seq(Subtag), NEW j \in Nat, j < Len(t)
  PROVE  /\ ~InPrivateUse(t, 0) /\ ~PastX(t, 0)
         /\ InPrivateUse(t, j + 1) <=> \/ j \in Extended(t) \cup {0} /\ IsX(t[j + 1])
                                       \/ PastX(t, j + 1)
         /\ PastX(t, j + 1) <=> InPrivateUse(t, j) /\ IsPart(t[j + 1])
  <1>1. \A i \in Extended(t) \cup {0} : i \in Nat
    BY ExtendedIs
  <1>2. \A i \in Extended(t) \cup {0} :
          /\ ~Keeps(t, i, 0)
          /\ Keeps(t, i, j + 1) <=> (i = j /\ IsX(t[j + 1])) \/ (Keeps(t, i, j) /\ IsPart(t[j + 1]))
    BY <1>1, KeepsGrow
  <1>3. \A i \in Extended(t) \cup {0} : Keeps(t, i, j) => i + 1 < j + 1
    BY <1>1 DEF Keeps
  <1>4. \A i \in Extended(t) \cup {0} : i = j => ~(i + 1 < j + 1)
    BY <1>1
  <1>5. ~InPrivateUse(t, 0) /\ ~PastX(t, 0)
    BY <1>2, Zenon DEF InPrivateUse, PastX
  <1>6. PastX(t, j + 1) <=> InPrivateUse(t, j) /\ IsPart(t[j + 1])
    BY <1>2, <1>3, <1>4, Zenon DEF InPrivateUse, PastX
  <1>7. InPrivateUse(t, j + 1) <=> (j \in Extended(t) \cup {0} /\ IsX(t[j + 1])) \/ (InPrivateUse(t, j) /\ IsPart(t[j + 1]))
    BY <1>2, Zenon DEF InPrivateUse
  <1> QED  BY <1>5, <1>6, <1>7

\* The grammar, said of where the last subtag stands.
LEMMA GrammarIs ==
  ASSUME NEW t \in Seq(Subtag), Len(t) > 0
  PROVE  IsGrammatical(t) <=> Len(t) \in Placed(t) \/ PastSingleton(t, Len(t)) \/ PastX(t, Len(t))
  <1>1. Len(t) \in DOMAIN t
    OBVIOUS
  <1>2. Private(t, Extended(t) \cup {0}) =
          {j \in DOMAIN t : \E i \in Extended(t) \cup {0} : Keeps(t, i, j) /\ i + 1 < j}
    <2>1. \A i \in Extended(t) \cup {0}, j \in DOMAIN t : i + 1 < j => i < j
      BY ExtendedIs
    <2> QED  BY <2>1 DEF Private, Keeps, IsX
  <1>3. Len(t) \in Private(t, Extended(t) \cup {0}) <=> PastX(t, Len(t))
    BY <1>1, <1>2 DEF PastX
  <1>4. ASSUME NEW i \in Placed(t), Opens(t, i, Len(t)), Form[t[Len(t)]].len # 1
        PROVE  i + 1 < Len(t)
    <2>1. i \in Nat /\ i < Len(t)
      BY <1>4 DEF Opens, Placed, Many
    <2>2. i + 1 # Len(t)
      BY <1>4 DEF Opens, IsSingleton
    <2> QED  BY <2>1, <2>2
  <1>5. Len(t) \in Extended(t) <=> Len(t) \in Placed(t) \/ PastSingleton(t, Len(t))
    <2>1. Len(t) \in Extended(t) <=>
            \/ Len(t) \in Placed(t)
            \/ \E i \in Placed(t) : Opens(t, i, Len(t)) /\ (Form[t[Len(t)]].len # 1 \/ (Len(t) = Len(t) /\ i + 1 < Len(t)))
      BY <1>1, ExtendedIs, Zenon
    <2> QED  BY <1>4, <2>1 DEF PastSingleton
  <1> QED  BY <1>3, <1>5 DEF IsGrammatical

\* The machine is running and in the state n.
In(p, n) == Running(p) /\ p.state = n

\* With what a tag begins that the grammar has.
Begins(s) == IsLanguage(s) \/ IsYear(s) \/ IsX(s)

\* What is true of the machine p after j subtags of t.
Follows(t, p, j) ==
  /\ p.valid => Running(p)
  /\ Running(p) => /\ Sound(p) /\ Flagged(p)
                   /\ p.state = 0 <=> j = 0
                   /\ j = 0 => p.map = {}
  /\ Running(p) /\ j > 0 =>
       /\ Begins(t[1]) \/ IsScript(t[1])
       /\ Language \in p.map <=> IsLanguage(t[1])
       /\ PrivateUse \in p.map => (p.start[PrivateUse] = 0 <=> IsX(t[1]))
       /\ IsX(t[1]) => p.state = 6
       /\ p.extension <=> p.state = 5 /\ Form[t[j]].len = 1

\* The states of the machine are the parts of the grammar.
Reads(t, p, j) ==
  /\ j \in One(t, {0}, IsLanguage) <=> In(p, 1) /\ ~p.extlang
  /\ j \in Named(t) <=> In(p, 1)
  /\ j \in Scripted(t) <=> In(p, 1) \/ In(p, 2)
  /\ j \in Placed(t) <=> In(p, 1) \/ In(p, 2) \/ In(p, 4)
  /\ InExtension(t, j) <=> In(p, 5)
  /\ PastSingleton(t, j) <=> In(p, 5) /\ p.length[Extension] > 3
  /\ InPrivateUse(t, j) <=> In(p, 6)
  /\ PastX(t, j) <=> In(p, 6) /\ p.private

\* So it is at the start,
LEMMA FollowsStart ==
  ASSUME NEW t \in Seq(Subtag)
  PROVE  Follows(t, Start(t), 0)
  <1> DEFINE p == Start(t)
  <1>1. ASSUME Running(p)
        PROVE  p \in ParserStates
    <2>1. LengthOf(t) \in 2 .. MaximumTagLength
      BY <1>1 DEF Running, Start
    <2>2. p.valid = TRUE
      BY <1>1 DEF Running, Start
    <2> QED  BY DEF Start, ParserStates, Fields
  <1>2. p.state = 0 /\ p.at = 0 /\ p.map = {} /\ ~p.extlang /\ ~p.extension /\ ~p.private /\ ~p.done
    BY DEF Start
  <1> HIDE DEF p
  <1>3. Running(p) => Sound(p)
    BY <1>1, <1>2 DEF Sound
  <1>4. Flagged(p)
    BY <1>2 DEF Flagged
  <1>5. p.valid => Running(p)
    BY <1>2 DEF Running
  <1> QED  BY <1>2, <1>3, <1>4, <1>5 DEF Follows, p

\* and after one more subtag.
LEMMA FollowsStep ==
  ASSUME NEW t \in Seq(Subtag), NEW j \in Nat, j < Len(t), NEW p, Follows(t, p, j)
  PROVE  Follows(t, After(t, FALSE, p, j + 1), j + 1)
  <1> DEFINE q == After(t, FALSE, p, j + 1)
             s == t[j + 1]
  <1>1. CASE ~Running(p)
    <2>1. q = p
      BY <1>1 DEF After
    <2>2. ~Running(q) /\ (q.valid => Running(q))
      BY <1>1, <2>1 DEF Follows
    <2> HIDE DEF q
    <2>3. Follows(t, q, j + 1)
      BY <2>2 DEF Follows
    <2> QED  BY <2>3 DEF q
  <1>2. CASE Running(p)
    <2>1. q = Step(p, s, FALSE) /\ s \in Subtag
      BY <1>2 DEF After
    <2>2. Sound(p) /\ Flagged(p) /\ (p.state = 0 <=> j = 0)
      BY <1>2 DEF Follows
    <2> HIDE DEF q, s
    <2>3. q.valid => Running(q)
      BY <1>2, <2>1, <2>2, GoesTo
    <2>4. ASSUME Running(q)
          PROVE  /\ Sound(q) /\ Flagged(q) /\ q.state # 0
                 /\ Begins(t[1]) \/ IsScript(t[1])
                 /\ Language \in q.map <=> IsLanguage(t[1])
                 /\ PrivateUse \in q.map => (q.start[PrivateUse] = 0 <=> IsX(t[1]))
                 /\ IsX(t[1]) => q.state = 6
                 /\ q.extension <=> q.state = 5 /\ Form[t[j + 1]].len = 1
      <3>5. Sound(q)
        BY <1>2, <2>1, <2>2, <2>4, StaysSound
      <3>6. /\ Flagged(q)
            /\ q.extension <=> q.state = 5 /\ Form[s].len = 1
            /\ Language \in q.map <=> Language \in p.map \/ (p.state = 0 /\ IsLanguage(s))
            /\ PrivateUse \in p.map => q.start[PrivateUse] = p.start[PrivateUse]
            /\ PrivateUse \in q.map \ p.map => q.start[PrivateUse] = p.at
            /\ p.state = 6 => q.state = 6
        BY <1>2, <2>1, <2>2, <2>4, FlagsTo, ZenonT(30)
      <3>7. /\ q.state \in {1, 2, 4, 5, 6}
            /\ q.state = 6 <=> \/ p.state \in {0, 1, 2, 4, 5} /\ IsX(s) /\ ~p.extension
                               \/ p.state = 6 /\ Form[s].len \in 1 .. 8
        <4>1. Moves(p, q, s) /\ (Running(q) => q.state \in {1, 2, 4, 5, 6})
          BY <1>2, <2>1, <2>2, GoesTo
        <4> QED  BY <2>4, <4>1 DEF Moves
      <3>8. /\ p.map \subseteq Fields /\ (p.state = 0 <=> p.at = 0) /\ p.state \in 0 .. 6
            /\ \A f \in p.map : f <= Highest[p.state]
            /\ p.state = 6 => PrivateUse \in p.map
            /\ q.state = 6 => PrivateUse \in q.map
            /\ p.extension => p.state = 5
        BY <2>2, <3>6 DEF Sound, Flagged, ParserStates
      <3>9. CASE j = 0
        <4>1. s = t[1] /\ p.state = 0 /\ p.at = 0 /\ ~p.extension
          BY <2>2, <3>8, <3>9 DEF s
        <4>2. p.map = {}
          BY <1>2, <3>9 DEF Follows
        <4>3. Language \in q.map <=> IsLanguage(t[1])
          BY <3>6, <4>1, <4>2
        <4>4. PrivateUse \in q.map => q.start[PrivateUse] = 0
          BY <3>6, <4>1, <4>2
        <4>5. q.state = 6 <=> IsX(t[1])
          BY <3>7, <4>1
        <4>6. IsX(t[1]) => PrivateUse \in q.map
          BY <3>8, <4>5
        <4>7. PrivateUse \in q.map => IsX(t[1])
          <5>1. \A n \in {1, 2, 4, 5} : ~(PrivateUse <= Highest[n])
            BY DEF Highest, Region, PrivateUse
          <5>2. PrivateUse \in q.map => PrivateUse <= Highest[q.state]
            BY <3>6 DEF Flagged
          <5>3. q.state \in {1, 2, 4, 5} \/ q.state = 6
            BY <3>7
          <5> QED  BY <4>5, <5>1, <5>2, <5>3, Zenon
        <4>8. Begins(t[1]) \/ IsScript(t[1])
          <5>1. Moves(p, q, s) /\ q.state \in {1, 2, 4, 5, 6}
            BY <1>2, <2>1, <2>2, <2>4, GoesTo
          <5> QED  BY <2>4, <4>1, <5>1 DEF Moves, Begins
        <4> QED  BY <3>5, <3>6, <3>7, <4>3, <4>4, <4>5, <4>7, <4>8 DEF s
      <3>10. CASE j > 0
        <4>1. /\ Begins(t[1]) \/ IsScript(t[1])
              /\ Language \in p.map <=> IsLanguage(t[1])
              /\ PrivateUse \in p.map => (p.start[PrivateUse] = 0 <=> IsX(t[1]))
              /\ IsX(t[1]) => p.state = 6
              /\ p.extension <=> p.state = 5 /\ Form[t[j]].len = 1
          BY <1>2, <3>10 DEF Follows
        <4>2. p.state # 0 /\ p.at # 0
          BY <2>2, <3>8, <3>10
        <4>3. Language \in q.map <=> IsLanguage(t[1])
          BY <3>6, <4>1, <4>2
        <4>4. PrivateUse \in q.map => (q.start[PrivateUse] = 0 <=> IsX(t[1]))
          BY <3>6, <3>8, <4>1, <4>2
        <4>5. IsX(t[1]) => q.state = 6
          BY <3>6, <4>1
        <4> QED  BY <3>5, <3>6, <3>7, <4>1, <4>3, <4>4, <4>5 DEF s
      <3> QED  BY <3>9, <3>10
    <2>5. j + 1 # 0 /\ j + 1 > 0
      OBVIOUS
    <2>6. Follows(t, q, j + 1)
      BY <2>3, <2>4, <2>5, Zenon DEF Follows
    <2> QED  BY <2>6 DEF q
  <1> QED  BY <1>1, <1>2

\* The states are the parts of the grammar at the start,
LEMMA ReadsStart ==
  ASSUME NEW t \in Seq(Subtag), Len(t) > 0
  PROVE  Reads(t, Start(t), 0)
  <1>1. 0 \in Nat /\ 0 < Len(t)
    OBVIOUS
  <1>2. /\ 0 \notin One(t, {0}, IsLanguage) /\ 0 \notin Named(t) /\ 0 \notin Scripted(t) /\ 0 \notin Placed(t)
        /\ ~InExtension(t, 0) /\ ~PastSingleton(t, 0) /\ ~InPrivateUse(t, 0) /\ ~PastX(t, 0)
    <2>1. 0 \notin One(t, {0}, IsLanguage) /\ 0 \notin Named(t)
      BY <1>1, NamedGrow
    <2>2. 0 \notin Scripted(t)
      BY <1>1, ScriptedGrow
    <2>3. 0 \notin Placed(t)
      BY <1>1, PlacedGrow
    <2>4. ~InExtension(t, 0) /\ ~PastSingleton(t, 0)
      BY <1>1, ExtensionGrow
    <2>5. ~InPrivateUse(t, 0) /\ ~PastX(t, 0)
      BY <1>1, PrivateUseGrow
    <2> QED  BY <2>1, <2>2, <2>3, <2>4, <2>5
  <1>3. Start(t).state = 0
    BY DEF Start
  <1>4. ~In(Start(t), 1) /\ ~In(Start(t), 2) /\ ~In(Start(t), 4) /\ ~In(Start(t), 5) /\ ~In(Start(t), 6)
    BY <1>3 DEF In
  <1> QED  BY <1>2, <1>4, Zenon DEF Reads

\* and after one more subtag, if the tag begins as it should.
LEMMA ReadsStep ==
  ASSUME NEW t \in Seq(Subtag), NEW j \in Nat, j < Len(t), NEW p, Follows(t, p, j), Reads(t, p, j),
         Begins(t[1]), j = 0 => Running(p)
  PROVE  Reads(t, After(t, FALSE, p, j + 1), j + 1)
  <1> DEFINE q == After(t, FALSE, p, j + 1)
             s == t[j + 1]
  <1>1. /\ j + 1 \in One(t, {0}, IsLanguage) <=> j = 0 /\ IsLanguage(s)
        /\ j + 1 \in Named(t) <=> \/ j + 1 \in One(t, {0}, IsLanguage)
                                  \/ j \in One(t, {0}, IsLanguage) /\ IsExtlang(s)
        /\ j + 1 \in Scripted(t) <=> j + 1 \in Named(t) \/ (j \in Scripted(t) /\ IsScript(s))
        /\ j + 1 \in Placed(t) <=> \/ j + 1 \in Scripted(t)
                                   \/ j \in Scripted(t) /\ IsRegion(s)
                                   \/ j = 0 /\ IsYear(s)
                                   \/ j \in Placed(t) /\ IsVariant(s)
    <2>1. /\ j + 1 \in One(t, {0}, IsLanguage) <=> j = 0 /\ IsLanguage(s)
          /\ j + 1 \in Named(t) <=> \/ j + 1 \in One(t, {0}, IsLanguage)
                                    \/ j \in One(t, {0}, IsLanguage) /\ IsExtlang(s)
      BY NamedGrow, Zenon
    <2>2. j + 1 \in Scripted(t) <=> j + 1 \in Named(t) \/ (j \in Scripted(t) /\ IsScript(s))
      BY ScriptedGrow, Zenon
    <2>3. j + 1 \in Placed(t) <=> \/ j + 1 \in Scripted(t)
                                  \/ j \in Scripted(t) /\ IsRegion(s)
                                  \/ j = 0 /\ IsYear(s)
                                  \/ j \in Placed(t) /\ IsVariant(s)
      BY PlacedGrow, Zenon
    <2> QED  BY <2>1, <2>2, <2>3, Zenon
  <1>2. /\ InExtension(t, j + 1) <=> (j \in Placed(t) /\ IsSingleton(s)) \/ PastSingleton(t, j + 1)
        /\ PastSingleton(t, j + 1) <=>
             /\ InExtension(t, j) /\ IsPart(s)
             /\ Form[s].len = 1 => IsSingleton(s) /\ Form[t[j]].len # 1
    BY ExtensionGrow, Zenon
  <1>3. /\ InPrivateUse(t, j + 1) <=> (j \in Extended(t) \cup {0} /\ IsX(s)) \/ PastX(t, j + 1)
        /\ PastX(t, j + 1) <=> InPrivateUse(t, j) /\ IsPart(s)
    BY PrivateUseGrow, Zenon
  <1>4. j \in Extended(t) \cup {0} <=> \/ j = 0 \/ j \in Placed(t)
                                       \/ InExtension(t, j) /\ Form[t[j]].len # 1
    BY ExtendedIs DEF InExtension
  <1>5. /\ j \in One(t, {0}, IsLanguage) <=> In(p, 1) /\ ~p.extlang
        /\ j \in Named(t) <=> In(p, 1)
        /\ j \in Scripted(t) <=> In(p, 1) \/ In(p, 2)
        /\ j \in Placed(t) <=> In(p, 1) \/ In(p, 2) \/ In(p, 4)
        /\ InExtension(t, j) <=> In(p, 5)
        /\ InPrivateUse(t, j) <=> In(p, 6)
    BY DEF Reads
  <1> HIDE DEF q, s
  <1>6. CASE ~Running(p)
    <2>1. q = p
      BY <1>6 DEF After, q
    <2>2. \A n \in 0 .. 6 : ~In(p, n) /\ ~In(q, n)
      BY <1>6, <2>1 DEF In
    <2>3. /\ ~In(p, 1) /\ ~In(p, 2) /\ ~In(p, 4) /\ ~In(p, 5) /\ ~In(p, 6)
          /\ ~In(q, 1) /\ ~In(q, 2) /\ ~In(q, 4) /\ ~In(q, 5) /\ ~In(q, 6)
      BY <2>2
    <2>4. j # 0
      BY <1>6
    <2>5. Reads(t, q, j + 1)
      BY <1>1, <1>2, <1>3, <1>4, <1>5, <2>3, <2>4, Zenon DEF Reads
    <2> QED  BY <2>5 DEF q
  <1>7. CASE Running(p)
    <2>1. q = Step(p, s, FALSE) /\ s \in Subtag
      BY <1>7 DEF After, q, s
    <2>2. Sound(p) /\ Flagged(p) /\ (p.state = 0 <=> j = 0)
      BY <1>7 DEF Follows
    <2>3. p.state \in {0, 1, 2, 4, 5, 6} /\ p.extlang \in BOOLEAN /\ p.extension \in BOOLEAN /\ p.private \in BOOLEAN
      BY <2>2 DEF Sound, ParserStates
    <2>4. \A n \in 0 .. 6 : In(p, n) <=> p.state = n
      BY <1>7 DEF In
    <2>5. /\ In(q, 1) <=> \/ p.state = 0 /\ IsLanguage(s)
                          \/ p.state = 1 /\ IsExtlang(s) /\ ~p.extlang
          /\ In(q, 2) <=> p.state \in 0 .. 2 /\ IsScript(s)
          /\ In(q, 4) <=> \/ p.state = 0 /\ IsYear(s)
                          \/ p.state \in 1 .. 2 /\ IsRegion(s)
                          \/ p.state \in {1, 2, 4} /\ IsVariant(s)
          /\ In(q, 5) <=> \/ p.state \in {1, 2, 4, 5} /\ IsSingleton(s) /\ ~p.extension
                          \/ p.state = 5 /\ Form[s].len \in 2 .. 8
          /\ In(q, 6) <=> \/ p.state \in {0, 1, 2, 4, 5} /\ IsX(s) /\ ~p.extension
                          \/ p.state = 6 /\ Form[s].len \in 1 .. 8
      <3>1. Moves(p, q, s)
        BY <1>7, <2>1, <2>2, GoesTo
      <3> QED  BY <3>1 DEF In, Moves
    <2>6. Running(q) =>
            /\ q.extlang <=> p.extlang \/ (p.state = 1 /\ q.state = 1)
            /\ q.private <=> q.state = 6 /\ p.state = 6
            /\ q.state = 5 => (q.length[Extension] > 3 <=> p.state = 5)
      BY <1>7, <2>1, <2>2, FlagsTo, Zenon
    <2>7. p.state = 0 => ~p.extlang
      BY <2>2 DEF Flagged
    <2>8. /\ j \in One(t, {0}, IsLanguage) <=> p.state = 1 /\ ~p.extlang
          /\ j \in Named(t) <=> p.state = 1
          /\ j \in Scripted(t) <=> p.state \in {1, 2}
          /\ j \in Placed(t) <=> p.state \in {1, 2, 4}
          /\ InExtension(t, j) <=> p.state = 5
          /\ InPrivateUse(t, j) <=> p.state = 6
      BY <1>5, <2>4
    <2>9. j + 1 \in One(t, {0}, IsLanguage) <=> In(q, 1) /\ ~q.extlang
      <3>1. In(q, 1) => Running(q) /\ q.state = 1
        BY DEF In
      <3>2. In(q, 1) => (q.extlang <=> p.extlang \/ p.state = 1)
        BY <2>6, <3>1, Zenon
      <3>3. In(q, 1) /\ ~q.extlang => p.state = 0 /\ IsLanguage(s)
        BY <2>5, <3>2, Zenon
      <3>4. p.state = 0 /\ IsLanguage(s) => In(q, 1) /\ ~q.extlang
        BY <2>5, <2>7, <3>2
      <3> QED  BY <1>1, <2>2, <3>3, <3>4, Zenon
    <2>10. j + 1 \in Named(t) <=> In(q, 1)
      BY <1>1, <2>2, <2>5, <2>8
    <2>11. j = 0 => ~IsScript(s)
      BY FormAssumption, FormOf, <2>1 DEF Begins, IsScript, IsLanguage, IsYear, IsX, Is, s
    <2>12. j + 1 \in Scripted(t) <=> In(q, 1) \/ In(q, 2)
      BY <1>1, <2>2, <2>3, <2>5, <2>8, <2>10, <2>11
    <2>13. j + 1 \in Placed(t) <=> In(q, 1) \/ In(q, 2) \/ In(q, 4)
      BY <1>1, <2>2, <2>3, <2>5, <2>8, <2>12
    <2>14. /\ IsSingleton(s) => Form[s].len = 1 /\ ~IsX(s)
           /\ IsX(s) => Form[s].len = 1
           /\ IsPart(s) <=> Form[s].len \in 1 .. 8
           /\ Form[s].len \in 1 .. 8 <=> Form[s].len = 1 \/ Form[s].len \in 2 .. 8
           /\ ~(Form[s].len = 1 /\ Form[s].len \in 2 .. 8)
      BY FormOf, <2>1 DEF IsSingleton, IsX, IsPart
    <2>15. p.extension <=> p.state = 5 /\ Form[t[j]].len = 1
      <3>1. CASE j = 0
        BY <2>2, <3>1 DEF Flagged
      <3>2. CASE j # 0
        BY <1>7, <3>2 DEF Follows
      <3> QED  BY <3>1, <3>2
    <2>16. PastSingleton(t, j + 1) <=> In(q, 5) /\ p.state = 5
      BY <1>2, <2>5, <2>8, <2>14, <2>15
    <2>17. InExtension(t, j + 1) <=> In(q, 5)
      BY <1>2, <2>3, <2>5, <2>8, <2>14, <2>15, <2>16
    <2>18. PastSingleton(t, j + 1) <=> In(q, 5) /\ q.length[Extension] > 3
      BY <2>6, <2>16 DEF In
    <2>19. PastX(t, j + 1) <=> In(q, 6) /\ p.state = 6
      BY <1>3, <2>5, <2>8, <2>14
    <2>20. InPrivateUse(t, j + 1) <=> In(q, 6)
      BY <1>3, <1>4, <2>2, <2>3, <2>5, <2>8, <2>14, <2>15, <2>19
    <2>21. PastX(t, j + 1) <=> In(q, 6) /\ q.private
      BY <2>6, <2>19 DEF In
    <2>22. Reads(t, q, j + 1)
      BY <2>9, <2>10, <2>12, <2>13, <2>17, <2>18, <2>20, <2>21, Zenon DEF Reads
    <2> QED  BY <2>22 DEF q
  <1> QED  BY <1>6, <1>7

\* By induction over the run, both are so at its end.
LEMMA RunFollows ==
  ASSUME NEW t \in Seq(Subtag)
  PROVE  /\ Follows(t, ParseTag(t, FALSE), Len(t))
         /\ ~Start(t).valid => ~Running(ParseTag(t, FALSE))
         /\ Start(t).valid /\ Len(t) > 0 /\ Begins(t[1]) => Reads(t, ParseTag(t, FALSE), Len(t))
  <1>1. PICK p : /\ p[0] = Start(t) /\ ParseTag(t, FALSE) = p[Len(t)]
                 /\ \A i \in 1 .. Len(t) : p[i] = After(t, FALSE, p[i - 1], i)
    BY ParseIs
  <1>2. Len(t) \in Nat
    OBVIOUS
  <1>3. \A j \in Nat : j < Len(t) => p[j + 1] = After(t, FALSE, p[j], j + 1)
    <2> SUFFICES ASSUME NEW j \in Nat, j < Len(t)
                 PROVE  p[j + 1] = After(t, FALSE, p[j], j + 1)
      OBVIOUS
    <2>1. j + 1 \in 1 .. Len(t) /\ (j + 1) - 1 = j
      BY <1>2
    <2> QED  BY <1>1, <2>1, Zenon
  <1>4. Follows(t, p[Len(t)], Len(t))
    <2> DEFINE S == {j \in Nat : j <= Len(t) => Follows(t, p[j], j)}
    <2>1. 0 \in S
      BY <1>1, FollowsStart
    <2>2. ASSUME NEW j \in Nat, j \in S
          PROVE  j + 1 \in S
      <3>1. CASE j < Len(t)
        <4>1. Follows(t, p[j], j)
          BY <2>2, <3>1
        <4>2. Follows(t, After(t, FALSE, p[j], j + 1), j + 1)
          BY <3>1, <4>1, FollowsStep
        <4>3. p[j + 1] = After(t, FALSE, p[j], j + 1)
          BY <1>3, <3>1, Zenon
        <4>4. Follows(t, p[j + 1], j + 1)
          BY <4>2, <4>3
        <4> QED  BY <4>4
      <3>2. CASE ~(j < Len(t))
        BY <1>2, <3>2
      <3> QED  BY <3>1, <3>2
    <2> HIDE DEF S
    <2>3. Len(t) \in S
      BY <1>2, <2>1, <2>2, Induction
    <2> QED  BY <1>2, <2>3 DEF S
  <1>5. ASSUME ~Start(t).valid
        PROVE  ~Running(p[Len(t)])
    <2> DEFINE S == {j \in Nat : j <= Len(t) => ~Running(p[j])}
    <2>1. 0 \in S
      BY <1>1, <1>5 DEF Running
    <2>2. ASSUME NEW j \in Nat, j \in S
          PROVE  j + 1 \in S
      <3>1. CASE j < Len(t)
        <4>1. ~Running(p[j])
          BY <2>2, <3>1
        <4>2. After(t, FALSE, p[j], j + 1) = p[j]
          BY <4>1 DEF After
        <4>3. p[j + 1] = p[j]
          BY <1>3, <3>1, <4>2, Zenon
        <4> QED  BY <4>1, <4>3
      <3>2. CASE ~(j < Len(t))
        BY <1>2, <3>2
      <3> QED  BY <3>1, <3>2
    <2> HIDE DEF S
    <2>3. Len(t) \in S
      BY <1>2, <2>1, <2>2, Induction
    <2> QED  BY <1>2, <2>3 DEF S
  <1>6. ASSUME Start(t).valid, Len(t) > 0, Begins(t[1])
        PROVE  Reads(t, p[Len(t)], Len(t))
    <2> DEFINE S == {j \in Nat : j <= Len(t) => Follows(t, p[j], j) /\ Reads(t, p[j], j)}
    <2>0. Running(p[0])
      BY <1>1, <1>6 DEF Running, Start
    <2>1. 0 \in S
      BY <1>1, <1>6, FollowsStart, ReadsStart
    <2>2. ASSUME NEW j \in Nat, j \in S
          PROVE  j + 1 \in S
      <3>1. CASE j < Len(t)
        <4>1. Follows(t, p[j], j) /\ Reads(t, p[j], j) /\ (j = 0 => Running(p[j]))
          BY <2>0, <2>2, <3>1
        <4>2. Follows(t, After(t, FALSE, p[j], j + 1), j + 1)
          BY <3>1, <4>1, FollowsStep
        <4>3. Reads(t, After(t, FALSE, p[j], j + 1), j + 1)
          BY <1>6, <3>1, <4>1, ReadsStep
        <4>4. p[j + 1] = After(t, FALSE, p[j], j + 1)
          BY <1>3, <3>1, Zenon
        <4>5. Follows(t, p[j + 1], j + 1) /\ Reads(t, p[j + 1], j + 1)
          BY <4>2, <4>3, <4>4
        <4> QED  BY <4>5
      <3>2. CASE ~(j < Len(t))
        BY <1>2, <3>2
      <3> QED  BY <3>1, <3>2
    <2> HIDE DEF S
    <2>3. Len(t) \in S
      BY <1>2, <2>1, <2>2, Induction
    <2> QED  BY <1>2, <2>3 DEF S
  <1> QED  BY <1>1, <1>4, <1>5, <1>6

\* There the machine accepts what the grammar has.
LEMMA WellFormedIs ==
  ASSUME NEW t \in Seq(Subtag), Len(t) > 0, NEW p, Follows(t, p, Len(t)), Reads(t, p, Len(t))
  PROVE  WellFormedTag(p) <=> IsGrammatical(t)
  <1>1. IsGrammatical(t) <=> Len(t) \in Placed(t) \/ PastSingleton(t, Len(t)) \/ PastX(t, Len(t))
    BY GrammarIs
  <1>2. /\ Len(t) \in Placed(t) <=> In(p, 1) \/ In(p, 2) \/ In(p, 4)
        /\ PastSingleton(t, Len(t)) <=> In(p, 5) /\ p.length[Extension] > 3
        /\ PastX(t, Len(t)) <=> In(p, 6) /\ p.private
    BY DEF Reads
  <1>3. CASE ~Running(p)
    <2>1. ~p.valid
      BY <1>3 DEF Follows
    <2> QED  BY <1>1, <1>2, <1>3, <2>1 DEF In, WellFormedTag
  <1>4. CASE Running(p)
    <2>1. Sound(p) /\ Flagged(p) /\ p.state # 0
      BY <1>4 DEF Follows
    <2>2. p.state \in {1, 2, 4, 5, 6} /\ p.length[PrivateUse] \in Nat
      BY <2>1 DEF Sound, ParserStates, Fields, PrivateUse
    <2>3. p.state = 6 => (p.length[PrivateUse] > 2 <=> p.private)
      BY <2>1, <2>2 DEF Flagged
    <2>4. p.valid
      BY <1>4 DEF Running
    <2>5. WellFormedTag(p) <=> /\ p.state = 5 => p.length[Extension] > 3
                               /\ p.state = 6 => p.length[PrivateUse] > 2
      BY <2>4 DEF WellFormedTag, Extension, PrivateUse
    <2>6. \A n \in 0 .. 6 : In(p, n) <=> p.state = n
      BY <1>4 DEF In
    <2> QED  BY <1>1, <1>2, <2>2, <2>3, <2>5, <2>6
  <1> QED  BY <1>3, <1>4

\* What the grammar has begins as it should.
LEMMA BeginsSo ==
  ASSUME NEW t \in Seq(Subtag), Len(t) > 0, IsGrammatical(t)
  PROVE  Begins(t[1])
  <1> SUFFICES ASSUME ~Begins(t[1])
               PROVE  FALSE
    OBVIOUS
  <1>1. One(t, {0}, IsLanguage) = {}
    BY DEF One, Begins
  <1>2. Named(t) = {}
    BY <1>1 DEF Named, Opt, One
  <1>3. Scripted(t) = {}
    BY <1>2 DEF Scripted, Many
  <1>4. Opt(t, Scripted(t), IsRegion) = {}
    BY <1>3 DEF Opt, One
  <1>5. One(t, {0}, IsYear) = {}
    BY DEF One, Begins
  <1>6. Placed(t) = {}
    BY <1>4, <1>5 DEF Placed, Many
  <1>7. Extended(t) = {}
    BY <1>6 DEF Extended, Extensions
  <1>8. Len(t) \in Private(t, {0})
    BY <1>7 DEF IsGrammatical
  <1> QED  BY <1>8 DEF Private, Begins, IsX

\* CLanguage takes no other decision than the machine.
LEMMA LanguageAccepts ==
  ASSUME NEW t \in Seq(Subtag), ~Grandfathered(t)
  PROVE  LanguageOf(t).wellFormed <=> Start(Replaced(t)).valid /\ IsGrammatical(Replaced(t))
  <1> DEFINE v == Replaced(t)
             p == ParseTag(v, FALSE)
  <1>1. LanguageOf(t).wellFormed = ValidateParsed(v, p, FALSE).wellFormed
    <2>1. Grandfathered(t) = FALSE
      BY DEF Grandfathered
    <2> QED  BY <2>1 DEF LanguageOf, ValidateTagAndInitialize, Validate
  <1>2. v \in Seq(Subtag)
    BY ReplacedType
  <1>3. /\ Follows(v, p, Len(v))
        /\ ~Start(v).valid => ~Running(p)
        /\ Start(v).valid /\ Len(v) > 0 /\ Begins(v[1]) => Reads(v, p, Len(v))
    BY <1>2, RunFollows, Zenon
  <1>4. Len(v) \in Nat /\ (Len(v) > 0 => v[1] \in Subtag)
    BY <1>2
  <1>5. Start(v).valid => Len(v) > 0
    <2>1. ASSUME Len(v) = 0
          PROVE  LengthOf(v) = -1
      <3>1. StartOf(v, 1) = 0
        BY <1>2, Starts
      <3> QED  BY <2>1, <3>1 DEF LengthOf
    <2>2. ~(-1 \in 2 .. MaximumTagLength)
      OBVIOUS
    <2>3. Start(v).valid => Len(v) # 0
      BY <2>1, <2>2 DEF Start
    <2> QED  BY <1>4, <2>3
  <1> HIDE DEF v, p
  <1>6. WellFormedTag(p) => Running(p)
    BY <1>3 DEF WellFormedTag, Follows
  <1>7. CASE ~WellFormedTag(p)
    <2>1. ~ValidateParsed(v, p, FALSE).wellFormed
      BY <1>7 DEF ValidateParsed, Unknown
    <2>2. ASSUME Start(v).valid, IsGrammatical(v)
          PROVE  FALSE
      <3>1. Len(v) > 0
        BY <1>5, <2>2
      <3>2. Begins(v[1])
        BY <1>2, <2>2, <3>1, BeginsSo
      <3>3. Reads(v, p, Len(v))
        BY <1>3, <2>2, <3>1, <3>2
      <3> QED  BY <1>2, <1>3, <1>7, <2>2, <3>1, <3>3, WellFormedIs
    <2> QED  BY <1>1, <2>1, <2>2 DEF v
  <1>8. CASE WellFormedTag(p)
    <2>1. Running(p) /\ Start(v).valid /\ Len(v) > 0 /\ v[1] \in Subtag
      BY <1>3, <1>4, <1>5, <1>6, <1>8
    <2>2. IsGrammatical(v) <=> Begins(v[1])
      <3>1. IsGrammatical(v) => Begins(v[1])
        BY <1>2, <2>1, BeginsSo
      <3>2. ASSUME Begins(v[1])
            PROVE  IsGrammatical(v)
        <4>1. Reads(v, p, Len(v))
          BY <1>3, <2>1, <3>2
        <4> QED  BY <1>2, <1>3, <1>8, <2>1, <4>1, WellFormedIs
      <3> QED  BY <3>1, <3>2
    <2>3. /\ Sound(p) /\ Flagged(p)
          /\ Begins(v[1]) \/ IsScript(v[1])
          /\ Language \in p.map <=> IsLanguage(v[1])
          /\ PrivateUse \in p.map => (p.start[PrivateUse] = 0 <=> IsX(v[1]))
          /\ IsX(v[1]) => p.state = 6
      BY <1>3, <2>1 DEF Follows
    <2>4. /\ Form[v[1]].letters \in BOOLEAN /\ Form[v[1]].digits \in BOOLEAN
          /\ Form[v[1]].len \in Nat
          /\ Form[v[1]].len > 0 => Form[v[1]].letters \/ Form[v[1]].digits
          /\ Form[v[1]].len = 1 => ~(Form[v[1]].letters /\ Form[v[1]].digits)
          /\ (Form[v[1]].digitFirst => Form[v[1]].digits) /\ (Form[v[1]].x => Form[v[1]].letters)
      BY <2>1, FormOf, FormAssumption
    <2>5. CASE Form[v[1]].digits
      <3>1. Begins(v[1])
        BY <2>3, <2>5 DEF IsScript, Is
      <3>2. ValidateParsed(v, p, FALSE).wellFormed
        BY <1>8, <2>5 DEF ValidateParsed, Unknown
      <3> QED  BY <1>1, <2>1, <2>2, <3>1, <3>2 DEF v
    <2>6. CASE ~Form[v[1]].digits /\ v \in DOMAIN Table.pseudo
      <3>1. Form[v[1]].len \in 2 .. 3
        BY <2>6, TableAssumption
      <3>2. Begins(v[1])
        BY <2>4, <2>6, <3>1 DEF Begins, IsLanguage, Is
      <3>3. ValidateParsed(v, p, FALSE).wellFormed
        BY <1>8, <2>6 DEF ValidateParsed, PseudoLocale
      <3> QED  BY <1>1, <2>1, <2>2, <3>2, <3>3 DEF v
    <2>7. CASE ~Form[v[1]].digits /\ v \notin DOMAIN Table.pseudo
      <3>1. ValidateParsed(v, p, FALSE).wellFormed <=> Language \in p.map \/ (p.private /\ p.start[PrivateUse] = 0)
        BY <1>8, <2>7 DEF ValidateParsed, ValidatePlain, Filled
      <3>2. Begins(v[1]) <=> IsLanguage(v[1]) \/ IsX(v[1])
        BY <2>4, <2>7 DEF Begins, IsYear
      <3>3. IsX(v[1]) => p.private /\ PrivateUse \in p.map
        <4>1. p.state = 6 => p.length[PrivateUse] > 2
          BY <1>8 DEF WellFormedTag, PrivateUse
        <4>2. p.state = 6 => PrivateUse \in p.map
          BY <2>3 DEF Flagged
        <4>3. p.state = 6 => p.length[PrivateUse] = 1 \/ p.private
          BY <2>3 DEF Flagged
        <4>4. ~(1 > 2)
          OBVIOUS
        <4> QED  BY <2>3, <4>1, <4>2, <4>3, <4>4, Zenon
      <3>4. p.private => PrivateUse \in p.map
        BY <2>3 DEF Flagged
      <3> QED  BY <1>1, <2>1, <2>2, <2>3, <3>1, <3>2, <3>3, <3>4 DEF v
    <2> QED  BY <2>5, <2>6, <2>7
  <1> QED  BY <1>7, <1>8

\* The language is that of the tag.
Known == read => language = LanguageOf(tag)

\* Known is inductive.
LEMMA KnownNext ==
  ASSUME Known, [Next]_vars
  PROVE  Known'
  BY DEF Known, Next, vars, ReadSubtag, Construct, FindClosest, GetPackagingInfo

\* The values that are refused are those outside the grammar, or too long: that
\* the machine, which sees a subtag at a time and remembers a state and three
\* flags, takes no other decision, and CLanguage none after it.
THEOREM GrammarAccepted == Spec => []AcceptsTheGrammar
  <1>1. ASSUME Init
        PROVE  Known
    BY <1>1 DEF Init, Known
  <1>2. ASSUME TypeInv, Known
        PROVE  AcceptsTheGrammar
    <2>1. tag \in Seq(Subtag)
      BY <1>2, TagsAssumption DEF TypeInv
    <2> QED  BY <1>2, <2>1, LanguageAccepts DEF AcceptsTheGrammar, Constructed, Known
  <1> QED  BY TypeInvInit, TypeInvNext, KnownNext, <1>1, <1>2, PTL DEF Spec

-----------------------------------------------------------------------------
(***************************************************************************)
(* Which fields a tag has, whether the machine has read it to its end or    *)
(* has stopped at what a grandfathered tag may have.                       *)
(***************************************************************************)
\* A subtag begins after the one before,
LEMMA StartsRise ==
  ASSUME NEW t \in Seq(Subtag), NEW i \in 1 .. Len(t)
  PROVE  \A j \in 1 .. Len(t) : i < j => StartOf(t, i) < StartOf(t, j)
  <1>0. Len(t) \in Nat /\ i \in Nat /\ i > 0
    OBVIOUS
  <1> DEFINE S == {k \in Nat : i + k + 1 <= Len(t) => StartOf(t, i) < StartOf(t, i + k + 1)}
  <1>1. \A j \in 1 .. Len(t) : StartOf(t, j) \in Nat /\ StartOf(t, j) < StartOf(t, j + 1) /\ StartOf(t, j + 1) \in Nat
    <2> TAKE j \in 1 .. Len(t)
    <2>1. /\ StartOf(t, j) \in Nat /\ StartOf(t, j + 1) \in Nat
          /\ StartOf(t, j + 1) = StartOf(t, j) + Form[t[j]].len + 1 /\ Form[t[j]].len \in Nat
      BY Starts, SubtagsOf
    <2>2. \A a, b, c \in Nat : b = a + c + 1 => a < b
      OBVIOUS
    <2> QED  BY <2>1, <2>2
  <1>2. 0 \in S
    <2>1. i + 0 + 1 = i + 1
      BY <1>0
    <2> QED  BY <1>1, <2>1
  <1>3. ASSUME NEW k \in Nat, k \in S
        PROVE  k + 1 \in S
    <2> SUFFICES ASSUME i + (k + 1) + 1 <= Len(t)
                 PROVE  StartOf(t, i) < StartOf(t, i + (k + 1) + 1)
      OBVIOUS
    <2>1. i + k + 1 \in 1 .. Len(t) /\ i + (k + 1) + 1 = (i + k + 1) + 1
      BY <1>0
    <2>2. StartOf(t, i) < StartOf(t, i + k + 1)
      BY <1>3, <2>1
    <2>3. StartOf(t, i + k + 1) < StartOf(t, (i + k + 1) + 1) /\ StartOf(t, i) \in Nat /\ StartOf(t, i + k + 1) \in Nat
          /\ StartOf(t, (i + k + 1) + 1) \in Nat
      BY <1>1, <2>1
    <2>4. \A a, b, c \in Nat : a < b /\ b < c => a < c
      OBVIOUS
    <2>5. StartOf(t, i) < StartOf(t, (i + k + 1) + 1)
      BY <2>2, <2>3, <2>4
    <2> QED  BY <2>1, <2>5
  <1> HIDE DEF S
  <1>4. \A k \in Nat : k \in S
    BY <1>2, <1>3, Induction
  <1>5. ASSUME NEW j \in 1 .. Len(t), i < j
        PROVE  StartOf(t, i) < StartOf(t, j)
    <2>1. j - i - 1 \in Nat /\ i + (j - i - 1) + 1 = j /\ j <= Len(t)
      BY <1>0, <1>5
    <2> QED  BY <1>4, <2>1 DEF S
  <1> QED  BY <1>5

\* so that the place where one begins tells which it is.
LEMMA SubtagAtIs ==
  ASSUME NEW t \in Seq(Subtag), NEW i \in 1 .. Len(t)
  PROVE  SubtagAt(t, StartOf(t, i)) = t[i]
  <1>1. \A j \in DOMAIN t : StartOf(t, j) = StartOf(t, i) => j = i
    <2> SUFFICES ASSUME NEW j \in 1 .. Len(t), StartOf(t, j) = StartOf(t, i), j # i
                 PROVE  FALSE
      OBVIOUS
    <2>1. i < j \/ j < i
      OBVIOUS
    <2>2. i < j => StartOf(t, i) < StartOf(t, j)
      BY StartsRise
    <2>3. j < i => StartOf(t, j) < StartOf(t, i)
      BY StartsRise
    <2>4. StartOf(t, i) \in Nat
      BY Starts
    <2> QED  BY <2>1, <2>2, <2>3, <2>4
  <1>2. i \in DOMAIN t
    OBVIOUS
  <1> QED  BY <1>1, <1>2 DEF SubtagAt

\* The fields of a machine that has read i subtags of t and holds the tag for
\* valid: where the language, the extended language and the region begin.
Shape(t, p, i) ==
  /\ Start(t).valid /\ p.map \subseteq Fields \ {Script} /\ p.start \in [Fields -> Nat]
  /\ Language \in p.map => i > 0 /\ IsLanguage(t[1]) /\ p.start[Language] = 0
  /\ Extlang \in p.map => i > 1 /\ Language \in p.map /\ IsExtlang(t[2]) /\ p.start[Extlang] = StartOf(t, 2)
  /\ Region \in p.map => \E k \in 1 .. i : p.start[Region] = StartOf(t, k)

\* And what it may still read.
Ready(t, p, i) ==
  /\ Sound(p) /\ p.at = StartOf(t, i + 1)
  /\ p.state = 0 => i = 0 /\ p.map = {}
  /\ p.state = 1 => Language \in p.map /\ (i = 1 \/ p.extlang)

Shapes(t, p, i) ==
  /\ p.valid => Shape(t, p, i)
  /\ Running(p) => Ready(t, p, i)

\* So it is at the start,
LEMMA ShapesStart ==
  ASSUME NEW t \in Seq(Subtag)
  PROVE  Shapes(t, Start(t), 0)
  <1> DEFINE p == Start(t)
  <1>1. Follows(t, p, 0)
    BY FollowsStart
  <1>2. p.state = 0 /\ p.at = 0 /\ p.map = {} /\ p.valid = Start(t).valid /\ p.start \in [Fields -> Nat]
    BY DEF Start
  <1>3. StartOf(t, 0 + 1) = 0
    BY Starts
  <1> HIDE DEF p
  <1>4. Running(p) => Ready(t, p, 0)
    BY <1>1, <1>2, <1>3 DEF Follows, Ready
  <1>5. p.valid => Shape(t, p, 0)
    BY <1>2 DEF Shape
  <1> QED  BY <1>4, <1>5 DEF Shapes, p

\* after a subtag that is taken,
LEMMA ShapesTaken ==
  ASSUME NEW t \in Seq(Subtag), NEW i \in Nat, i < Len(t), NEW p, Running(p), Shape(t, p, i), Ready(t, p, i),
         NEW q \in ParserStates, NEW field \in Fields, NEW next \in 0 .. 6, q.at = p.at + Form[t[i + 1]].len + 1,
         Takes(p, t[i + 1], field, next), IsTaken(p, q, t[i + 1], field, next), Sound(q)
  PROVE  Shape(t, q, i + 1) /\ Ready(t, q, i + 1)
  <1> DEFINE s == t[i + 1]
  <1>0. /\ i + 1 \in 1 .. Len(t) /\ s \in Subtag /\ p \in ParserStates /\ p.map \subseteq Fields
        /\ i + 1 > 0 /\ 1 \in 1 .. Len(t)
    <2>1. i + 1 \in 1 .. Len(t) /\ 1 \in 1 .. Len(t) /\ i + 1 > 0
      OBVIOUS
    <2>2. s \in Subtag
      BY <2>1
    <2>3. p \in ParserStates
      BY DEF Ready, Sound
    <2>4. p.map \subseteq Fields
      BY <2>3 DEF ParserStates
    <2> QED  BY <2>1, <2>2, <2>3, <2>4
  <1>1. /\ \A f \in Fields : f # field => q.start[f] = p.start[f]
        /\ field \in p.map => q.start[field] = p.start[field]
        /\ field \notin p.map => q.start[field] = p.at
    BY <1>0, TakenIs
  <1>2. q.map = p.map \cup {field} /\ q.state = next /\ (q.extlang <=> p.extlang \/ field = Extlang)
    <2>1. q.extlang = (p.extlang \/ field = Extlang)
      BY DEF IsTaken
    <2> QED  BY <2>1 DEF IsTaken
  <1>3. /\ p.at = StartOf(t, i + 1)
        /\ p.state = 0 => i = 0 /\ p.map = {} /\ p.at = 0
        /\ p.state = 1 => Language \in p.map /\ (i = 1 \/ p.extlang)
    BY DEF Ready, Sound
  <1>4. q.at = StartOf(t, (i + 1) + 1)
    BY <1>0, <1>3, Starts
  <1> HIDE DEF s
  <1>5. /\ field = Language => p.state = 0 /\ IsLanguage(s) /\ next = 1
        /\ field = Extlang => p.state = 1 /\ IsExtlang(s) /\ ~p.extlang /\ next = 1
        /\ field # Script /\ next # 0
        /\ next = 1 => field = Language \/ field = Extlang
    BY DEF s, Takes, Language, Extlang, Region, Variant, Extension, PrivateUse, Script
  <1>6. Language # Extlang /\ Language # Region /\ Extlang # Region /\ {Language, Extlang, Region} \subseteq Fields
    BY DEF Language, Extlang, Region, Fields
  <1>7. Language \in q.map => i + 1 > 0 /\ IsLanguage(t[1]) /\ q.start[Language] = 0
    <2>1. CASE field = Language
      BY <1>0, <1>1, <1>3, <1>5, <2>1 DEF s
    <2>2. CASE field # Language
      BY <1>0, <1>1, <1>2, <1>6, <2>2 DEF Shape
    <2> QED  BY <2>1, <2>2
  <1>8. Extlang \in q.map => i + 1 > 1 /\ Language \in q.map /\ IsExtlang(t[2]) /\ q.start[Extlang] = StartOf(t, 2)
    <2>1. CASE field = Extlang /\ Extlang \notin p.map
      <3>1. i = 1 /\ Language \in p.map
        BY <1>3, <1>5, <2>1
      <3>2. i + 1 = 2
        BY <3>1
      <3> QED  BY <1>1, <1>2, <1>3, <1>5, <2>1, <3>1, <3>2 DEF s
    <2>2. CASE Extlang \in p.map
      <3>1. i > 1 /\ Language \in p.map /\ IsExtlang(t[2]) /\ p.start[Extlang] = StartOf(t, 2)
        BY <2>2 DEF Shape
      <3>2. q.start[Extlang] = p.start[Extlang]
        BY <1>1, <1>6, <2>2
      <3> QED  BY <1>2, <3>1, <3>2
    <2> QED  BY <1>2, <2>1, <2>2
  <1>9. Region \in q.map => \E k \in 1 .. i + 1 : q.start[Region] = StartOf(t, k)
    <2>1. CASE Region \in p.map
      <3>1. PICK k \in 1 .. i : p.start[Region] = StartOf(t, k)
        BY <2>1 DEF Shape
      <3>2. q.start[Region] = p.start[Region] /\ k \in 1 .. i + 1
        BY <1>1, <1>6, <2>1
      <3> QED  BY <3>1, <3>2
    <2>2. CASE Region \notin p.map /\ field = Region
      <3>1. q.start[Region] = StartOf(t, i + 1) /\ i + 1 \in 1 .. i + 1
        BY <1>1, <1>3, <2>2
      <3> QED  BY <3>1
    <2> QED  BY <1>2, <2>1, <2>2
  <1>10. q.map \subseteq Fields \ {Script}
    BY <1>2, <1>5 DEF Shape
  <1>a. Start(t).valid /\ q.start \in [Fields -> Nat]
    BY DEF Shape, ParserStates
  <1>11. Shape(t, q, i + 1)
    BY <1>7, <1>8, <1>9, <1>10, <1>a DEF Shape
  <1>12. q.state = 1 => Language \in q.map /\ (i + 1 = 1 \/ q.extlang)
    BY <1>2, <1>3, <1>5
  <1>13. Ready(t, q, i + 1)
    BY <1>2, <1>4, <1>5, <1>12 DEF Ready
  <1> QED  BY <1>11, <1>13

\* after any,
LEMMA ShapesStep ==
  ASSUME NEW t \in Seq(Subtag), NEW g \in BOOLEAN, NEW i \in Nat, i < Len(t), NEW p, Shapes(t, p, i)
  PROVE  Shapes(t, After(t, g, p, i + 1), i + 1)
  <1> DEFINE q == After(t, g, p, i + 1)
             s == t[i + 1]
  <1>0. i + 1 \in 1 .. Len(t) /\ s \in Subtag
    OBVIOUS
  <1>a. ASSUME NEW r, Shape(t, p, i), r.map = p.map, r.start = p.start
        PROVE  Shape(t, r, i + 1)
    <2>1. i > 0 => i + 1 > 0
      OBVIOUS
    <2>2. i > 1 => i + 1 > 1
      OBVIOUS
    <2>3. \A k \in 1 .. i : k \in 1 .. i + 1
      OBVIOUS
    <2>4. /\ Start(t).valid /\ r.map \subseteq Fields \ {Script} /\ r.start \in [Fields -> Nat]
          /\ Language \in r.map => i > 0 /\ IsLanguage(t[1]) /\ r.start[Language] = 0
          /\ Extlang \in r.map => i > 1 /\ Language \in r.map /\ IsExtlang(t[2]) /\ r.start[Extlang] = StartOf(t, 2)
          /\ Region \in r.map => \E k \in 1 .. i : r.start[Region] = StartOf(t, k)
      BY <1>a, Zenon DEF Shape
    <2> QED  BY <2>1, <2>2, <2>3, <2>4 DEF Shape
  <1>1. CASE ~Running(p)
    <2>1. q = p
      BY <1>1 DEF After
    <2> HIDE DEF q
    <2>2. q.valid => Shape(t, q, i + 1)
      BY <1>a, <2>1 DEF Shapes
    <2>3. Shapes(t, q, i + 1)
      BY <1>1, <2>1, <2>2 DEF Shapes
    <2> QED  BY <2>3 DEF q
  <1>2. CASE Running(p)
    <2>1. q = Step(p, s, g)
      BY <1>2 DEF After
    <2>2. Shape(t, p, i) /\ Ready(t, p, i)
      BY <1>2 DEF Shapes, Running
    <2>3. Sound(p)
      BY <2>2 DEF Ready
    <2> HIDE DEF q, s
    <2>4. /\ q \in ParserStates
          /\ q.at = p.at + Form[s].len + 1
          /\ q.valid /\ q.done => q.map = p.map /\ q.start = p.start
          /\ Running(q) => \E field \in Fields, next \in 0 .. 6 : Takes(p, s, field, next)
          /\ \A field \in Fields, next \in 0 .. 6 : Takes(p, s, field, next) => IsTaken(p, q, s, field, next)
      BY <1>0, <1>2, <2>1, <2>3, StepDoes
    <2>5. CASE Running(q)
      <3>1. PICK field \in Fields, next \in 0 .. 6 : Takes(p, s, field, next)
        BY <2>4, <2>5
      <3>2. Sound(q)
        BY <1>0, <1>2, <2>1, <2>3, <2>5, StaysSound
      <3>3. IsTaken(p, q, s, field, next)
        BY <2>4, <3>1
      <3>4. Shape(t, q, i + 1) /\ Ready(t, q, i + 1)
        BY <1>2, <2>2, <2>4, <3>1, <3>2, <3>3, ShapesTaken DEF s
      <3> QED  BY <3>4 DEF Shapes, q
    <2>6. CASE ~Running(q)
      <3>1. q.valid => q.done
        BY <2>6 DEF Running
      <3>2. q.valid => Shape(t, q, i + 1)
        BY <1>a, <2>2, <2>4, <3>1
      <3>3. Shapes(t, q, i + 1)
        BY <2>6, <3>2 DEF Shapes
      <3> QED  BY <3>3 DEF q
    <2> QED  BY <2>5, <2>6
  <1> QED  BY <1>1, <1>2

\* and so at the end of the run.
LEMMA ShapeIs ==
  ASSUME NEW t \in Seq(Subtag), NEW g \in BOOLEAN, ParseTag(t, g).valid
  PROVE  Shape(t, ParseTag(t, g), Len(t))
  <1>1. PICK p : /\ p[0] = Start(t) /\ ParseTag(t, g) = p[Len(t)]
                 /\ \A i \in 1 .. Len(t) : p[i] = After(t, g, p[i - 1], i)
    BY ParseIs
  <1>2. Len(t) \in Nat
    OBVIOUS
  <1>3. \A j \in Nat : j < Len(t) => p[j + 1] = After(t, g, p[j], j + 1)
    <2> SUFFICES ASSUME NEW j \in Nat, j < Len(t)
                 PROVE  p[j + 1] = After(t, g, p[j], j + 1)
      OBVIOUS
    <2>1. j + 1 \in 1 .. Len(t) /\ (j + 1) - 1 = j
      BY <1>2
    <2> QED  BY <1>1, <2>1, Zenon
  <1> DEFINE S == {j \in Nat : j <= Len(t) => Shapes(t, p[j], j)}
  <1>4. 0 \in S
    BY <1>1, ShapesStart
  <1>5. ASSUME NEW j \in Nat, j \in S
        PROVE  j + 1 \in S
    <2>1. CASE j < Len(t)
      <3>1. Shapes(t, p[j], j)
        BY <1>5, <2>1
      <3>2. Shapes(t, After(t, g, p[j], j + 1), j + 1)
        BY <2>1, <3>1, ShapesStep
      <3>3. p[j + 1] = After(t, g, p[j], j + 1)
        BY <1>3, <2>1, Zenon
      <3>4. Shapes(t, p[j + 1], j + 1)
        BY <3>2, <3>3
      <3> QED  BY <3>4
    <2>2. CASE ~(j < Len(t))
      BY <1>2, <2>2
    <2> QED  BY <2>1, <2>2
  <1> HIDE DEF S
  <1>6. Len(t) \in S
    BY <1>2, <1>4, <1>5, Induction
  <1>7. Shapes(t, p[Len(t)], Len(t))
    BY <1>2, <1>6 DEF S
  <1> QED  BY <1>1, <1>7 DEF Shapes

-----------------------------------------------------------------------------
(***************************************************************************)
(* What the tables make of the fields.                                     *)
(***************************************************************************)
\* The script of a language that is written in one without saying so.
ScriptOf(lang) ==
  IF lang \in DOMAIN Table.suppress THEN Table.suppress[lang]
  ELSE IF lang \in DOMAIN Table.written THEN Table.written[lang]
  ELSE None

FirstOf(t, p) == IF Language \in p.map THEN FindLanguage(t[1]) ELSE None
LangOf(t, p) == IF ExtlangMatches(t, p, FirstOf(t, p)) THEN SubtagAt(t, p.start[Extlang]) ELSE FirstOf(t, p)
MapOf(t, p) == IF ExtlangMatches(t, p, FirstOf(t, p)) THEN p.map \ {Extlang} ELSE p.map
RegionOf(t, p) == IF Region \in p.map THEN FindRegion(t, p) ELSE None
MovedStart(t, p) == IF ExtlangMatches(t, p, FirstOf(t, p)) THEN [p.start EXCEPT ![Language] = p.start[Extlang]] ELSE p.start
KnownTo(t, p) == FirstOf(t, p) # None /\ (Region \in p.map => FindRegion(t, p) # None)

\* Of a language without script only the script is filled in.
LEMMA FoundIs ==
  ASSUME NEW lang, NEW region, NEW variant
  PROVE  LET c == [lang |-> lang, script |-> None, region |-> region, variant |-> variant]
         IN  /\ SuppressedScript(c).to =
                  [lang |-> lang, script |-> IF lang = None THEN None ELSE ScriptOf(lang), region |-> region, variant |-> variant]
             /\ SuppressedScript(c).suppressed <=> lang # None /\ lang \in DOMAIN Table.suppress
  <1> DEFINE c == [lang |-> lang, script |-> None, region |-> region, variant |-> variant]
             to == [lang |-> lang, script |-> ScriptOf(lang), region |-> region, variant |-> variant]
  <1>0. c.lang = lang /\ c.script = None /\ c.region = region
    OBVIOUS
  <1>1. ~InCompactTable(c)
    <2>1. \A e \in Table.compact : e[2] \in Table.scripts
      BY NamesAssumption
    <2>2. None \notin Table.scripts
      BY TableAssumption
    <2>3. ASSUME NEW e \in Table.compact, <<c.lang, c.script, c.region>> = e
          PROVE  FALSE
      <3>1. e[2] = None
        BY <1>0, <2>3
      <3> QED  BY <2>1, <2>2, <3>1
    <2> QED  BY <2>3 DEF InCompactTable
  <1>2. [c EXCEPT !.script = ScriptOf(lang)] = to
    OBVIOUS
  <1>3. SuppressedScript(c) =
          IF lang = None THEN [to |-> c, suppressed |-> FALSE]
          ELSE [to |-> to, suppressed |-> lang \in DOMAIN Table.suppress]
    <2>1. SuppressedScript(c) =
            IF c.lang = None THEN [to |-> c, suppressed |-> FALSE]
            ELSE [to |-> IF c.script = None THEN [c EXCEPT !.script = ScriptOf(lang)] ELSE c,
                  suppressed |-> c.lang \in DOMAIN Table.suppress /\ c.script \in {None, ScriptOf(lang)}]
      BY <1>1 DEF SuppressedScript, ScriptOf
    <2> HIDE DEF to, c
    <2> QED  BY <1>0, <1>2, <2>1
  <1> DEFINE wanted == [lang |-> lang, script |-> IF lang = None THEN None ELSE ScriptOf(lang), region |-> region, variant |-> variant]
  <1>4. lang = None => wanted = c
    OBVIOUS
  <1>5. lang # None => wanted = to
    OBVIOUS
  <1> HIDE DEF c, to, wanted
  <1>6. SuppressedScript(c).to = wanted
    BY <1>3, <1>4, <1>5
  <1>7. SuppressedScript(c).suppressed <=> lang # None /\ lang \in DOMAIN Table.suppress
    <2> DEFINE goes == lang \in DOMAIN Table.suppress
    <2>1. CASE lang = None
      <3>1. SuppressedScript(c).suppressed = FALSE
        BY <1>3, <2>1
      <3> QED  BY <2>1, <3>1
    <2>2. CASE lang # None
      <3>1. SuppressedScript(c).suppressed = goes
        BY <1>3, <2>2
      <3> HIDE DEF goes
      <3>2. SuppressedScript(c).suppressed <=> goes
        BY <3>1
      <3> QED  BY <2>2, <3>2 DEF goes
    <2> QED  BY <2>1, <2>2
  <1> QED  BY <1>6, <1>7 DEF c, wanted

\* A tag that is not a pseudo-locale.
LEMMA PlainIs ==
  ASSUME NEW t, NEW p, NEW g, p.map \subseteq Fields \ {Script}
  PROVE  LET l == ValidatePlain(t, p, g)
             matched == ExtlangMatches(t, p, FirstOf(t, p))
         IN  /\ l.compact.lang = LangOf(t, p)
             /\ l.compact.script = IF KnownTo(t, p) /\ LangOf(t, p) # None THEN ScriptOf(LangOf(t, p)) ELSE None
             /\ l.compact.region = RegionOf(t, p)
             /\ l.compact.variant = FindVariant(t, p, LangOf(t, p))
             /\ l.valid => l.compact.script # None
             /\ l.map = IF KnownTo(t, p) /\ l.compact.script # None THEN MapOf(t, p) \cup {Script} ELSE MapOf(t, p)
             /\ l.start = MovedStart(t, p)
             /\ l.extlang = IF Extlang \in MapOf(t, p) THEN SubtagAt(t, p.start[Extlang]) ELSE None
  <1> DEFINE first == FirstOf(t, p)
             matched == ExtlangMatches(t, p, first)
             lang == LangOf(t, p)
             map == MapOf(t, p)
             region == IF Region \in map THEN FindRegion(t, p) ELSE None
             named == [lang |-> lang, script |-> None, region |-> region, variant |-> FindVariant(t, p, lang)]
             found == SuppressedScript(named)
             known == first # None /\ (Region \in map => region # None)
             l == ValidatePlain(t, p, g)
  <1>1. Region \in map <=> Region \in p.map
    BY DEF MapOf, Region, Extlang
  <1>2. region = RegionOf(t, p) /\ (known <=> KnownTo(t, p))
    BY <1>1 DEF RegionOf, KnownTo
  <1>3. l = IF known THEN Filled(t, p, g, matched, map, TRUE, found.to, found.suppressed)
            ELSE Filled(t, p, g, matched, map, FALSE, named, FALSE)
    BY DEF ValidatePlain, FirstOf, LangOf, MapOf
  <1>4. /\ found.to.lang = lang /\ found.to.script = (IF lang = None THEN None ELSE ScriptOf(lang))
        /\ found.to.region = region /\ found.to.variant = FindVariant(t, p, lang)
    <2> HIDE DEF lang, region, found
    <2>1. found.to = [lang |-> lang, script |-> IF lang = None THEN None ELSE ScriptOf(lang),
                      region |-> region, variant |-> FindVariant(t, p, lang)]
      BY FoundIs DEF found
    <2> QED  BY <2>1
  <1>5. named.lang = lang /\ named.script = None /\ named.region = region /\ named.variant = FindVariant(t, p, lang)
    OBVIOUS
  <1> HIDE DEF first, lang, map, region, named, found, known
  <1>6. CASE known
    <2>1. l = Filled(t, p, g, matched, map, TRUE, found.to, found.suppressed)
      BY <1>3, <1>6
    <2>2. /\ l.compact = found.to /\ (l.valid => found.to.script # None)
          /\ l.map = IF found.to.script # None THEN map \cup {Script} ELSE map
          /\ l.start = (IF matched THEN [p.start EXCEPT ![Language] = p.start[Extlang]] ELSE p.start)
          /\ l.extlang = (IF Extlang \in map THEN SubtagAt(t, p.start[Extlang]) ELSE None)
      <3> HIDE DEF l
      <3> QED  BY <2>1 DEF Filled
    <2> HIDE DEF l
    <2> QED  BY <1>2, <1>4, <1>6, <2>2 DEF first, map, lang, l, MovedStart
  <1>7. CASE ~known
    <2>1. l = Filled(t, p, g, matched, map, FALSE, named, FALSE)
      BY <1>3, <1>7
    <2>2. /\ l.compact = named /\ (l.valid => named.script # None)
          /\ l.map = map
          /\ l.start = (IF matched THEN [p.start EXCEPT ![Language] = p.start[Extlang]] ELSE p.start)
          /\ l.extlang = (IF Extlang \in map THEN SubtagAt(t, p.start[Extlang]) ELSE None)
      <3> HIDE DEF l
      <3> QED  BY <2>1 DEF Filled
    <2> HIDE DEF l
    <2> QED  BY <1>2, <1>5, <1>7, <2>2 DEF first, map, lang, l, MovedStart
  <1> QED  BY <1>6, <1>7

-----------------------------------------------------------------------------
(***************************************************************************)
(* The neutral form of a language.                                         *)
(***************************************************************************)
Lead(m) == Cardinality({Language, Extlang} \cap m)

\* How many subtags come before a script.
LEMMA LeadIs ==
  ASSUME NEW m
  PROVE  Lead(m) = IF Language \in m /\ Extlang \in m THEN 2 ELSE IF Language \in m \/ Extlang \in m THEN 1 ELSE 0
  <1> DEFINE both == {Language, Extlang} \cap m
  <1>0. Language # Extlang
    BY DEF Language, Extlang
  <1>1. CASE Language \in m /\ Extlang \in m
    <2>1. both = {Language} \cup {Extlang}
      BY <1>1
    <2>2. IsFiniteSet({Language}) /\ Cardinality({Language}) = 1
      BY FS_Singleton
    <2>3. Cardinality({Language} \cup {Extlang}) = 2
      BY <1>0, <2>2, FS_AddElement
    <2> QED  BY <1>1, <2>1, <2>3 DEF Lead
  <1>2. CASE Language \in m /\ Extlang \notin m
    <2>1. both = {Language}
      BY <1>2
    <2>2. Cardinality({Language}) = 1
      BY FS_Singleton
    <2> QED  BY <1>2, <2>1, <2>2 DEF Lead
  <1>3. CASE Language \notin m /\ Extlang \in m
    <2>1. both = {Extlang}
      BY <1>3
    <2>2. Cardinality({Extlang}) = 1
      BY FS_Singleton
    <2> QED  BY <1>3, <2>1, <2>2 DEF Lead
  <1>4. CASE Language \notin m /\ Extlang \notin m
    <2>1. both = {}
      BY <1>4
    <2>2. Cardinality({}) = 0
      BY FS_EmptySet
    <2> QED  BY <1>4, <2>1, <2>2 DEF Lead
  <1> QED  BY <1>1, <1>2, <1>3, <1>4

\* The beginning of a sequence that begins with x.
LEMMA BeginningIs ==
  ASSUME NEW S, NEW x \in Seq(S), NEW y \in Seq(S)
  PROVE  SubSeq(x \o y, 1, Len(x)) = x
  <1>1. x \o y \in Seq(S) /\ Len(x \o y) = Len(x) + Len(y) /\ Len(x) \in Nat /\ Len(y) \in Nat
    BY ConcatProperties
  <1>2. \A i \in 1 .. Len(x) : (x \o y)[i] = x[i] /\ x[i] \in S
    BY <1>1, ConcatProperties
  <1>3. /\ SubSeq(x \o y, 1, Len(x)) \in Seq(S) /\ Len(SubSeq(x \o y, 1, Len(x))) = Len(x)
        /\ \A i \in 1 .. Len(x) : SubSeq(x \o y, 1, Len(x))[i] = x[i]
    <2>1. \A i \in 1 .. Len(x) : (x \o y)[i] \in S
      BY <1>2
    <2>2. /\ SubSeq(x \o y, 1, Len(x)) \in Seq(S)
          /\ Len(SubSeq(x \o y, 1, Len(x))) = (IF 1 <= Len(x) THEN Len(x) - 1 + 1 ELSE 0)
          /\ \A i \in 1 .. Len(x) - 1 + 1 : SubSeq(x \o y, 1, Len(x))[i] = (x \o y)[1 + i - 1]
      <3>1. Len(x) \in Int /\ 1 \in Int
        BY <1>1
      <3> QED  BY <2>1, <3>1, SubSeqProperties
    <2>3. Len(x) - 1 + 1 = Len(x) /\ \A i \in 1 .. Len(x) : 1 + i - 1 = i
      BY <1>1
    <2>4. Len(SubSeq(x \o y, 1, Len(x))) = Len(x)
      BY <1>1, <2>2
    <2>5. \A i \in 1 .. Len(x) : SubSeq(x \o y, 1, Len(x))[i] = (x \o y)[i]
      BY <2>2, <2>3
    <2> QED  BY <1>2, <2>2, <2>4, <2>5
  <1> QED  BY <1>3, SeqEqual

Shown(l) == ScriptPart(l.compact, l.map, l.suppressed)
BodyOf(l) == IF Language \in l.map /\ l.start[Language] # 0 THEN Tail(l.text) ELSE l.text

\* What is written before the region, from a text,
LEMMA NeutralOfText ==
  ASSUME NEW t, NEW k, NEW l, l = ValidateTagAndInitialize(t, k), l.text # <<>>,
         BodyOf(l) \in Seq(Subtag), Lead(l.map) <= Len(BodyOf(l)), Shown(l) \in Seq(Subtag)
  PROVE  Neutral(l) = SubSeq(BodyOf(l), 1, Lead(l.map)) \o Shown(l)
  <1> DEFINE m == [l EXCEPT !.whole = FALSE]
             body == BodyOf(l)
             lead == Lead(l.map)
             x == SubSeq(body, 1, lead)
             y == SubSeq(body, lead + 1, Len(body))
  <1>1. /\ m.whole = FALSE /\ m.text = l.text /\ m.map = l.map /\ m.start = l.start
        /\ m.compact = l.compact /\ m.suppressed = l.suppressed
    BY DEF ValidateTagAndInitialize
  <1> HIDE DEF m
  <1>2. FromText(m) = x \o Shown(l) \o y
    BY <1>1 DEF FromText, BodyOf, Lead, Shown
  <1>3. lead \in Nat /\ lead <= Len(body) /\ body \in Seq(Subtag) /\ Len(body) \in Nat
    BY LeadIs
  <1> HIDE DEF body, lead
  <1>4. x \in Seq(Subtag) /\ Len(x) = lead
    <2>1. \A i \in 1 .. lead : body[i] \in Subtag
      BY <1>3
    <2>2. x \in Seq(Subtag) /\ Len(x) = (IF 1 <= lead THEN lead - 1 + 1 ELSE 0)
      BY <1>3, <2>1, SubSeqProperties
    <2> QED  BY <1>3, <2>2
  <1>5. y \in Seq(Subtag)
    <2>1. \A i \in lead + 1 .. Len(body) : body[i] \in Subtag
      BY <1>3
    <2> QED  BY <1>3, <2>1, SubSeqProperties
  <1> HIDE DEF x, y
  <1>6. x \o Shown(l) \in Seq(Subtag) /\ Len(x \o Shown(l)) = lead + Len(Shown(l))
    <2>1. Shown(l) \in Seq(Subtag)
      OBVIOUS
    <2> HIDE DEF lead
    <2>2. x \o Shown(l) \in Seq(Subtag)
      BY <1>4, <2>1, ConcatProperties
    <2>3. Len(x \o Shown(l)) = Len(x) + Len(Shown(l))
      BY <1>4, <2>1, ConcatProperties
    <2> QED  BY <1>4, <2>2, <2>3
  <1>7. SubSeq(x \o Shown(l) \o y, 1, Len(x \o Shown(l))) = x \o Shown(l)
    BY <1>5, <1>6, BeginningIs
  <1>8. Neutral(l) = SubSeq(FromText(m), 1, lead + Len(Shown(l)))
    BY DEF Neutral, Shown, m, lead, Lead
  <1> QED  BY <1>2, <1>6, <1>7, <1>8 DEF x, body, lead

\* and from the tables.
LEMMA NeutralOfTables ==
  ASSUME NEW l, l.text = <<>>, Part(l.compact.lang) \o Part(l.extlang) \in Seq(Subtag),
         Len(Part(l.compact.lang) \o Part(l.extlang)) = Lead(l.map),
         Shown(l) \in Seq(Subtag), Part(l.compact.region) \in Seq(Subtag), l.compact.variant = None
  PROVE  Neutral(l) = Part(l.compact.lang) \o Part(l.extlang) \o Shown(l)
  <1> DEFINE x == Part(l.compact.lang) \o Part(l.extlang)
             r == Part(l.compact.region)
             v == Part(l.compact.variant)
  <1>0. v = <<>>
    BY DEF Part
  <1>1. Neutral(l) = SubSeq(x \o Shown(l) \o r \o v, 1, Lead(l.map) + Len(Shown(l)))
    BY DEF Neutral, FromTables, Shown, Lead
  <1>2. x \in Seq(Subtag) /\ Shown(l) \in Seq(Subtag) /\ r \in Seq(Subtag) /\ Len(x) = Lead(l.map)
    OBVIOUS
  <1> HIDE DEF x, r, v
  <1>3. x \o Shown(l) \in Seq(Subtag)
    BY <1>2, ConcatProperties
  <1>4. Len(x \o Shown(l)) = Len(x) + Len(Shown(l))
    BY <1>2, ConcatProperties
  <1>5. x \o Shown(l) \o r \in Seq(Subtag)
    BY <1>2, <1>3, ConcatProperties
  <1>6. x \o Shown(l) \o r \o v = x \o Shown(l) \o r
    BY <1>0, <1>5, ConcatEmptySeq
  <1>7. SubSeq(x \o Shown(l) \o r, 1, Len(x \o Shown(l))) = x \o Shown(l)
    BY <1>2, <1>3, BeginningIs
  <1> QED  BY <1>1, <1>2, <1>4, <1>6, <1>7 DEF x

\* A language is found under the name it is found by.
LEMMA FindLanguageIs ==
  ASSUME NEW s
  PROVE  /\ FindLanguage(s) \in Table.languages \cup {None}
         /\ FindLanguage(s) # None => FindLanguage(FindLanguage(s)) = FindLanguage(s)
         /\ s \in DOMAIN Table.extlangs => FindLanguage(s) = s
  <1>1. \A n \in DOMAIN Table.renamed : Table.renamed[n] \in Table.languages /\ Table.renamed[n] \notin DOMAIN Table.renamed
    BY TableAssumption, NamesAssumption
  <1>2. \A n \in DOMAIN Table.extlangs : n \in Table.languages \ DOMAIN Table.renamed
    BY NamesAssumption
  <1> QED  BY <1>1, <1>2 DEF FindLanguage, Lookup

\* What the script of a language may be.
LEMMA ScriptOfIs ==
  ASSUME NEW lang
  PROVE  ScriptOf(lang) \in Table.scripts \cup {None}
  BY TableAssumption DEF ScriptOf

\* The fields of a tag, by its subtags.
LEMMA ShapedIs ==
  ASSUME NEW v \in Seq(Subtag), NEW p, Shape(v, p, Len(v))
  PROVE  /\ p.map \subseteq Fields \ {Script} /\ p.start \in [Fields -> Nat]
         /\ Language \in p.map => Len(v) > 0 /\ IsLanguage(v[1]) /\ p.start[Language] = 0
         /\ Extlang \in p.map =>
              /\ Len(v) > 1 /\ Language \in p.map /\ IsExtlang(v[2]) /\ v[2] \in Subtag
              /\ SubtagAt(v, p.start[Extlang]) = v[2] /\ p.start[Extlang] > 0
         /\ ExtlangMatches(v, p, FirstOf(v, p)) <=>
              Extlang \in p.map /\ v[2] \in DOMAIN Table.extlangs /\ Table.extlangs[v[2]] = FindLanguage(v[1])
  <1>1. /\ p.map \subseteq Fields \ {Script} /\ p.start \in [Fields -> Nat]
        /\ Language \in p.map => Len(v) > 0 /\ IsLanguage(v[1]) /\ p.start[Language] = 0
        /\ Extlang \in p.map => Len(v) > 1 /\ Language \in p.map /\ IsExtlang(v[2]) /\ p.start[Extlang] = StartOf(v, 2)
    BY DEF Shape
  <1>2. ASSUME Extlang \in p.map
        PROVE  SubtagAt(v, p.start[Extlang]) = v[2] /\ p.start[Extlang] > 0 /\ v[2] \in Subtag
    <2>1. 2 \in 1 .. Len(v) /\ 1 \in 1 .. Len(v) /\ 1 < 2
      BY <1>1, <1>2
    <2>2. SubtagAt(v, StartOf(v, 2)) = v[2]
      BY <2>1, SubtagAtIs
    <2>3. StartOf(v, 1) < StartOf(v, 2) /\ StartOf(v, 1) = 0
      BY <2>1, StartsRise, Starts
    <2> QED  BY <1>1, <1>2, <2>1, <2>2, <2>3
  <1>3. Extlang \in p.map => FirstOf(v, p) = FindLanguage(v[1])
    BY <1>1 DEF FirstOf
  <1> QED  BY <1>1, <1>2, <1>3 DEF ExtlangMatches

\* A tag of a language alone has no other field.
LEMMA SingleIs ==
  ASSUME NEW v \in Seq(Subtag), NEW g \in BOOLEAN
  PROVE  Len(v) = 1 /\ IsLanguage(v[1]) /\ Start(v).valid =>
           ParseTag(v, g).map = {Language} /\ ~ParseTag(v, g).private
  <1>1. PICK p : /\ p[0] = Start(v) /\ ParseTag(v, g) = p[Len(v)]
                 /\ \A i \in 1 .. Len(v) : p[i] = After(v, g, p[i - 1], i)
    BY ParseIs
  <1> SUFFICES ASSUME Len(v) = 1, IsLanguage(v[1]), Start(v).valid
               PROVE  ParseTag(v, g).map = {Language} /\ ~ParseTag(v, g).private
    OBVIOUS
  <1>2. 1 \in 1 .. Len(v) /\ v[1] \in Subtag /\ 1 - 1 = 0
    OBVIOUS
  <1>3. p[1] = After(v, g, Start(v), 1)
    <2>1. p[1] = After(v, g, p[1 - 1], 1)
      BY <1>1, <1>2, Zenon
    <2> QED  BY <1>1, <1>2, <2>1
  <1> DEFINE s == Start(v)
             q == Step(s, v[1], g)
  <1>4. s.state = 0 /\ s.map = {} /\ ~s.private /\ s.done = FALSE /\ s.valid
    BY DEF Start
  <1>5. Running(s)
    BY <1>4 DEF Running
  <1>6. Sound(s)
    BY <1>5, FollowsStart DEF Follows
  <1>7. p[1] = q
    BY <1>3, <1>5 DEF After
  <1> HIDE DEF s
  <1>8. Takes(s, v[1], Language, 1) /\ Language \in Fields
    BY <1>4 DEF Takes, Fields, Language
  <1>9. IsTaken(s, q, v[1], Language, 1)
    <2>1. \A field \in Fields, next \in 0 .. 6 : Takes(s, v[1], field, next) => IsTaken(s, q, v[1], field, next)
      BY <1>2, <1>5, <1>6, StepDoes
    <2>2. 1 \in 0 .. 6
      OBVIOUS
    <2> QED  BY <1>8, <2>1, <2>2, Zenon
  <1> HIDE DEF q
  <1>10. q.map = s.map \cup {Language}
    BY <1>9 DEF IsTaken
  <1>11. ~q.private
    <2>1. q.private <=> s.private \/ s.state = 6
      BY <1>9 DEF IsTaken
    <2>2. ~(s.state = 6)
      BY <1>4
    <2> QED  BY <1>4, <2>1, <2>2, Zenon
  <1>12. q.map = {Language}
    BY <1>4, <1>10
  <1> QED  BY <1>1, <1>7, <1>11, <1>12

\* The tag n names the language of l, if any, and no extended language of it.
Neutralises(n, l) ==
  /\ n \in Seq(Subtag)
  /\ n # <<>> =>
       /\ FindLanguage(n[1]) # None =>
            FindLanguage(n[1]) = l.compact.lang /\ (l.valid => l.compact.script = ScriptOf(l.compact.lang))
       /\ Len(n) > 1 => FindLanguage(n[1]) # None \/ IsExtlang(n[2])
       /\ Len(n) > 1 /\ IsExtlang(n[2]) /\ n[2] \in DOMAIN Table.extlangs => Table.extlangs[n[2]] # FindLanguage(n[1])

\* A script behind it changes nothing.
LEMMA WithScript ==
  ASSUME NEW l, NEW x \in Seq(Subtag), NEW y \in Seq(Subtag), Len(x) <= 2, Neutralises(x, l),
         y # <<>> => /\ y[1] \in Table.scripts
                     /\ x # <<>> /\ FindLanguage(x[1]) # None
  PROVE  Neutralises(x \o y, l)
  <1>1. CASE y = <<>>
    <2>1. x \o y = x
      BY <1>1, ConcatEmptySeq
    <2> QED  BY <2>1
  <1>2. CASE y # <<>>
    <2> DEFINE n == x \o y
    <2>a. x # <<>>
      BY <1>2
    <2>b. Len(x) \in Nat /\ Len(y) \in Nat /\ Len(x) # 0 /\ Len(y) # 0
      BY <1>2, <2>a, EmptySeq
    <2>c. Len(x) \in 1 .. 2 /\ Len(y) > 0
      <3>1. Len(x) <= 2
        OBVIOUS
      <3>2. \A k \in Nat : k # 0 => k > 0 /\ (k <= 2 => k \in 1 .. 2)
        OBVIOUS
      <3>3. Len(x) \in 1 .. 2
        BY <2>b, <3>1, <3>2
      <3>4. Len(y) > 0
        BY <2>b, <3>2
      <3> QED  BY <3>3, <3>4
    <2>d. y[1] \in Table.scripts
      BY <1>2
    <2>1. Len(x) \in 1 .. 2 /\ Len(y) \in Nat /\ Len(y) > 0 /\ y[1] \in Table.scripts
      BY <2>b, <2>c, <2>d
    <2>2. n \in Seq(Subtag) /\ Len(n) = Len(x) + Len(y)
      BY ConcatProperties
    <2>3. \A i \in 1 .. Len(x) + Len(y) : n[i] = IF i <= Len(x) THEN x[i] ELSE y[i - Len(x)]
      BY ConcatProperties
    <2>4. n[1] = x[1]
      BY <2>1, <2>3
    <2>5. n[2] = IF Len(x) = 2 THEN x[2] ELSE y[1]
      <3>1. CASE Len(x) = 2
        BY <2>1, <2>3, <3>1
      <3>2. CASE Len(x) = 1
        <4>1. n[2] = y[2 - Len(x)] /\ 2 - Len(x) = 1
          BY <2>1, <2>3, <3>2
        <4> QED  BY <3>2, <4>1
      <3> QED  BY <2>1, <3>1, <3>2
    <2>6. ~IsExtlang(y[1])
      <3>1. IsScript(y[1])
        BY <2>1, NamesAssumption
      <3> QED  BY <3>1 DEF IsScript, IsExtlang, Is
    <2> HIDE DEF n
    <2>7. x # <<>> /\ FindLanguage(x[1]) # None
      BY <1>2
    <2>8. Neutralises(n, l)
      BY <2>1, <2>2, <2>4, <2>5, <2>6, <2>7 DEF Neutralises
    <2> QED  BY <2>8 DEF n
  <1> QED  BY <1>1, <1>2

\* A tag that is longer than it may be is not valid,
LEMMA ValidIsShort ==
  ASSUME NEW t \in Seq(Subtag), WellFormedTag(ParseTag(Replaced(t), Grandfathered(t)))
  PROVE  ~TooLong(t)
  <1> DEFINE v == Replaced(t)
             g == Grandfathered(t)
  <1>1. CASE t \in DOMAIN Table.grandfathered
    <2>1. LengthOf(t) <= MaximumTagLength
      BY <1>1, GrandfatheredAssumption
    <2>2. LengthOf(t) \in Int /\ MaximumTagLength \in Nat
      BY LengthType, GrandfatheredAssumption
    <2> QED  BY <2>1, <2>2 DEF TooLong
  <1>2. CASE t \notin DOMAIN Table.grandfathered
    <2>1. v = t
      BY <1>2 DEF Replaced
    <2>2. g \in BOOLEAN /\ v \in Seq(Subtag)
      BY <2>1 DEF Grandfathered
    <2>3. ParseTag(v, g).valid
      BY DEF WellFormedTag
    <2> HIDE DEF v, g
    <2>4. Start(v).valid
      BY <2>2, <2>3, ShapeIs DEF Shape
    <2>5. LengthOf(t) \in 2 .. MaximumTagLength
      BY <2>1, <2>4 DEF Start
    <2>6. LengthOf(t) \in Int /\ MaximumTagLength \in Nat
      BY LengthType, GrandfatheredAssumption
    <2> QED  BY <2>5, <2>6 DEF TooLong
  <1> QED  BY <1>1, <1>2

\* and one that is well-formed has been read to its end, or to what a
\* grandfathered tag may have.
LEMMA ParsedIs ==
  ASSUME NEW t \in Seq(Subtag), WellFormedTag(ParseTag(Replaced(t), Grandfathered(t)))
  PROVE  LET v == Replaced(t)
             p == ParseTag(v, Grandfathered(t))
         IN  v \in Seq(Subtag) /\ v # <<>> /\ WellFormedTag(p) /\ Start(v).valid /\ Shape(v, p, Len(v)) /\ ~TooLong(t)
  <1> DEFINE v == Replaced(t)
             g == Grandfathered(t)
             p == ParseTag(v, g)
  <1>1. v \in Seq(Subtag) /\ g \in BOOLEAN
    BY ReplacedType DEF Grandfathered
  <1>3. WellFormedTag(p)
    OBVIOUS
  <1>4. p.valid
    BY <1>3 DEF WellFormedTag
  <1>5. ~TooLong(t)
    BY <1>3, ValidIsShort
  <1> HIDE DEF v, g
  <1>6. Shape(v, p, Len(v))
    BY <1>1, <1>4, ShapeIs
  <1>7. Start(v).valid
    BY <1>6 DEF Shape
  <1>8. v # <<>>
    <2> SUFFICES ASSUME v = <<>> PROVE FALSE
      OBVIOUS
    <2>1. LengthOf(v) \in 2 .. MaximumTagLength
      BY <1>7 DEF Start
    <2>2. LengthOf(v) = StartOf(v, 0 + 1) - 1
      BY DEF LengthOf
    <2>3. StartOf(v, 1) = 0
      BY <1>1, Starts
    <2>4. MaximumTagLength \in Nat
      BY GrandfatheredAssumption
    <2> QED  BY <2>1, <2>2, <2>3, <2>4
  <1> QED  BY <1>1, <1>3, <1>5, <1>6, <1>7, <1>8 DEF v, g

\* A language is what is found for its tag, and what is kept of the text,
LEMMA LanguageIs ==
  ASSUME NEW t
  PROVE  LET v == Replaced(t)
             p == ParseTag(v, Grandfathered(t))
             k == Validate(t)
             l == LanguageOf(t)
         IN  /\ l.wellFormed = k.wellFormed /\ l.valid = k.valid /\ l.compact = k.compact /\ l.map = k.map
             /\ l.start = k.start /\ l.extlang = k.extlang /\ l.suppressed = k.suppressed
             /\ l.text = IF KeepsText(k, IsSpecial(t)) /\ LengthOf(t) <= MaximumTagLength THEN t ELSE <<>>
  BY DEF LanguageOf, ValidateTagAndInitialize

\* with what its form says: not well-formed, of digits, a pseudo-locale or plain.
LEMMA LookedUp ==
  ASSUME NEW t
  PROVE  LET v == Replaced(t)
             g == Grandfathered(t)
             p == ParseTag(v, g)
             k == Validate(t)
         IN  \/ ~WellFormedTag(p) /\ k = Unknown(p, FALSE)
             \/ WellFormedTag(p) /\ Form[v[1]].digits /\ k = Unknown(p, TRUE)
             \/ WellFormedTag(p) /\ ~Form[v[1]].digits /\ v \in DOMAIN Table.pseudo /\ k = PseudoLocale(p, Table.pseudo[v])
             \/ WellFormedTag(p) /\ ~Form[v[1]].digits /\ v \notin DOMAIN Table.pseudo /\ k = ValidatePlain(v, p, g)
  BY DEF Validate, ValidateParsed

\* A tag that is valid or well-formed has been parsed to its end.
LEMMA WasParsed ==
  ASSUME NEW t, LanguageOf(t).wellFormed \/ LanguageOf(t).valid
  PROVE  WellFormedTag(ParseTag(Replaced(t), Grandfathered(t)))
  <1> DEFINE p == ParseTag(Replaced(t), Grandfathered(t))
  <1>1. Validate(t).wellFormed \/ Validate(t).valid
    BY LanguageIs
  <1>2. ~WellFormedTag(p) => Validate(t) = Unknown(p, FALSE)
    BY LookedUp
  <1>3. ~Unknown(p, FALSE).wellFormed /\ ~Unknown(p, FALSE).valid
    BY DEF Unknown
  <1> QED  BY <1>1, <1>2, <1>3

\* What comes before the region, if it begins with the name of the language.
LEMMA LeadNeutral ==
  ASSUME NEW l, NEW x \in Seq(Subtag), Len(x) <= 2,
         Len(x) > 0 /\ FindLanguage(x[1]) # None =>
           FindLanguage(x[1]) = l.compact.lang /\ (l.valid => l.compact.script = ScriptOf(l.compact.lang)),
         Len(x) = 2 => /\ IsExtlang(x[2])
                       /\ x[2] \in DOMAIN Table.extlangs => Table.extlangs[x[2]] # FindLanguage(x[1]),
         Shown(l) # <<>> => l.compact.script \in Table.scripts /\ Len(x) > 0 /\ FindLanguage(x[1]) # None
  PROVE  Shown(l) \in Seq(Subtag) /\ Neutralises(x \o Shown(l), l)
  <1> DEFINE y == Shown(l)
  <1>1. y # <<>> => y = <<l.compact.script>>
    BY DEF Shown, ScriptPart, Part
  <1>2. l.compact.script \in Table.scripts => l.compact.script \in Subtag
    BY TablesAre
  <1>3. y \in Seq(Subtag)
    <2>1. CASE y = <<>>
      <3>1. <<>> \in Seq(Subtag)
        BY EmptySeq
      <3> QED  BY <2>1, <3>1
    <2>2. CASE y # <<>>
      <3>1. l.compact.script \in Subtag /\ y = <<l.compact.script>>
        BY <1>1, <1>2, <2>2
      <3> HIDE DEF y
      <3> QED  BY <3>1
    <2> QED  BY <2>1, <2>2
  <1>4. y # <<>> => y[1] \in Table.scripts
    <2> SUFFICES ASSUME y # <<>> PROVE y[1] \in Table.scripts
      OBVIOUS
    <2>1. y = <<l.compact.script>> /\ l.compact.script \in Table.scripts
      BY <1>1
    <2> HIDE DEF y
    <2>2. y[1] = l.compact.script
      BY <2>1
    <2> QED  BY <2>1, <2>2
  <1>5. Len(x) \in Nat /\ (x # <<>> <=> Len(x) > 0) /\ (Len(x) > 1 <=> Len(x) = 2)
    <2>1. Len(x) \in Nat /\ Len(x) <= 2
      OBVIOUS
    <2>2. x # <<>> <=> Len(x) # 0
      BY EmptySeq
    <2>3. \A n \in Nat : (n # 0 <=> n > 0) /\ (n <= 2 => (n > 1 <=> n = 2))
      OBVIOUS
    <2> QED  BY <2>1, <2>2, <2>3
  <1> HIDE DEF y
  <1>6. Neutralises(x, l)
    <2>1. x # <<>> /\ FindLanguage(x[1]) # None =>
            FindLanguage(x[1]) = l.compact.lang /\ (l.valid => l.compact.script = ScriptOf(l.compact.lang))
      BY <1>5
    <2>2. Len(x) > 1 => IsExtlang(x[2]) /\ (x[2] \in DOMAIN Table.extlangs => Table.extlangs[x[2]] # FindLanguage(x[1]))
      BY <1>5
    <2> QED  BY <2>1, <2>2 DEF Neutralises
  <1>7. y # <<>> => y[1] \in Table.scripts /\ x # <<>> /\ FindLanguage(x[1]) # None
    BY <1>4, <1>5 DEF y
  <1>8. Neutralises(x \o y, l)
    BY <1>3, <1>6, <1>7, WithScript
  <1> QED  BY <1>3, <1>8 DEF y

\* The neutral form of a language whose text is kept,
LEMMA FromTheText ==
  ASSUME NEW t, NEW l, l = LanguageOf(t), l.text # <<>>,
         NEW body \in Seq(Subtag), BodyOf(l) = body, NEW lead, lead = Lead(l.map), lead <= Len(body),
         lead > 0 /\ FindLanguage(body[1]) # None =>
           FindLanguage(body[1]) = l.compact.lang /\ (l.valid => l.compact.script = ScriptOf(l.compact.lang)),
         lead = 2 => /\ IsExtlang(body[2])
                     /\ body[2] \in DOMAIN Table.extlangs => Table.extlangs[body[2]] # FindLanguage(body[1]),
         Shown(l) # <<>> => l.compact.script \in Table.scripts /\ lead > 0 /\ FindLanguage(body[1]) # None
  PROVE  Neutralises(Neutral(l), l)
  <1> DEFINE x == SubSeq(body, 1, lead)
  <1>1. lead \in Nat /\ lead <= 2 /\ Len(body) \in Nat
    BY LeadIs
  <1>2. x \in Seq(Subtag) /\ Len(x) = lead /\ \A i \in 1 .. lead : x[i] = body[i]
    <2>1. \A i \in 1 .. lead : body[i] \in Subtag
      BY <1>1
    <2>2. /\ x \in Seq(Subtag) /\ Len(x) = (IF 1 <= lead THEN lead - 1 + 1 ELSE 0)
          /\ \A i \in 1 .. lead - 1 + 1 : x[i] = body[1 + i - 1]
      BY <1>1, <2>1, SubSeqProperties
    <2>3. lead - 1 + 1 = lead /\ (\A i \in 1 .. lead : 1 + i - 1 = i) /\ (~(1 <= lead) => lead = 0)
      BY <1>1
    <2>4. Len(x) = lead
      BY <2>2, <2>3
    <2>5. \A i \in 1 .. lead : x[i] = body[i]
      BY <2>2, <2>3
    <2> QED  BY <2>2, <2>4, <2>5
  <1>3. lead > 0 => x[1] = body[1]
    BY <1>1, <1>2
  <1>4. lead = 2 => x[2] = body[2]
    BY <1>1, <1>2
  <1> HIDE DEF x
  <1>5. Shown(l) \in Seq(Subtag) /\ Neutralises(x \o Shown(l), l)
    <2>1. Len(x) > 0 /\ FindLanguage(x[1]) # None =>
            FindLanguage(x[1]) = l.compact.lang /\ (l.valid => l.compact.script = ScriptOf(l.compact.lang))
      BY <1>2, <1>3
    <2>2. Len(x) = 2 => IsExtlang(x[2]) /\ (x[2] \in DOMAIN Table.extlangs => Table.extlangs[x[2]] # FindLanguage(x[1]))
      BY <1>2, <1>3, <1>4
    <2>3. Shown(l) # <<>> => l.compact.script \in Table.scripts /\ Len(x) > 0 /\ FindLanguage(x[1]) # None
      BY <1>2, <1>3
    <2>4. x \in Seq(Subtag) /\ Len(x) <= 2
      BY <1>1, <1>2
    <2> QED  BY <2>1, <2>2, <2>3, <2>4, LeadNeutral
  <1>6. Neutral(l) = x \o Shown(l)
    <2>1. l = ValidateTagAndInitialize(t, Validate(t))
      BY DEF LanguageOf
    <2>2. l.text # <<>> /\ BodyOf(l) \in Seq(Subtag) /\ Lead(l.map) <= Len(BodyOf(l)) /\ Shown(l) \in Seq(Subtag)
      BY <1>5
    <2>3. Neutral(l) = SubSeq(BodyOf(l), 1, Lead(l.map)) \o Shown(l)
      BY <2>1, <2>2, NeutralOfText
    <2> QED  BY <2>3 DEF x
  <1> QED  BY <1>5, <1>6

\* and of one that the tables give back.
LEMMA FromTheTables ==
  ASSUME NEW l, l.text = <<>>, l.compact.lang \in Subtag, FindLanguage(l.compact.lang) = l.compact.lang,
         l.extlang \in Subtag \cup {None}, Lead(l.map) = IF l.extlang = None THEN 1 ELSE 2,
         l.extlang # None => /\ IsExtlang(l.extlang)
                             /\ l.extlang \in DOMAIN Table.extlangs => Table.extlangs[l.extlang] # l.compact.lang,
         l.compact.region \in Subtag \cup {None}, l.compact.variant = None,
         l.valid => l.compact.script = ScriptOf(l.compact.lang),
         Shown(l) # <<>> => l.compact.script \in Table.scripts
  PROVE  Neutralises(Neutral(l), l)
  <1> DEFINE a == l.compact.lang
             b == l.extlang
             x == Part(a) \o Part(b)
  <1>0. None \notin Subtag
    BY TableAssumption
  <1>1. x = IF b = None THEN <<a>> ELSE <<a, b>>
    <2>1. Part(a) = <<a>>
      BY <1>0 DEF Part
    <2>2. CASE b = None
      <3>1. Part(b) = <<>>
        BY <2>2 DEF Part
      <3>2. <<a>> \in Seq(Subtag)
        OBVIOUS
      <3>3. <<a>> \o <<>> = <<a>>
        BY <3>2, ConcatEmptySeq
      <3> QED  BY <2>1, <2>2, <3>1, <3>3
    <2>3. CASE b # None
      <3>1. Part(b) = <<b>>
        BY <2>3 DEF Part
      <3>2. <<a>> \o <<b>> = <<a, b>>
        <4>1. a \in Subtag /\ b \in Subtag
          BY <2>3
        <4> HIDE DEF a, b
        <4> DEFINE u == <<a>>
                   w == <<b>>
                   z == <<a, b>>
        <4>2. u \in Seq(Subtag) /\ w \in Seq(Subtag) /\ z \in Seq(Subtag) /\ Len(u) = 1 /\ Len(w) = 1 /\ Len(z) = 2
              /\ u[1] = a /\ w[1] = b /\ z[1] = a /\ z[2] = b
          BY <4>1
        <4> HIDE DEF u, w, z
        <4>3. /\ u \o w \in Seq(Subtag) /\ Len(u \o w) = 1 + 1
              /\ \A i \in 1 .. 1 + 1 : (u \o w)[i] = IF i <= 1 THEN u[i] ELSE w[i - 1]
          BY <4>2, ConcatProperties
        <4>4. (u \o w)[1] = a /\ (u \o w)[2] = b
          BY <4>2, <4>3
        <4>5. u \o w = z
          <5>1. \A i \in 1 .. 2 : (u \o w)[i] = z[i]
            BY <4>2, <4>4
          <5> QED  BY <4>2, <4>3, <5>1, SeqEqual
        <4> QED  BY <4>5 DEF u, w, z
      <3> QED  BY <2>1, <2>3, <3>1, <3>2
    <2> QED  BY <2>2, <2>3
  <1>2. /\ x \in Seq(Subtag) /\ Len(x) = (IF b = None THEN 1 ELSE 2)
        /\ x[1] = a /\ (b # None => x[2] = b)
    <2>1. CASE b = None
      <3>1. x = <<a>> /\ a \in Subtag
        BY <1>1, <2>1
      <3> HIDE DEF x, a, b
      <3> QED  BY <2>1, <3>1
    <2>2. CASE b # None
      <3>1. x = <<a, b>> /\ a \in Subtag /\ b \in Subtag
        BY <1>1, <2>2
      <3> HIDE DEF x, a, b
      <3> QED  BY <2>2, <3>1
    <2> QED  BY <2>1, <2>2
  <1>3. a # None
    BY <1>0
  <1> HIDE DEF x
  <1>4. Shown(l) \in Seq(Subtag) /\ Neutralises(x \o Shown(l), l)
    <2>1. Len(x) > 0 /\ FindLanguage(x[1]) # None =>
            FindLanguage(x[1]) = l.compact.lang /\ (l.valid => l.compact.script = ScriptOf(l.compact.lang))
      BY <1>2
    <2>2. Len(x) = 2 => IsExtlang(x[2]) /\ (x[2] \in DOMAIN Table.extlangs => Table.extlangs[x[2]] # FindLanguage(x[1]))
      BY <1>2
    <2>3. Shown(l) # <<>> => l.compact.script \in Table.scripts /\ Len(x) > 0 /\ FindLanguage(x[1]) # None
      BY <1>2, <1>3
    <2>4. x \in Seq(Subtag) /\ Len(x) <= 2
      BY <1>2
    <2> QED  BY <2>1, <2>2, <2>3, <2>4, LeadNeutral
  <1>5. Neutral(l) = x \o Shown(l)
    <2>1. Part(l.compact.region) \in Seq(Subtag)
      <3>1. <<>> \in Seq(Subtag)
        BY EmptySeq
      <3> QED  BY <3>1 DEF Part
    <2>2. Part(l.compact.lang) \o Part(l.extlang) \in Seq(Subtag)
      BY <1>2 DEF x
    <2>3. Len(Part(l.compact.lang) \o Part(l.extlang)) = Lead(l.map)
      BY <1>2 DEF x
    <2>4. Neutral(l) = Part(l.compact.lang) \o Part(l.extlang) \o Shown(l)
      BY <1>4, <2>1, <2>2, <2>3, NeutralOfTables
    <2> QED  BY <2>4 DEF x
  <1> QED  BY <1>4, <1>5

\* What is kept of the text of a tag, and what a tag that is replaced has in
\* common with what it is replaced by.
LEMMA TextIs ==
  ASSUME NEW t \in Seq(Subtag), LanguageOf(t).wellFormed
  PROVE  /\ t # <<>>
         /\ LanguageOf(t).text = IF KeepsText(Validate(t), IsSpecial(t)) THEN t ELSE <<>>
         /\ Replaced(t) # t =>
              /\ Replaced(t)[1] \in Table.languages /\ ~Grandfathered(t) /\ Len(t) > 1
              /\ Len(Replaced(t)) > 1 => Replaced(t)[1] = t[1] /\ ~IsExtlang(Replaced(t)[2])
  <1>1. Replaced(t) # <<>> /\ ~TooLong(t)
    BY WasParsed, ParsedIs
  <1>2. LengthOf(t) <= MaximumTagLength
    <2>1. LengthOf(t) \in Int /\ MaximumTagLength \in Nat
      BY LengthType, GrandfatheredAssumption
    <2> QED  BY <1>1, <2>1 DEF TooLong
  <1>3. \A g \in DOMAIN Table.grandfathered :
          /\ Len(g) > 1
          /\ Table.grandfathered[g] # <<>> => Table.grandfathered[g][1] \in Table.languages
          /\ Len(Table.grandfathered[g]) > 1 => Table.grandfathered[g][1] = g[1] /\ ~IsExtlang(Table.grandfathered[g][2])
    BY GrandfatheredAssumption
  <1>4. t # <<>>
    <2>1. CASE t \in DOMAIN Table.grandfathered
      <3>1. Len(t) > 1
        BY <1>3, <2>1
      <3> QED  BY <3>1
    <2>2. CASE t \notin DOMAIN Table.grandfathered
      <3>1. Replaced(t) = t
        BY <2>2 DEF Replaced
      <3> QED  BY <1>1, <3>1
    <2> QED  BY <2>1, <2>2
  <1>5. LanguageOf(t).text = IF KeepsText(Validate(t), IsSpecial(t)) THEN t ELSE <<>>
    BY <1>2, LanguageIs
  <1>6. ASSUME Replaced(t) # t
        PROVE  /\ Replaced(t)[1] \in Table.languages /\ ~Grandfathered(t) /\ Len(t) > 1
               /\ Len(Replaced(t)) > 1 => Replaced(t)[1] = t[1] /\ ~IsExtlang(Replaced(t)[2])
    <2>1. t \in DOMAIN Table.grandfathered /\ Table.grandfathered[t] # <<>> /\ Replaced(t) = Table.grandfathered[t]
      BY <1>6 DEF Replaced
    <2> QED  BY <1>3, <2>1 DEF Grandfathered
  <1> QED  BY <1>4, <1>5, <1>6

\* A tag that begins with a digit has no neutral form,
LEMMA NeutralOfUnknown ==
  ASSUME NEW t \in Seq(Subtag), LanguageOf(t).wellFormed, NEW p, p = ParseTag(Replaced(t), Grandfathered(t)),
         Form[Replaced(t)[1]].digits, Validate(t) = Unknown(p, TRUE)
  PROVE  Neutralises(Neutral(LanguageOf(t)), LanguageOf(t))
  <1> DEFINE v == Replaced(t)
             l == LanguageOf(t)
             k == Validate(t)
  <1>1. v \in Seq(Subtag) /\ Shape(v, p, Len(v))
    BY WasParsed, ParsedIs
  <1>2. k.wellFormed /\ ~k.valid /\ k.compact.lang = None /\ k.map = p.map
    BY DEF Unknown, NoLanguage
  <1>3. KeepsText(k, IsSpecial(t))
    BY <1>2 DEF KeepsText
  <1>4. l.text = t /\ t # <<>>
    BY <1>3, TextIs
  <1>5. l.map = p.map /\ ~l.valid
    BY <1>2, LanguageIs
  <1> HIDE DEF v, l
  <1>6. Language \notin p.map
    <2>1. Language \in p.map => IsLanguage(v[1])
      BY <1>1, ShapedIs
    <2> QED  BY <2>1 DEF IsLanguage, Is, v
  <1>7. Extlang \notin p.map /\ Script \notin p.map
    BY <1>1, <1>6, ShapedIs
  <1>8. Lead(l.map) = 0 /\ BodyOf(l) = t
    BY <1>4, <1>5, <1>6, <1>7, LeadIs DEF BodyOf
  <1>9. Shown(l) = <<>>
    BY <1>5, <1>7 DEF Shown, ScriptPart
  <1>10. 0 <= Len(t)
    OBVIOUS
  <1>11. l = LanguageOf(t) /\ l.text # <<>>
    BY <1>4 DEF l
  <1>12. Neutralises(Neutral(l), l)
    BY <1>8, <1>9, <1>10, <1>11, FromTheText
  <1> QED  BY <1>12 DEF l

\* that of a pseudo-locale is no language,
LEMMA NeutralOfPseudo ==
  ASSUME NEW t \in Seq(Subtag), LanguageOf(t).wellFormed, NEW p, p = ParseTag(Replaced(t), Grandfathered(t)),
         Replaced(t) \in DOMAIN Table.pseudo, Validate(t) = PseudoLocale(p, Table.pseudo[Replaced(t)])
  PROVE  Neutralises(Neutral(LanguageOf(t)), LanguageOf(t))
  <1> DEFINE v == Replaced(t)
             l == LanguageOf(t)
             k == Validate(t)
  <1>1. v \in Seq(Subtag) /\ Shape(v, p, Len(v))
    BY WasParsed, ParsedIs
  <1>2. Len(v) > 1 /\ v[1] \notin Table.languages \cup DOMAIN Table.renamed /\ ~IsExtlang(v[2])
    BY NamesAssumption
  <1>3. v = t
    BY <1>2, TextIs
  <1>4. k.wellFormed /\ k.map = p.map /\ k.start = p.start /\ k.suppressed = TRUE
    BY DEF PseudoLocale
  <1>5. KeepsText(k, IsSpecial(t))
    BY <1>4 DEF KeepsText, IsSpecial, IsPseudo
  <1>6. l.text = t /\ t # <<>>
    BY <1>5, TextIs
  <1>7. l.map = p.map /\ l.start = p.start /\ l.suppressed = TRUE
    BY <1>4, LanguageIs
  <1>8. FindLanguage(v[1]) = None
    BY <1>2 DEF FindLanguage, Lookup
  <1> HIDE DEF v, l
  <1>9. Extlang \notin p.map /\ (Language \in p.map => p.start[Language] = 0)
    BY <1>1, <1>2, ShapedIs
  <1>10. Lead(l.map) \in 0 .. 1 /\ BodyOf(l) = t
    BY <1>6, <1>7, <1>9, LeadIs DEF BodyOf
  <1>11. Shown(l) = <<>>
    BY <1>7 DEF Shown, ScriptPart
  <1>12. Lead(l.map) <= Len(t) /\ Lead(l.map) # 2
    BY <1>2, <1>3, <1>10
  <1>13. l = LanguageOf(t) /\ l.text # <<>> /\ FindLanguage(t[1]) = None
    BY <1>3, <1>6, <1>8 DEF l
  <1>14. Neutralises(Neutral(l), l)
    BY <1>10, <1>11, <1>12, <1>13, FromTheText
  <1> QED  BY <1>14 DEF l

\* What is looked up of a plain tag.
LEMMA PlainOf ==
  ASSUME NEW t \in Seq(Subtag), WellFormedTag(ParseTag(Replaced(t), Grandfathered(t))),
         Validate(t) = ValidatePlain(Replaced(t), ParseTag(Replaced(t), Grandfathered(t)), Grandfathered(t))
  PROVE  LET v == Replaced(t)
             p == ParseTag(v, Grandfathered(t))
             l == LanguageOf(t)
             first == FirstOf(v, p)
             matched == ExtlangMatches(v, p, first)
         IN  /\ l.compact.lang = LangOf(v, p) /\ l.compact.variant = FindVariant(v, p, LangOf(v, p))
             /\ l.valid => l.compact.script = ScriptOf(l.compact.lang) /\ first # None
             /\ Shown(l) # <<>> => l.compact.script \in Table.scripts /\ first # None
             /\ Lead(l.map) = IF Language \notin p.map THEN 0 ELSE IF Extlang \in p.map /\ ~matched THEN 2 ELSE 1
             /\ BodyOf(l) = IF matched THEN Tail(l.text) ELSE l.text
             /\ l.extlang = IF Extlang \in p.map /\ ~matched THEN v[2] ELSE None
             /\ \A f \in Fields \ {Script, Extlang} : f \in l.map <=> f \in p.map
             /\ first # None => Language \in p.map
             /\ l.valid => KnownTo(v, p)
             /\ Script \in l.map => l.compact.script # None
  <1> DEFINE v == Replaced(t)
             g == Grandfathered(t)
             p == ParseTag(v, g)
             l == LanguageOf(t)
             k == Validate(t)
             first == FirstOf(v, p)
             matched == ExtlangMatches(v, p, first)
  <1>1. v \in Seq(Subtag) /\ Shape(v, p, Len(v)) /\ g \in BOOLEAN
    BY ParsedIs DEF Grandfathered
  <1>2. /\ p.map \subseteq Fields \ {Script} /\ p.start \in [Fields -> Nat]
        /\ Language \in p.map => p.start[Language] = 0
        /\ Extlang \in p.map => /\ Language \in p.map
                                /\ SubtagAt(v, p.start[Extlang]) = v[2] /\ p.start[Extlang] > 0
        /\ matched => Extlang \in p.map
    <2>1. matched => Extlang \in p.map
      BY DEF ExtlangMatches
    <2> QED  BY <1>1, <2>1, ShapedIs
  <1>3. /\ l.compact = k.compact /\ l.valid = k.valid /\ l.map = k.map /\ l.start = k.start /\ l.extlang = k.extlang
        /\ l.suppressed = k.suppressed
    BY LanguageIs
  <1>b. k = ValidatePlain(v, p, g)
    OBVIOUS
  <1> HIDE DEF v, p, g, k, l
  <1>4. /\ k.compact.lang = LangOf(v, p)
        /\ k.compact.script = IF KnownTo(v, p) /\ LangOf(v, p) # None THEN ScriptOf(LangOf(v, p)) ELSE None
        /\ k.compact.variant = FindVariant(v, p, LangOf(v, p))
        /\ k.valid => k.compact.script # None
        /\ k.map = IF KnownTo(v, p) /\ k.compact.script # None THEN MapOf(v, p) \cup {Script} ELSE MapOf(v, p)
        /\ k.start = MovedStart(v, p)
        /\ k.extlang = IF Extlang \in MapOf(v, p) THEN SubtagAt(v, p.start[Extlang]) ELSE None
    <2>1. p.map \subseteq Fields \ {Script}
      BY <1>2
    <2>2. ValidatePlain(v, p, g).compact.lang = LangOf(v, p)
      BY <2>1, PlainIs, ZenonT(40)
    <2>3. ValidatePlain(v, p, g).compact.script = IF KnownTo(v, p) /\ LangOf(v, p) # None THEN ScriptOf(LangOf(v, p)) ELSE None
      BY <2>1, PlainIs, ZenonT(40)
    <2>4. ValidatePlain(v, p, g).compact.variant = FindVariant(v, p, LangOf(v, p))
      BY <2>1, PlainIs, ZenonT(40)
    <2>5. ValidatePlain(v, p, g).valid => ValidatePlain(v, p, g).compact.script # None
      BY <2>1, PlainIs, ZenonT(40)
    <2>6. ValidatePlain(v, p, g).map = IF KnownTo(v, p) /\ ValidatePlain(v, p, g).compact.script # None THEN MapOf(v, p) \cup {Script} ELSE MapOf(v, p)
      BY <2>1, PlainIs, ZenonT(40)
    <2>7. ValidatePlain(v, p, g).start = MovedStart(v, p)
      BY <2>1, PlainIs, ZenonT(40)
    <2>8. ValidatePlain(v, p, g).extlang = IF Extlang \in MapOf(v, p) THEN SubtagAt(v, p.start[Extlang]) ELSE None
      BY <2>1, PlainIs, ZenonT(40)
    <2> HIDE DEF first, matched
    <2> QED  BY <1>b, <2>2, <2>3, <2>4, <2>5, <2>6, <2>7, <2>8
  <1>5. MapOf(v, p) = IF matched THEN p.map \ {Extlang} ELSE p.map
    BY DEF MapOf
  <1>6. Language # Script /\ Extlang # Script /\ Language # Extlang /\ Language \in Fields /\ Extlang \in Fields
    BY DEF Language, Extlang, Script, Fields
  <1>7. (first # None => Language \in p.map) /\ (KnownTo(v, p) => first # None)
    BY DEF FirstOf, KnownTo
  <1> HIDE DEF first, matched
  <1>8. \A f \in Fields \ {Script, Extlang} : f \in l.map <=> f \in p.map
    BY <1>3, <1>4, <1>5
  <1>9. /\ Language \in l.map <=> Language \in p.map
        /\ Extlang \in l.map <=> Extlang \in p.map /\ ~matched
        /\ Script \in l.map <=> KnownTo(v, p) /\ k.compact.script # None
        /\ Extlang \in MapOf(v, p) <=> Extlang \in p.map /\ ~matched
    BY <1>2, <1>3, <1>4, <1>5, <1>6
  <1>10. Lead(l.map) = IF Language \notin p.map THEN 0 ELSE IF Extlang \in p.map /\ ~matched THEN 2 ELSE 1
    BY <1>2, <1>9, LeadIs
  <1>11. l.extlang = IF Extlang \in p.map /\ ~matched THEN v[2] ELSE None
    BY <1>2, <1>3, <1>4, <1>9
  <1>12. l.valid => k.compact.script # None /\ KnownTo(v, p) /\ LangOf(v, p) # None
    BY <1>3, <1>4
  <1>13. l.valid => l.compact.script = ScriptOf(l.compact.lang) /\ first # None /\ KnownTo(v, p)
    BY <1>3, <1>4, <1>7, <1>12
  <1>14. Shown(l) # <<>> => l.compact.script \in Table.scripts /\ first # None
    <2> SUFFICES ASSUME Shown(l) # <<>>
                 PROVE  l.compact.script \in Table.scripts /\ first # None
      OBVIOUS
    <2>1. Script \in l.map
      BY DEF Shown, ScriptPart
    <2>2. KnownTo(v, p) /\ k.compact.script # None
      BY <1>9, <2>1
    <2>3. k.compact.script = ScriptOf(LangOf(v, p))
      BY <1>4, <2>2
    <2>4. ScriptOf(LangOf(v, p)) \in Table.scripts \cup {None}
      BY ScriptOfIs
    <2> QED  BY <1>3, <1>7, <2>2, <2>3, <2>4
  <1>15. BodyOf(l) = IF matched THEN Tail(l.text) ELSE l.text
    <2>1. CASE matched
      <3>1. l.start[Language] = p.start[Extlang]
        BY <1>2, <1>3, <1>4, <1>6, <2>1 DEF MovedStart, matched, first
      <3>2. p.start[Extlang] # 0 /\ Language \in l.map
        BY <1>2, <1>9, <2>1
      <3> QED  BY <2>1, <3>1, <3>2 DEF BodyOf
    <2>2. CASE ~matched
      <3>1. l.start = p.start
        BY <1>3, <1>4, <2>2 DEF MovedStart, matched, first
      <3> QED  BY <1>2, <1>9, <2>2, <3>1 DEF BodyOf
    <2> QED  BY <2>1, <2>2
  <1>16. l.compact.lang = LangOf(v, p) /\ l.compact.variant = FindVariant(v, p, LangOf(v, p))
    BY <1>3, <1>4
  <1>17. Script \in l.map => l.compact.script # None
    BY <1>3, <1>9
  <1> QED  BY <1>7, <1>8, <1>10, <1>11, <1>13, <1>14, <1>15, <1>16, <1>17 DEF v, g, p, l, first, matched

\* A tag that is replaced by a language alone does not keep its text.
LEMMA SingleForgets ==
  ASSUME NEW t \in Seq(Subtag), LanguageOf(t).wellFormed, Replaced(t) # t, Len(Replaced(t)) = 1,
         Validate(t) = ValidatePlain(Replaced(t), ParseTag(Replaced(t), Grandfathered(t)), Grandfathered(t))
  PROVE  LanguageOf(t).text = <<>>
  <1> DEFINE v == Replaced(t)
             g == Grandfathered(t)
             p == ParseTag(v, g)
             l == LanguageOf(t)
             k == Validate(t)
  <1>0. WellFormedTag(p)
    BY WasParsed
  <1>1. v \in Seq(Subtag) /\ Start(v).valid /\ g \in BOOLEAN
    BY <1>0, ParsedIs DEF Grandfathered
  <1>2. v[1] \in Table.languages /\ ~g
    BY TextIs
  <1>3. IsLanguage(v[1])
    BY <1>2, NamesAssumption
  <1>4. p.map = {Language} /\ ~p.private
    <2>1. Len(v) = 1
      OBVIOUS
    <2> HIDE DEF v, g
    <2> QED  BY <1>1, <1>3, <2>1, SingleIs
  <1>5. FindLanguage(v[1]) \in Table.languages
    <2>1. CASE v[1] \in DOMAIN Table.renamed
      BY <2>1, TableAssumption DEF FindLanguage
    <2>2. CASE v[1] \notin DOMAIN Table.renamed
      BY <1>2, <2>2 DEF FindLanguage, Lookup
    <2> QED  BY <2>1, <2>2
  <1>6. FindLanguage(v[1]) # None
    BY <1>5, TableAssumption
  <1>7. v \notin DOMAIN Table.pseudo
    <2>1. \A u \in DOMAIN Table.pseudo : Len(u) > 1
      BY NamesAssumption
    <2>2. ~(Len(v) > 1)
      <3>1. Len(v) = 1
        OBVIOUS
      <3> QED  BY <3>1
    <2> QED  BY <2>1, <2>2
  <1>8. ~IsSpecial(t)
    BY <1>2, <1>4, <1>7 DEF IsSpecial, IsPseudo
  <1>9. l.compact = k.compact /\ l.map = k.map
    BY LanguageIs
  <1>10. FirstOf(v, p) = FindLanguage(v[1])
    BY <1>4 DEF FirstOf
  <1>11. Extlang \notin p.map
    BY <1>4 DEF Language, Extlang
  <1>12. l.compact.lang # None
    <2>1. LangOf(v, p) = FirstOf(v, p)
      BY <1>11 DEF LangOf, ExtlangMatches
    <2>2. l.compact.lang = LangOf(v, p)
      BY <1>0, PlainOf
    <2> QED  BY <1>6, <1>10, <2>1, <2>2
  <1>13. /\ \A f \in Fields \ {Script, Extlang} : f \in l.map <=> f \in p.map
         /\ Script \in l.map => l.compact.script # None
    BY <1>0, PlainOf
  <1>14. l.map \cap {Region, Variant, Extension, PrivateUse} = {}
    <2>1. /\ {Region, Variant, Extension, PrivateUse} \subseteq Fields \ {Script, Extlang}
          /\ Language \notin {Region, Variant, Extension, PrivateUse}
      BY DEF Fields, Language, Extlang, Script, Region, Variant, Extension, PrivateUse
    <2> QED  BY <1>4, <1>13, <2>1
  <1>15. ~KeepsText(k, IsSpecial(t))
    <2> HIDE DEF k, l, v, p, g
    <2> QED  BY <1>8, <1>9, <1>12, <1>13, <1>14 DEF KeepsText
  <1> QED  BY <1>15, TextIs

\* The neutral form of a plain tag whose text is kept,
LEMMA NeutralOfKept ==
  ASSUME NEW t \in Seq(Subtag), LanguageOf(t).wellFormed, LanguageOf(t).text # <<>>,
         Validate(t) = ValidatePlain(Replaced(t), ParseTag(Replaced(t), Grandfathered(t)), Grandfathered(t))
  PROVE  Neutralises(Neutral(LanguageOf(t)), LanguageOf(t))
  <1> DEFINE v == Replaced(t)
             g == Grandfathered(t)
             p == ParseTag(v, g)
             l == LanguageOf(t)
             first == FirstOf(v, p)
             matched == ExtlangMatches(v, p, first)
  <1>0. WellFormedTag(p)
    BY WasParsed
  <1>1. v \in Seq(Subtag) /\ v # <<>> /\ Shape(v, p, Len(v))
    BY <1>0, ParsedIs
  <1>2. t # <<>> /\ l.text = t
    BY TextIs
  <1>3. v # t => v[1] = t[1] /\ ~IsExtlang(v[2])
    <2>1. v # t => Len(v) # 1
      BY SingleForgets
    <2>2. Len(v) \in Nat /\ Len(v) # 0
      BY <1>1, EmptySeq
    <2>a. \A n \in Nat : n # 0 /\ n # 1 => n > 1
      OBVIOUS
    <2>3. v # t => Len(v) > 1
      BY <2>1, <2>2, <2>a
    <2> QED  BY <2>3, TextIs
  <1>4. /\ l.compact.lang = LangOf(v, p)
        /\ l.valid => l.compact.script = ScriptOf(l.compact.lang) /\ first # None
        /\ Shown(l) # <<>> => l.compact.script \in Table.scripts /\ first # None
        /\ Lead(l.map) = IF Language \notin p.map THEN 0 ELSE IF Extlang \in p.map /\ ~matched THEN 2 ELSE 1
        /\ BodyOf(l) = IF matched THEN Tail(l.text) ELSE l.text
        /\ first # None => Language \in p.map
    BY <1>0, PlainOf
  <1>5. l = LanguageOf(t) /\ l.text # <<>>
    OBVIOUS
  <1>6. Language \in p.map => first = FindLanguage(v[1])
    BY DEF FirstOf
  <1> HIDE DEF v, g, p, l
  <1>7. /\ Language \in p.map => Len(v) > 0
        /\ Extlang \in p.map => Len(v) > 1 /\ Language \in p.map /\ IsExtlang(v[2]) /\ v[2] \in Subtag
                                /\ SubtagAt(v, p.start[Extlang]) = v[2]
        /\ matched <=> Extlang \in p.map /\ v[2] \in DOMAIN Table.extlangs /\ Table.extlangs[v[2]] = FindLanguage(v[1])
    BY <1>1, ShapedIs
  <1>8. v[1] = t[1] /\ (Extlang \in p.map => v = t)
    BY <1>3, <1>7
  <1>9. LangOf(v, p) = IF matched THEN v[2] ELSE first
    BY <1>7 DEF LangOf
  <1>10. Len(t) \in Nat /\ Len(t) > 0
    <2>1. Len(t) \in Nat /\ Len(t) # 0
      BY <1>2, EmptySeq
    <2>2. \A n \in Nat : n # 0 => n > 0
      OBVIOUS
    <2> QED  BY <2>1, <2>2
  <1> HIDE DEF first, matched
  <1>11. CASE matched
    <2> DEFINE body == Tail(t)
               lead == 1
    <2>1. v = t /\ Len(t) > 1 /\ Language \in p.map /\ v[2] \in DOMAIN Table.extlangs
      BY <1>7, <1>8, <1>11
    <2>2. body \in Seq(Subtag) /\ Len(body) = Len(t) - 1 /\ body[1] = t[2]
      <3>1. t # <<>>
        BY <1>2
      <3>2. Tail(t) \in Seq(Subtag) /\ Len(Tail(t)) = Len(t) - 1 /\ \A i \in 1 .. Len(Tail(t)) : Tail(t)[i] = t[i + 1]
        BY <3>1, HeadTailProperties
      <3>3. 1 \in 1 .. Len(Tail(t)) /\ 1 + 1 = 2
        BY <1>10, <2>1, <3>2
      <3>4. Tail(t)[1] = t[1 + 1]
        BY <3>2, <3>3
      <3> QED  BY <3>2, <3>3, <3>4
    <2>3. FindLanguage(body[1]) = v[2] /\ l.compact.lang = v[2]
      BY <1>4, <1>9, <1>11, <2>1, <2>2, FindLanguageIs
    <2>4. v[2] # None
      BY <2>1, TablesAre, TableAssumption
    <2>5. Lead(l.map) = 1 /\ BodyOf(l) = body /\ lead = Lead(l.map)
      BY <1>2, <1>4, <1>11, <2>1
    <2>6. lead <= Len(body)
      BY <1>10, <2>1, <2>2
    <2>7. Shown(l) # <<>> => l.compact.script \in Table.scripts /\ lead > 0 /\ FindLanguage(body[1]) # None
      <3>1. lead > 0
        OBVIOUS
      <3>2. FindLanguage(body[1]) # None
        <4> HIDE DEF body
        <4> QED  BY <2>3, <2>4
      <3> HIDE DEF body, lead
      <3> QED  BY <1>4, <3>1, <3>2
    <2>8. lead > 0 /\ FindLanguage(body[1]) # None =>
            FindLanguage(body[1]) = l.compact.lang /\ (l.valid => l.compact.script = ScriptOf(l.compact.lang))
      BY <1>4, <2>3
    <2>9. Neutralises(Neutral(l), l)
      <3>1. lead # 2
        OBVIOUS
      <3> HIDE DEF body, lead
      <3> QED  BY <1>5, <2>2, <2>5, <2>6, <2>7, <2>8, <3>1, FromTheText
    <2> QED  BY <2>9 DEF l
  <1>12. CASE ~matched
    <2> DEFINE lead == Lead(l.map)
    <2>1. BodyOf(l) = t /\ l.compact.lang = first
      BY <1>2, <1>4, <1>9, <1>12
    <2>2. lead = IF Language \notin p.map THEN 0 ELSE IF Extlang \in p.map THEN 2 ELSE 1
      BY <1>4, <1>12
    <2>3. lead <= Len(t)
      <3>1. lead = 2 => Len(t) > 1
        BY <1>7, <1>8, <2>2
      <3> QED  BY <1>10, <2>2, <3>1
    <2>4. lead > 0 => FindLanguage(t[1]) = first
      BY <1>6, <1>8, <2>2
    <2>5. lead = 2 => /\ IsExtlang(t[2])
                      /\ t[2] \in DOMAIN Table.extlangs => Table.extlangs[t[2]] # FindLanguage(t[1])
      BY <1>7, <1>8, <1>12, <2>2
    <2>6. Shown(l) # <<>> => l.compact.script \in Table.scripts /\ lead > 0 /\ FindLanguage(t[1]) # None
      BY <1>4, <1>6, <1>8, <2>2
    <2>7. lead > 0 /\ FindLanguage(t[1]) # None =>
            FindLanguage(t[1]) = l.compact.lang /\ (l.valid => l.compact.script = ScriptOf(l.compact.lang))
      BY <1>4, <2>1, <2>4
    <2>8. Neutralises(Neutral(l), l)
      BY <1>5, <2>1, <2>3, <2>5, <2>6, <2>7, FromTheText
    <2> QED  BY <2>8 DEF l
  <1> QED  BY <1>11, <1>12

\* and of one that the tables give back,
LEMMA NeutralOfGiven ==
  ASSUME NEW t \in Seq(Subtag), LanguageOf(t).wellFormed, LanguageOf(t).text = <<>>,
         Validate(t) = ValidatePlain(Replaced(t), ParseTag(Replaced(t), Grandfathered(t)), Grandfathered(t))
  PROVE  Neutralises(Neutral(LanguageOf(t)), LanguageOf(t))
  <1> DEFINE v == Replaced(t)
             g == Grandfathered(t)
             p == ParseTag(v, g)
             l == LanguageOf(t)
             k == Validate(t)
             first == FirstOf(v, p)
             matched == ExtlangMatches(v, p, first)
  <1>0. WellFormedTag(p)
    BY WasParsed
  <1>1. v \in Seq(Subtag) /\ Shape(v, p, Len(v))
    BY <1>0, ParsedIs
  <1>2. ~KeepsText(k, IsSpecial(t))
    BY TextIs
  <1>3. /\ l.compact = k.compact /\ l.map = k.map /\ l.valid = k.valid /\ l.wellFormed = k.wellFormed
        /\ l.text = <<>> /\ l.wellFormed
    BY LanguageIs
  <1>4. /\ l.compact.lang = LangOf(v, p) /\ l.compact.variant = FindVariant(v, p, LangOf(v, p))
        /\ l.valid => l.compact.script = ScriptOf(l.compact.lang) /\ first # None
        /\ Shown(l) # <<>> => l.compact.script \in Table.scripts
        /\ Lead(l.map) = IF Language \notin p.map THEN 0 ELSE IF Extlang \in p.map /\ ~matched THEN 2 ELSE 1
        /\ l.extlang = IF Extlang \in p.map /\ ~matched THEN v[2] ELSE None
        /\ \A f \in Fields \ {Script, Extlang} : f \in l.map <=> f \in p.map
        /\ first # None => Language \in p.map
    BY <1>0, PlainOf
  <1>5. Language \in p.map => first = FindLanguage(v[1])
    BY DEF FirstOf
  <1>6. IsCompact(l.compact)
    BY CompactIs
  <1> HIDE DEF v, g, p, l, k
  <1>7. /\ Extlang \in p.map => Language \in p.map /\ IsExtlang(v[2]) /\ v[2] \in Subtag
                                /\ SubtagAt(v, p.start[Extlang]) = v[2]
        /\ matched <=> Extlang \in p.map /\ v[2] \in DOMAIN Table.extlangs /\ Table.extlangs[v[2]] = FindLanguage(v[1])
    BY <1>1, ShapedIs
  <1>8. LangOf(v, p) = IF matched THEN v[2] ELSE first
    BY <1>7 DEF LangOf
  <1> HIDE DEF first, matched
  <1>9. \A n \in DOMAIN Table.extlangs : n # None /\ Table.extlangs[n] # None
    BY TablesAre, TableAssumption, NamesAssumption
  <1>10. l.compact.lang # None /\ Variant \notin l.map
    <2>1. Variant \notin l.map /\ (l.valid \/ l.compact.lang # None)
      BY <1>2, <1>3 DEF KeepsText
    <2>2. l.valid => l.compact.lang # None
      BY <1>4, <1>7, <1>8, <1>9
    <2> QED  BY <2>1, <2>2
  <1>11. Language \in p.map
    BY <1>4, <1>7, <1>8, <1>10
  <1>12. first = FindLanguage(v[1])
    BY <1>5, <1>11
  <1>13. FindLanguage(l.compact.lang) = l.compact.lang
    <2>1. CASE matched
      BY <1>4, <1>7, <1>8, <2>1, FindLanguageIs
    <2>2. CASE ~matched
      <3>1. l.compact.lang = FindLanguage(v[1])
        BY <1>4, <1>8, <1>12, <2>2
      <3> QED  BY <1>10, <3>1, FindLanguageIs
    <2> QED  BY <2>1, <2>2
  <1>14. l.compact.variant = None
    <2>1. Variant \notin p.map
      <3>1. Variant \in Fields \ {Script, Extlang}
        BY DEF Variant, Fields, Script, Extlang
      <3> QED  BY <1>4, <1>10, <3>1
    <2> QED  BY <1>4, <2>1 DEF FindVariant
  <1>15. l.compact.lang \in Subtag /\ l.compact.region \in Subtag \cup {None}
    BY <1>6, <1>10, TablesAre DEF IsCompact
  <1>16. None \notin Subtag
    BY TableAssumption
  <1>17. /\ l.extlang \in Subtag \cup {None}
         /\ Lead(l.map) = IF l.extlang = None THEN 1 ELSE 2
         /\ l.extlang # None => IsExtlang(l.extlang)
    BY <1>4, <1>7, <1>11, <1>16
  <1>18. l.extlang # None /\ l.extlang \in DOMAIN Table.extlangs => Table.extlangs[l.extlang] # l.compact.lang
    <2> SUFFICES ASSUME l.extlang # None, l.extlang \in DOMAIN Table.extlangs
                 PROVE  Table.extlangs[l.extlang] # l.compact.lang
      OBVIOUS
    <2>1. Extlang \in p.map /\ ~matched /\ l.extlang = v[2]
      BY <1>4
    <2>2. l.compact.lang = FindLanguage(v[1])
      BY <1>4, <1>8, <1>12, <2>1
    <2> QED  BY <1>7, <2>1, <2>2
  <1>19. Neutralises(Neutral(l), l)
    BY <1>3, <1>4, <1>13, <1>14, <1>15, <1>17, <1>18, FromTheTables
  <1> QED  BY <1>19 DEF l

\* and so of any tag.
LEMMA NeutralIs ==
  ASSUME NEW t \in Seq(Subtag), LanguageOf(t).wellFormed
  PROVE  Neutralises(Neutral(LanguageOf(t)), LanguageOf(t))
  <1> DEFINE v == Replaced(t)
             g == Grandfathered(t)
             p == ParseTag(v, g)
             k == Validate(t)
  <1>1. WellFormedTag(p)
    BY WasParsed
  <1>2. \/ Form[v[1]].digits /\ k = Unknown(p, TRUE)
        \/ v \in DOMAIN Table.pseudo /\ k = PseudoLocale(p, Table.pseudo[v])
        \/ k = ValidatePlain(v, p, g)
    BY <1>1, LookedUp
  <1>3. CASE Form[v[1]].digits /\ k = Unknown(p, TRUE)
    BY <1>3, NeutralOfUnknown
  <1>4. CASE v \in DOMAIN Table.pseudo /\ k = PseudoLocale(p, Table.pseudo[v])
    BY <1>4, NeutralOfPseudo
  <1>5. CASE k = ValidatePlain(v, p, g)
    <2>1. CASE LanguageOf(t).text = <<>>
      BY <1>5, <2>1, NeutralOfGiven
    <2>2. CASE LanguageOf(t).text # <<>>
      BY <1>5, <2>2, NeutralOfKept
    <2> QED  BY <2>1, <2>2
  <1> QED  BY <1>2, <1>3, <1>4, <1>5

\* Reading the neutral form gives the language again, if any.
LEMMA ReadsNeutral ==
  ASSUME NEW l, NEW n, Neutralises(n, l), n \notin DOMAIN Table.grandfathered
  PROVE  LET m == LanguageOf(n)
         IN  /\ m.compact.lang \in {None, l.compact.lang}
             /\ m.valid => m.compact.lang = l.compact.lang /\ (l.valid => m.compact.script = l.compact.script)
  <1> DEFINE g == Grandfathered(n)
             p == ParseTag(n, g)
             k == Validate(n)
             m == LanguageOf(n)
             first == FirstOf(n, p)
             matched == ExtlangMatches(n, p, first)
  <1>1. Replaced(n) = n /\ n \in Seq(Subtag)
    BY DEF Replaced, Neutralises
  <1>2. m.compact = k.compact /\ m.valid = k.valid
    BY LanguageIs
  <1>3. CASE k \in {Unknown(p, FALSE), Unknown(p, TRUE)}
    <2>1. k.compact.lang = None /\ ~k.valid
      BY <1>3 DEF Unknown, NoLanguage
    <2> HIDE DEF k, m, p
    <2> QED  BY <1>2, <2>1 DEF m
  <1>4. n \notin DOMAIN Table.pseudo
    <2> SUFFICES ASSUME n \in DOMAIN Table.pseudo PROVE FALSE
      OBVIOUS
    <2>1. Len(n) > 1 /\ n[1] \notin Table.languages \cup DOMAIN Table.renamed /\ ~IsExtlang(n[2])
      BY NamesAssumption
    <2>2. FindLanguage(n[1]) = None
      BY <2>1 DEF FindLanguage, Lookup
    <2>3. n # <<>>
      BY <2>1
    <2> QED  BY <2>1, <2>2, <2>3 DEF Neutralises
  <1>5. CASE WellFormedTag(p) /\ k = ValidatePlain(n, p, g)
    <2>1. Shape(n, p, Len(n)) /\ n # <<>>
      BY <1>1, <1>5, ParsedIs
    <2>2. /\ m.compact.lang = LangOf(n, p)
          /\ m.valid => m.compact.script = ScriptOf(m.compact.lang) /\ first # None
          /\ first # None => Language \in p.map
      BY <1>1, <1>5, PlainOf
    <2>3. Language \in p.map => first = FindLanguage(n[1])
      BY DEF FirstOf
    <2> HIDE DEF p, m, k, g
    <2>4. /\ Extlang \in p.map => Len(n) > 1 /\ IsExtlang(n[2])
          /\ matched <=> Extlang \in p.map /\ n[2] \in DOMAIN Table.extlangs /\ Table.extlangs[n[2]] = FindLanguage(n[1])
      BY <1>1, <2>1, ShapedIs
    <2>5. ~matched
      BY <2>1, <2>4 DEF Neutralises
    <2>6. m.compact.lang = first
      BY <2>2, <2>5 DEF LangOf
    <2> HIDE DEF first, matched
    <2>7. first # None => first = l.compact.lang /\ (l.valid => l.compact.script = ScriptOf(l.compact.lang))
      BY <2>1, <2>2, <2>3 DEF Neutralises
    <2>8. m.compact.lang \in {None, l.compact.lang}
      BY <2>6, <2>7
    <2>9. m.valid => m.compact.lang = l.compact.lang /\ (l.valid => m.compact.script = l.compact.script)
      BY <2>2, <2>6, <2>7
    <2> QED  BY <2>8, <2>9 DEF m
  <1> QED  BY <1>1, <1>3, <1>4, <1>5, LookedUp

-----------------------------------------------------------------------------
(***************************************************************************)
(* The package a candidate goes to.                                        *)
(***************************************************************************)
\* Languages that are close enough are valid and have the script in common.
LEMMA CloseIs ==
  ASSUME NEW l, NEW m, Compare(l, m) >= 75
  PROVE  l.valid /\ m.valid /\ l.compact.lang = m.compact.lang /\ l.compact.script = m.compact.script
  <1> DEFINE c == Closeness(l, m)
             d == IF DifferentPseudo(l, m) THEN Lowered[c] ELSE c
  <1>1. l.valid /\ m.valid
    <2>1. ~(0 >= 75)
      OBVIOUS
    <2> QED  BY <2>1 DEF Compare
  <1>2. Compare(l, m) = Raised({l, m})[d]
    BY <1>1 DEF Compare
  <1>3. c \in Closenesses
    BY ClosenessIs
  <1>4. c \in Int /\ 0 <= c /\ c <= 100
    BY <1>3 DEF Closenesses
  <1>5. Lowered[c] \in Closenesses /\ Lowered[c] <= 40
    BY <1>3, <1>4 DEF Lowered, Closenesses
  <1>6. d \in Closenesses
    BY <1>3, <1>5
  <1> DEFINE any == \E k \in {l, m} : IsAny(k)
             wide == \E k \in {l, m} : k.compact.script \in AnyScript
  <1>7. d >= 75
    <2> HIDE DEF d
    <2>1. d \in Int /\ 0 <= d /\ d <= 100
      BY <1>6 DEF Closenesses
    <2>2. Raised({l, m})[d] = IF d > 65 \/ ~any THEN d ELSE IF d = 40 THEN 65 ELSE IF d < 60 /\ wide THEN 60 ELSE d
      BY <1>6 DEF Raised
    <2> HIDE DEF any, wide
    <2>3. Raised({l, m})[d] >= 75
      BY <1>2
    <2> QED  BY <2>1, <2>2, <2>3
  <1>8. c >= 75
    <2>1. CASE DifferentPseudo(l, m)
      <3>1. d = Lowered[c]
        BY <2>1
      <3>2. Lowered[c] \in Int
        BY <1>5 DEF Closenesses
      <3> HIDE DEF c, d
      <3> QED  BY <1>5, <1>7, <3>1, <3>2
    <2>2. CASE ~DifferentPseudo(l, m)
      BY <1>7, <2>2
    <2> QED  BY <2>1, <2>2
  <1>9. l.compact.lang = m.compact.lang /\ l.compact.script = m.compact.script
    <2> SUFFICES ASSUME ~(l.compact.lang = m.compact.lang /\ l.compact.script = m.compact.script)
                 PROVE  FALSE
      OBVIOUS
    <2>1. c \in {50, 40, 10, 0}
      BY DEF Closeness
    <2> HIDE DEF c
    <2> QED  BY <1>8, <2>1
  <1> QED  BY <1>1, <1>9

\* The score of a list of one language, which is the best where the two are
\* equal, and none where they are not close.
LEMMA AloneIs ==
  ASSUME NEW l, NEW m
  PROVE  /\ Alone(l, m) \in Nat /\ Alone(l, m) <= 2000
         /\ Alone(l, m) = 2000 <=> Compare(l, m) = 100
         /\ Alone(l, m) > 0 /\ ~IsAny(l) => Compare(l, m) >= 75
  <1> DEFINE c == Comparison(l, m)
             d == Compare(l, m)
  <1>1. c \in Closenesses /\ (~IsAny(l) => c = d) /\ d \in Closenesses
    BY ComparisonIs, CompareIs
  <1>2. c = IF ~IsAny(l) THEN d ELSE IF d = 40 THEN 65 ELSE IF l.compact.script \in AnyScript /\ d < 60 THEN 60 ELSE d
    BY <1>1 DEF Comparison, Adjusted
  <1>3. Score(1)[c] = IF c < 50 THEN 0 ELSE 2 * c + 1800
    <2> HIDE DEF c
    <2> QED  BY <1>1 DEF Score
  <1>4. Alone(l, m) = IF c >= 75 \/ IsAny(l) THEN Score(1)[c] ELSE 0
    BY <1>1 DEF Alone
  <1> HIDE DEF c, d
  <1>5. c \in Int /\ 0 <= c /\ c <= 100 /\ d \in Int /\ 0 <= d /\ d <= 100
    BY <1>1 DEF Closenesses
  <1>6. Score(1)[c] \in Nat /\ Score(1)[c] <= 2000 /\ (Score(1)[c] = 2000 <=> c = 100)
    BY <1>3, <1>5
  <1>7. c = 100 <=> d = 100
    BY <1>2, <1>5
  <1>8. Alone(l, m) \in Nat /\ Alone(l, m) <= 2000 /\ (Alone(l, m) = 2000 <=> d = 100)
    BY <1>4, <1>5, <1>6, <1>7
  <1>9. Alone(l, m) > 0 /\ ~IsAny(l) => d >= 75
    BY <1>1, <1>4
  <1> QED  BY <1>8, <1>9 DEF d

\* What _GetClosestLanguageInList compares,
Scores(l) == [i \in DOMAIN list |-> Alone(l, listed[i])]

\* and that it finds the first of the best.
LEMMA ClosestIs ==
  ASSUME NEW l
  PROVE  list \in Seq(Seq(Subtag)) => Closest(l) \in 0 .. Len(list) /\ IsBest(Closest(l), Len(list), Scores(l))
  <1> DEFINE n == Len(list)
             s == Scores(l)
             best == CHOOSE k \in 0 .. n : IsBest(k, n, s)
  <1>0. SUFFICES ASSUME list \in Seq(Seq(Subtag))
                 PROVE  Closest(l) \in 0 .. Len(list) /\ IsBest(Closest(l), Len(list), Scores(l))
    OBVIOUS
  <1>1. n \in Nat /\ DOMAIN list = 1 .. n
    BY <1>0
  <1> HIDE DEF n
  <1>2. s \in [1 .. n -> Nat] /\ \A i \in 1 .. n : s[i] <= 2000
    <2>1. ASSUME NEW i \in DOMAIN list
          PROVE  s[i] \in Nat /\ s[i] <= 2000
      <3>1. Alone(l, listed[i]) \in Nat /\ Alone(l, listed[i]) <= 2000
        BY AloneIs
      <3>2. s[i] = Alone(l, listed[i])
        BY DEF Scores
      <3> HIDE DEF s
      <3> QED  BY <3>1, <3>2
    <2>2. s = [i \in DOMAIN list |-> s[i]]
      BY DEF Scores
    <2> HIDE DEF s
    <2>3. \A i \in 1 .. n : s[i] \in Nat /\ s[i] <= 2000
      BY <1>1, <2>1
    <2>4. s = [i \in 1 .. n |-> s[i]]
      BY <1>1, <2>2
    <2> QED  BY <2>3, <2>4
  <1> HIDE DEF s, best
  <1>3. \E k \in 0 .. n : IsBest(k, n, s)
    <2>1. SUFFICES ASSUME NEW m, m = n, NEW r, r = s, NEW top, top = 2000
                   PROVE  \E k \in 0 .. m : IsBest(k, m, r)
      OBVIOUS
    <2>2. m \in Nat /\ r \in [1 .. m -> Nat] /\ top \in Nat
      BY <1>1, <1>2, <2>1
    <2>3. \A i \in 1 .. m : r[i] <= top
      BY <1>2, <2>1
    <2> QED  BY <2>2, <2>3, BestExists
  <1>4. best \in 0 .. n /\ IsBest(best, n, s)
    BY <1>3 DEF best
  <1>5. \A k \in 0 .. n :
          IsBest(k, n, s) <=>
            \E score \in {[i \in DOMAIN list |-> Alone(l, listed[i])]} :
              IF k = 0 THEN \A i \in DOMAIN list : score[i] = 0
              ELSE /\ score[k] > 0
                   /\ \A i \in DOMAIN list : score[i] < score[k] \/ (score[i] = score[k] /\ k <= i)
    <2> TAKE k \in 0 .. n
    <2>1. s = [i \in DOMAIN list |-> Alone(l, listed[i])]
      BY DEF Scores, s
    <2> DEFINE S == [i \in DOMAIN list |-> Alone(l, listed[i])]
    <2>2. s = S
      BY <2>1
    <2> HIDE DEF S
    <2>3. IsBest(k, n, S) <=>
            \E score \in {S} :
              IF k = 0 THEN \A i \in DOMAIN list : score[i] = 0
              ELSE /\ score[k] > 0
                   /\ \A i \in DOMAIN list : score[i] < score[k] \/ (score[i] = score[k] /\ k <= i)
      BY <1>1 DEF IsBest
    <2> QED  BY <2>2, <2>3 DEF S
  <1>6. Closest(l) = best
    BY <1>5 DEF Closest, best, n
  <1> QED  BY <1>4, <1>6 DEF n, s

\* The languages are those of their tags, and a package is only chosen for a
\* language that has been read.
PackagesInv ==
  /\ read => language = LanguageOf(tag)
  /\ \A i \in DOMAIN list : i \in DOMAIN listed /\ listed[i] = LanguageOf(list[i])
  /\ affinity # <<>> => read
  /\ GoesToItsPackage

\* The name the value i of the list gives to the package is one of the
\* language l.
Fits(l, i) ==
  IsAny(l) \/ (listed[i].compact.lang = l.compact.lang /\ (l.valid => listed[i].compact.script = l.compact.script))

\* So it is of the value that is closest,
LEMMA ClosestFits ==
  ASSUME NEW l, list \in Seq(Seq(Subtag)), Closest(l) # 0
  PROVE  Closest(l) \in DOMAIN list /\ (IsAny(l) \/ Compare(l, listed[Closest(l)]) >= 75) /\ Fits(l, Closest(l))
  <1> DEFINE k == Closest(l)
  <1>1. k \in 0 .. Len(list) /\ IsBest(k, Len(list), Scores(l))
    BY ClosestIs
  <1>2. k \in DOMAIN list /\ Scores(l)[k] > 0
    BY <1>1 DEF IsBest
  <1> HIDE DEF k
  <1>3. Scores(l)[k] = Alone(l, listed[k])
    BY <1>2 DEF Scores
  <1>4. Alone(l, listed[k]) > 0
    BY <1>2, <1>3
  <1>5. IsAny(l) \/ Compare(l, listed[k]) >= 75
    BY <1>4, AloneIs
  <1>6. Fits(l, k)
    BY <1>5, CloseIs DEF Fits
  <1> QED  BY <1>2, <1>5, <1>6 DEF k

\* and that of its neutral form fits the language too, unless that is a tag of
\* another kind.
LEMMA NeutralFits ==
  ASSUME NEW t \in Seq(Subtag), LanguageOf(t).wellFormed, list \in Seq(Seq(Subtag)),
         Neutral(LanguageOf(t)) \notin DOMAIN Table.grandfathered,
         NEW k, k = Closest(LanguageOf(Neutral(LanguageOf(t)))), k # 0
  PROVE  Fits(LanguageOf(t), k)
  <1> DEFINE l == LanguageOf(t)
             m == LanguageOf(Neutral(l))
  <1>1. k \in DOMAIN list /\ (IsAny(m) \/ Compare(m, listed[k]) >= 75) /\ Fits(m, k)
    BY ClosestFits
  <1>2. Neutralises(Neutral(l), l)
    BY NeutralIs
  <1>3. /\ m.compact.lang \in {None, l.compact.lang}
        /\ m.valid => m.compact.lang = l.compact.lang /\ (l.valid => m.compact.script = l.compact.script)
    BY <1>2, ReadsNeutral
  <1> HIDE DEF l, m
  <1>4. CASE IsAny(m)
    <2>1. Undetermined # None
      BY DEF Undetermined, None
    <2>2. IsAny(l)
      BY <1>3, <1>4, <2>1 DEF IsAny
    <2> QED  BY <2>2 DEF Fits, l
  <1>5. CASE ~IsAny(m)
    <2>1. m.valid
      BY <1>1, <1>5, CloseIs
    <2>2. Fits(l, k)
      BY <1>1, <1>3, <1>5, <2>1 DEF Fits
    <2> QED  BY <2>2 DEF l
  <1> QED  BY <1>4, <1>5

\* The values of the list have been parsed,
AreParsed == list \in Seq(Seq(Subtag)) /\ \A i \in DOMAIN list : listed[i] = LanguageOf(list[i])

\* and the value i is equal to the language l.
IsSame(l, i) == i \in DOMAIN list /\ Compare(l, listed[i]) = 100

\* If a value is equal to the language the closest is.
LEMMA SameIsClosest ==
  ASSUME NEW l, NEW j, AreParsed, IsSame(l, j)
  PROVE  Closest(l) # 0 /\ IsSame(l, Closest(l)) /\ Alone(l, listed[Closest(l)]) = 2000
  <1> DEFINE k == Closest(l)
             s == Scores(l)
             n == Len(list)
  <1>0. SUFFICES ASSUME list \in Seq(Seq(Subtag)), \A i \in DOMAIN list : listed[i] = LanguageOf(list[i]),
                        j \in DOMAIN list, Compare(l, listed[j]) = 100
                 PROVE  k # 0 /\ k \in DOMAIN list /\ Compare(l, listed[k]) = 100 /\ Alone(l, listed[k]) = 2000
    BY DEF AreParsed, IsSame
  <1>1. k \in 0 .. n /\ IsBest(k, n, s)
    BY <1>0, ClosestIs
  <1>2. \A i \in DOMAIN list : s[i] = Alone(l, listed[i])
    BY DEF Scores
  <1>4. s[j] = 2000
    <2>1. Alone(l, listed[j]) = 2000
      BY <1>0, AloneIs
    <2>2. s[j] = Alone(l, listed[j])
      BY <1>0, <1>2
    <2> QED  BY <2>1, <2>2
  <1>5. n \in Nat /\ DOMAIN list = 1 .. n
    BY <1>0
  <1>6. j \in 1 .. n
    BY <1>0, <1>5
  <1> HIDE DEF k, s, n
  <1>7. k # 0 /\ k \in 1 .. n /\ (s[j] < s[k] \/ s[j] = s[k])
    <2>1. s[j] > 0
      BY <1>4
    <2> QED  BY <1>1, <1>5, <1>6, <2>1, BestBeats
  <1>8. k \in DOMAIN list
    BY <1>5, <1>7
  <1>9. Alone(l, listed[k]) = 2000
    <2>1. s[k] = Alone(l, listed[k])
      BY <1>2, <1>8
    <2>2. Alone(l, listed[k]) \in Nat /\ Alone(l, listed[k]) <= 2000
      BY AloneIs
    <2> QED  BY <1>4, <1>7, <2>1, <2>2
  <1>10. Compare(l, listed[k]) = 100
    BY <1>9, AloneIs
  <1> QED  BY <1>7, <1>8, <1>9, <1>10

\* PackagesInv holds at first.
LEMMA PackagesInvInit ==
  ASSUME Init
  PROVE  PackagesInv
  BY DEF Init, PackagesInv, GoesToItsPackage

\* A package is chosen as it should be.
LEMMA PackageChosen ==
  ASSUME TypeInv, PackagesInv, GetPackagingInfo
  PROVE  GoesToItsPackage'
  <1>1. /\ read /\ language.wellFormed /\ affinity' # <<>>
        /\ UNCHANGED <<tag, list, language, listed>>
    BY DEF GetPackagingInfo
  <1>2. list \in Seq(Seq(Subtag)) /\ tag \in Seq(Subtag)
    BY TagsAssumption DEF TypeInv
  <1>3. language = LanguageOf(tag) /\ \A i \in DOMAIN list : listed[i] = LanguageOf(list[i])
    BY <1>1 DEF PackagesInv
  <1>4. PICK fallback \in BOOLEAN, split \in BOOLEAN : affinity' \in Affinities(fallback, split)
    BY DEF GetPackagingInfo
  <1> DEFINE same == {i \in DOMAIN list : Compare(language, listed[i]) = 100}
             n == Neutral(language)
             of == {language} \cup {LanguageOf(x) : x \in {n} \cap DOMAIN Table.grandfathered}
             exact == Closest(language)
             neutral == Closest(LanguageOf(n))
  <1>5. SUFFICES ASSUME affinity' \notin {<<>>, Default}, list # <<>>
                 PROVE  /\ same # {} => affinity' \in {list[i] : i \in same}
                        /\ \E l \in of :
                             IsAny(l) \/ \E i \in DOMAIN list :
                               /\ list[i] = affinity' /\ listed[i].compact.lang = l.compact.lang
                               /\ l.valid => listed[i].compact.script = l.compact.script
    BY <1>1 DEF GoesToItsPackage
  <1>6. affinity' \in Decide(exact, neutral)
    BY <1>4, <1>5 DEF Affinities
  <1>7. same # {} => exact # 0 /\ exact \in same /\ Alone(language, listed[exact]) = 2000
    <2>1. SUFFICES ASSUME NEW j \in DOMAIN list, Compare(language, listed[j]) = 100
                   PROVE  exact # 0 /\ exact \in same /\ Alone(language, listed[exact]) = 2000
      OBVIOUS
    <2>2. AreParsed
      BY <1>2, <1>3 DEF AreParsed
    <2>3. IsSame(language, j)
      BY <2>1 DEF IsSame
    <2>4. exact # 0 /\ IsSame(language, exact) /\ Alone(language, listed[exact]) = 2000
      BY <2>2, <2>3, SameIsClosest
    <2>5. exact \in DOMAIN list /\ Compare(language, listed[exact]) = 100
      BY <2>4 DEF IsSame
    <2> HIDE DEF exact
    <2> QED  BY <2>4, <2>5
  <1>8. PICK i \in {exact, neutral} \ {0} :
          affinity' = list[i] /\ (exact # 0 /\ Alone(language, listed[exact]) = 2000 => i = exact)
    <2> HIDE DEF exact, neutral
    <2> QED  BY <1>5, <1>6 DEF Decide
  <1>9. same # {} => affinity' \in {list[j] : j \in same}
    BY <1>7, <1>8
  <1>10. \E l \in of : i \in DOMAIN list /\ Fits(l, i)
    <2>1. CASE i = exact
      <3>1. i \in DOMAIN list /\ Fits(language, i)
        BY <1>2, <1>8, <2>1, ClosestFits
      <3> QED  BY <3>1
    <2>2. CASE i = neutral /\ n \in DOMAIN Table.grandfathered
      <3>1. i \in DOMAIN list /\ Fits(LanguageOf(n), i)
        BY <1>2, <1>8, <2>2, ClosestFits
      <3> QED  BY <2>2, <3>1
    <2>3. CASE i = neutral /\ n \notin DOMAIN Table.grandfathered
      <3>1. i \in DOMAIN list
        BY <1>2, <1>8, <2>3, ClosestFits
      <3>2. Fits(LanguageOf(tag), i)
        BY <1>1, <1>2, <1>3, <1>8, <2>3, NeutralFits
      <3> QED  BY <1>3, <3>1, <3>2
    <2> QED  BY <1>8, <2>1, <2>2, <2>3
  <1>11. PICK l \in of : i \in DOMAIN list /\ Fits(l, i)
    BY <1>10
  <1> HIDE DEF of, same
  <1> QED  BY <1>8, <1>9, <1>11 DEF Fits

\* PackagesInv is inductive.
LEMMA PackagesInvNext ==
  ASSUME TypeInv, PackagesInv, [Next]_vars
  PROVE  PackagesInv'
  <1>1. CASE ReadSubtag
    BY <1>1 DEF ReadSubtag, PackagesInv, GoesToItsPackage
  <1>2. CASE Construct
    <2>1. /\ ~read /\ read' /\ language' = LanguageOf(tag) /\ listed' = [i \in DOMAIN list' |-> Listed[list'[i]]]
          /\ UNCHANGED <<tag, affinity>> /\ list' \in Lists \cup {<<>>}
      BY <1>2 DEF Construct
    <2>2. affinity = <<>>
      BY <2>1 DEF PackagesInv
    <2>3. ASSUME NEW i \in DOMAIN list'
          PROVE  i \in DOMAIN listed' /\ (listed')[i] = LanguageOf(list'[i])
      <3>1. list' \in Lists
        BY <2>1
      <3>2. list'[i] \in UNION {ToSet(l) : l \in Lists}
        BY <3>1 DEF ToSet
      <3>3. Listed[list'[i]] = LanguageOf(list'[i])
        BY <3>2 DEF Listed
      <3> QED  BY <2>1, <3>3
    <2> QED  BY <2>1, <2>2, <2>3 DEF PackagesInv, GoesToItsPackage
  <1>3. CASE FindClosest
    BY <1>3 DEF FindClosest, PackagesInv, GoesToItsPackage
  <1>4. CASE GetPackagingInfo
    <2>1. GoesToItsPackage'
      BY <1>4, PackageChosen
    <2>2. read /\ UNCHANGED <<tag, list, read, language, listed>>
      BY <1>4 DEF GetPackagingInfo
    <2> QED  BY <2>1, <2>2 DEF PackagesInv
  <1>5. CASE UNCHANGED vars
    BY <1>5 DEF vars, PackagesInv, GoesToItsPackage
  <1> QED  BY <1>1, <1>2, <1>3, <1>4, <1>5 DEF Next

\* A candidate goes to the package of its language: of exactly that if there
\* is one, and otherwise of its language and script, or of the language and
\* script of a neutral form that has a meaning of its own.
THEOREM PackageFound == Spec => []GoesToItsPackage
  <1>1. PackagesInv => GoesToItsPackage
    BY DEF PackagesInv
  <1> QED  BY TypeInvInit, TypeInvNext, PackagesInvInit, PackagesInvNext, <1>1, PTL DEF Spec

=============================================================================
