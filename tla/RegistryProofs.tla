--------------------------- MODULE RegistryProofs ---------------------------
(***************************************************************************)
(* Proofs about Registry, for any ids, names, repositories and callers     *)
(* (finite or not), any capacity, page length and clock; and, in the last  *)
(* part, about ProjectSnapshot, the cards of the registered projects.      *)
(***************************************************************************)
EXTENDS Registry, ProjectSnapshot, FiniteSetTheorems, WellFoundedInduction, TLAPS

(***************************************************************************)
(* The inductive invariant.  That a retirement is not before the           *)
(* registration, although both times are read before the lock, needs to    *)
(* know that the id of a retirement was read from a row that was there     *)
(* then; that events match rows, that no two calls register the same id.   *)
(* A pass has listed what comes up to its cursor, and an entry that was    *)
(* there throughout is listed or still to come.                            *)
(***************************************************************************)
CallsInv ==
  /\ \A c \in Callers :
       /\ call[c].op # "none" => call[c].id \in Ids /\ call[c].at \in 1 .. clock
       /\ call[c].op = "register" => call[c].id \notin Rows
       /\ call[c].op = "retire" => call[c].id \in Rows /\ entry[call[c].id].created <= call[c].at
  /\ \A c, d \in Callers :
       call[c].op = "register" /\ call[d].op = "register" /\ call[c].id = call[d].id => c = d

RowsInv ==
  /\ IsFiniteSet(Rows)
  /\ \A id \in Rows : entry[id].created \in 1 .. clock

PassInv ==
  /\ throughout \subseteq Matching(entry, pass.filter)
  /\ IsFiniteSet(pass.seen) /\ pass.listed = Cardinality(pass.seen)
  /\ pass.pc = "running" =>
       /\ \A id \in pass.seen : id \in Rows /\ ~After(Key(id), pass.cursor)
       /\ \A id \in throughout : After(Key(id), pass.cursor) \/ id \in pass.seen
  /\ pass.pc = "complete" => throughout \subseteq pass.seen
  /\ pass.pc = "stale" => pass.cursor # NoCursor

IInv ==
  /\ TypeOK
  /\ CallsInv
  /\ RowsInv
  /\ Cardinality(Active) <= Cap
  /\ \A a, b \in Active :
       entry[a].name = entry[b].name \/ entry[a].repository = entry[b].repository => a = b
  /\ EventsMatchRows
  /\ PassInv

-----------------------------------------------------------------------------
(* Order.  A finite set has an element with none beyond it: the sets of    *)
(* what is beyond an element cannot get smaller for ever.                  *)
LEMMA FiniteHasLast ==
  ASSUME NEW S, IsFiniteSet(S), S # {}, NEW R,
         \A x \in S : <<x, x>> \notin R,
         \A x, y, z \in S : <<x, y>> \in R /\ <<y, z>> \in R => <<x, z>> \in R
  PROVE  \E x \in S : \A y \in S : <<x, y>> \notin R
<1> DEFINE Beyond(x) == {y \in S : <<x, y>> \in R}
           T == {Beyond(x) : x \in S}
<1>1. T \subseteq FiniteSubsetsOf(S) /\ T # {}
  <2>1. ASSUME NEW x \in S PROVE Beyond(x) \in FiniteSubsetsOf(S)
    <3>1. Beyond(x) \subseteq S
      OBVIOUS
    <3>2. IsFiniteSet(Beyond(x))
      BY <3>1, FS_Subset
    <3> QED
      BY <3>1, <3>2 DEF FiniteSubsetsOf
  <2>2. \A t \in T : t \in FiniteSubsetsOf(S)
    BY <2>1
  <2>3. \A x \in S : Beyond(x) \in T
    OBVIOUS
  <2> QED
    BY <2>2, <2>3
<1>2. IsWellFoundedOn(StrictSubsetOrdering(S), FiniteSubsetsOf(S))
  BY FS_StrictSubsetOrderingWellFounded
<1>3. PICK least \in T : \A other \in T : <<other, least>> \notin StrictSubsetOrdering(S)
  <2> HIDE DEF T
  <2> QED
    BY <1>1, <1>2, WFMin
<1>4. PICK x \in S : least = Beyond(x)
  BY <1>3
<1>5. ASSUME NEW y \in S, <<x, y>> \in R PROVE FALSE
  <2>1. Beyond(y) \subseteq Beyond(x) /\ y \in Beyond(x) /\ y \notin Beyond(y)
    BY <1>5
  <2>2. <<Beyond(y), Beyond(x)>> \in StrictSubsetOrdering(S)
    BY <2>1 DEF StrictSubsetOrdering
  <2> QED
    BY <1>3, <1>4, <2>2
<1> QED
  BY <1>5

LEMMA OrderFacts ==
  ASSUME TypeOK
  PROVE  /\ \A a \in Ids : ~Before(a, a) /\ After(Key(a), NoCursor)
         /\ \A a, b \in Ids : a = b \/ Before(a, b) \/ Before(b, a)
         /\ \A a, b, c \in Ids : Before(a, b) /\ Before(b, c) => Before(a, c)
         /\ \A a, b \in Ids : After(Key(a), Key(b)) <=> Before(b, a)
         /\ \A a, b \in Ids : Before(a, b) /\ After(Key(a), pass.cursor) => After(Key(b), pass.cursor)
         /\ \A a \in Ids : Key(a) \in (0 .. MaxClock) \X (Ids \cup {0}) /\ Key(a) # NoCursor
<1>1. \A a \in Ids : a \in Nat \ {0} /\ entry[a].created \in 0 .. MaxClock
  BY BoundsAssumption DEF TypeOK, Entries
<1>2. pass.cursor \in (0 .. MaxClock) \X (Ids \cup {0}) /\ MaxClock \in Nat
  BY BoundsAssumption DEF TypeOK
<1>3. pass.cursor[1] \in Nat /\ pass.cursor[2] \in Nat
  <2>1. PICK a \in 0 .. MaxClock, b \in Ids \cup {0} : pass.cursor = <<a, b>>
    BY <1>2
  <2> QED
    BY <1>2, <2>1, BoundsAssumption
<1> QED
  BY <1>1, <1>2, <1>3 DEF Before, After, Key, NoCursor

(* A page that leaves something out ends before all that it leaves out.    *)
LastOf(page) == CHOOSE id \in page : \A other \in page : ~Before(id, other)

LEMMA PageFacts ==
  ASSUME TypeOK, NEW found \in SUBSET Ids, IsFiniteSet(found), First(found) # found
  PROVE  /\ LastOf(First(found)) \in First(found)
         /\ \A id \in First(found) : ~Before(LastOf(First(found)), id)
         /\ \A id \in found \ First(found) : Before(LastOf(First(found)), id)
<1> DEFINE page == First(found)
           smaller(id) == {other \in found : Before(other, id)}
           last == LastOf(page)
<1>1. page \subseteq found /\ IsFiniteSet(page)
  BY FS_Subset DEF First
<1>2. \A id \in found : IsFiniteSet(smaller(id)) /\ Cardinality(smaller(id)) \in Nat
  BY FS_Subset, FS_CardinalityType
<1>3. \A id \in found : id \in page <=> Cardinality(smaller(id)) < Limit
  BY DEF First
<1>4. page # {}
  <2> DEFINE R == {pair \in found \X found : Before(pair[2], pair[1])}
  <2>1. \A x \in found : <<x, x>> \notin R
    BY OrderFacts
  <2>2. \A x, y, z \in found : <<x, y>> \in R /\ <<y, z>> \in R => <<x, z>> \in R
    BY OrderFacts
  <2>3. found # {}
    BY <1>1
  <2>4. PICK id \in found : \A other \in found : <<id, other>> \notin R
    <3> HIDE DEF R
    <3> QED
      BY <2>1, <2>2, <2>3, FiniteHasLast
  <2>5. smaller(id) = {}
    BY <2>4
  <2>6. Cardinality(smaller(id)) = 0
    BY <2>5, FS_EmptySet
  <2> QED
    BY <1>3, <2>6, BoundsAssumption
<1>5. \E id \in page : \A other \in page : ~Before(id, other)
  <2> DEFINE R == {pair \in page \X page : Before(pair[1], pair[2])}
  <2>1. \A x \in page : <<x, x>> \notin R
    BY <1>1, OrderFacts
  <2>2. \A x, y, z \in page : <<x, y>> \in R /\ <<y, z>> \in R => <<x, z>> \in R
    BY <1>1, OrderFacts
  <2>3. PICK id \in page : \A other \in page : <<id, other>> \notin R
    <3> HIDE DEF R
    <3> QED
      BY <1>1, <1>4, <2>1, <2>2, FiniteHasLast
  <2> QED
    BY <2>3
<1>6. last \in page /\ \A id \in page : ~Before(last, id)
  BY <1>5 DEF LastOf
<1>7. ASSUME NEW id \in found \ page, ~Before(last, id) PROVE FALSE
  <2>1. Before(id, last)
    BY <1>1, <1>6, <1>7, OrderFacts
  <2>2. smaller(id) \subseteq smaller(last)
    BY <1>1, <1>6, <2>1, OrderFacts
  <2>3. Cardinality(smaller(id)) <= Cardinality(smaller(last))
    BY <1>1, <1>2, <1>6, <2>2, FS_Subset
  <2>4. id \in found /\ last \in found
    BY <1>1, <1>6
  <2>5. ~(Cardinality(smaller(id)) < Limit) /\ Cardinality(smaller(last)) < Limit
    BY <1>3, <1>6, <1>7, <2>4
  <2>6. Cardinality(smaller(id)) \in Nat /\ Cardinality(smaller(last)) \in Nat /\ Limit \in Nat
    BY <1>2, <2>4, BoundsAssumption
  <2> HIDE DEF smaller
  <2> QED
    BY <2>3, <2>5, <2>6
<1> QED
  BY <1>6, <1>7

-----------------------------------------------------------------------------
(* What the two transactions do to the rows when they succeed.             *)
Enters(c, name, repository) ==
  LET id == call[c].id IN
  /\ Room /\ Free(name, repository)
  /\ entry' = [entry EXCEPT ![id] =
       [status |-> "ACTIVE", name |-> name, repository |-> repository,
        created |-> call[c].at, retired |-> 0]]
  /\ events' = events \cup {<<"PROJECT_REGISTERED", id, call[c].at>>}

Leaves(c) ==
  LET id == call[c].id IN
  /\ entry[id].status = "ACTIVE"
  /\ entry' = [entry EXCEPT ![id].status = "RETIRED", ![id].retired = call[c].at]
  /\ events' = events \cup {<<"PROJECT_RETIRED", id, call[c].at>>}

LEMMA EntersFacts ==
  ASSUME TypeOK, CallsInv, NEW c \in Callers, call[c].op = "register",
         NEW name \in Names, NEW repository \in Repositories, Enters(c, name, repository)
  PROVE  LET id == call[c].id IN
         /\ id \in Ids /\ id \notin Rows /\ call[c].at \in 1 .. clock
         /\ entry' \in [Ids -> Entries]
         /\ entry'[id].created = call[c].at /\ entry'[id].status = "ACTIVE"
         /\ entry'[id].name = name /\ entry'[id].repository = repository
         /\ \A other \in Ids \ {id} : entry'[other] = entry[other]
         /\ Rows' = Rows \cup {id} /\ Active' = Active \cup {id}
         /\ Rows' \ Active' = Rows \ Active
<1> DEFINE id == call[c].id
           new == [status |-> "ACTIVE", name |-> name, repository |-> repository,
                   created |-> call[c].at, retired |-> 0]
<1>1. id \in Ids /\ id \notin Rows /\ call[c].at \in 1 .. clock /\ clock \in 1 .. MaxClock
  BY DEF CallsInv, TypeOK
<1>2. new \in Entries
  BY <1>1, BoundsAssumption DEF Entries
<1>3. entry' = [entry EXCEPT ![id] = new]
  BY DEF Enters
<1>4. /\ entry' \in [Ids -> Entries] /\ entry'[id] = new
      /\ \A other \in Ids \ {id} : entry'[other] = entry[other]
  BY <1>1, <1>2, <1>3 DEF TypeOK
<1>5. Rows' = Rows \cup {id} /\ Active' = Active \cup {id}
  BY <1>1, <1>4 DEF Rows, Active
<1>6. Rows' \ Active' = Rows \ Active
  BY <1>1, <1>5
<1> QED
  BY <1>1, <1>4, <1>5, <1>6

LEMMA LeavesFacts ==
  ASSUME TypeOK, CallsInv, NEW c \in Callers, call[c].op = "retire", Leaves(c)
  PROVE  LET id == call[c].id IN
         /\ id \in Ids /\ id \in Active /\ call[c].at \in 1 .. clock
         /\ entry[id].created <= call[c].at
         /\ entry' \in [Ids -> Entries]
         /\ entry'[id].retired = call[c].at /\ entry'[id].created = entry[id].created
         /\ entry'[id].status = "RETIRED"
         /\ \A other \in Ids \ {id} : entry'[other] = entry[other]
         /\ Rows' = Rows /\ Active' = Active \ {id}
         /\ Rows' \ Active' = (Rows \ Active) \cup {id}
<1> DEFINE id == call[c].id
           new == [entry[id] EXCEPT !.status = "RETIRED", !.retired = call[c].at]
<1>1. /\ id \in Ids /\ call[c].at \in 1 .. clock /\ clock \in 1 .. MaxClock
      /\ entry[id].status = "ACTIVE" /\ entry[id].created <= call[c].at
      /\ entry[id] \in Entries
  BY DEF CallsInv, TypeOK, Leaves
<1>2. new \in Entries /\ new.created = entry[id].created /\ new.retired = call[c].at
      /\ new.status = "RETIRED"
  <2>1. call[c].at \in 0 .. MaxClock
    BY <1>1, BoundsAssumption
  <2>2. ASSUME NEW e \in Entries, NEW t \in 0 .. MaxClock
        PROVE  LET f == [e EXCEPT !.status = "RETIRED", !.retired = t] IN
               /\ f \in Entries /\ f.created = e.created /\ f.retired = t /\ f.status = "RETIRED"
    BY DEF Entries
  <2> QED
    BY <1>1, <2>1, <2>2
<1>3. entry' = [entry EXCEPT ![id] = new]
  BY <1>1 DEF Leaves, TypeOK
<1> HIDE DEF new
<1>4. /\ entry' \in [Ids -> Entries] /\ entry'[id] = new
      /\ \A other \in Ids \ {id} : entry'[other] = entry[other]
  BY <1>1, <1>2, <1>3 DEF TypeOK
<1>5. Rows' = Rows /\ Active' = Active \ {id} /\ id \in Active /\ id \in Rows
  BY <1>1, <1>2, <1>4 DEF Rows, Active
<1>6. Rows' \ Active' = (Rows \ Active) \cup {id}
  BY <1>5
<1> QED
  BY <1>1, <1>2, <1>4, <1>5, <1>6

LEMMA RegisterFacts ==
  ASSUME NEW c \in Callers, NEW name \in Names, NEW repository \in Repositories,
         Register(c, name, repository)
  PROVE  /\ call[c].op = "register"
         /\ Enters(c, name, repository) \/ UNCHANGED rows
         /\ call' = [call EXCEPT ![c] = NoCall] /\ UNCHANGED <<clock, pass, throughout>>
  BY DEF Register, Enters, Return

LEMMA RetireFacts ==
  ASSUME NEW c \in Callers, Retire(c)
  PROVE  /\ call[c].op = "retire"
         /\ Leaves(c) \/ UNCHANGED rows
         /\ call' = [call EXCEPT ![c] = NoCall] /\ UNCHANGED <<clock, pass>>
         /\ throughout' = throughout \cap Matching(entry', pass.filter)
  BY DEF Retire, Leaves, Return, MayRetire

-----------------------------------------------------------------------------
(* A page.                                                                 *)
Found == {id \in Matching(entry, pass.filter) : After(Key(id), pass.cursor)}

LEMMA FoundFacts ==
  ASSUME TypeOK, RowsInv
  PROVE  /\ Found \subseteq Rows /\ Found \subseteq Ids /\ IsFiniteSet(Found)
         /\ First(Found) \subseteq Found /\ IsFiniteSet(First(Found))
         /\ Cardinality(First(Found)) \in Nat
<1>1. Found \subseteq Rows /\ Found \subseteq Ids
  BY DEF Found, Matching, Rows
<1>2. First(Found) \subseteq Found
  BY DEF First
<1> QED
  BY <1>1, <1>2, FS_Subset, FS_CardinalityType DEF RowsInv

LEMMA NextPageFacts ==
  ASSUME NextPage
  PROVE  /\ pass.pc = "running" /\ UNCHANGED <<rows, clock, call, throughout>>
         /\ \/ ~Anchored /\ pass' = [pass EXCEPT !.pc = "stale"]
            \/ /\ First(Found) = Found
               /\ pass' = [pass EXCEPT
                    !.seen = @ \cup First(Found), !.listed = @ + Cardinality(First(Found)),
                    !.pc = "complete", !.cursor = pass.cursor]
            \/ /\ First(Found) # Found
               /\ pass' = [pass EXCEPT
                    !.seen = @ \cup First(Found), !.listed = @ + Cardinality(First(Found)),
                    !.pc = "running", !.cursor = Key(LastOf(First(Found)))]
  BY DEF NextPage, Found, Cursor, LastOf

-----------------------------------------------------------------------------
LEMMA TypeStep == TypeOK /\ CallsInv /\ RowsInv /\ [Next]_vars => TypeOK'
<1> SUFFICES ASSUME TypeOK, CallsInv, RowsInv, [Next]_vars PROVE TypeOK'
  OBVIOUS
<1>1. CASE UNCHANGED vars
  BY <1>1 DEF TypeOK, vars, rows
<1>2. CASE Tick
  BY <1>2, BoundsAssumption DEF Tick, TypeOK, rows
<1>3. ASSUME NEW c \in Callers, NEW op \in {"register", "retire"}, NEW id \in Ids, Begin(c, op, id)
      PROVE  TypeOK'
  BY <1>3, BoundsAssumption DEF Begin, TypeOK, rows
<1>4. ASSUME NEW c \in Callers, UNCHANGED rows \/ entry' \in [Ids -> Entries],
             call' = [call EXCEPT ![c] = NoCall], UNCHANGED <<clock, pass>>,
             throughout' \subseteq throughout,
             events' \subseteq {"PROJECT_REGISTERED", "PROJECT_RETIRED"} \X Ids \X (1 .. MaxClock)
      PROVE  TypeOK'
  BY <1>4, BoundsAssumption DEF TypeOK, NoCall, rows
<1>5. ASSUME NEW c \in Callers, NEW name \in Names, NEW repository \in Repositories,
             Register(c, name, repository)
      PROVE  TypeOK'
  <2>1. CASE Enters(c, name, repository)
    <3>1. events' \subseteq {"PROJECT_REGISTERED", "PROJECT_RETIRED"} \X Ids \X (1 .. MaxClock)
      <4>1. call[c].id \in Ids /\ call[c].at \in 1 .. clock /\ clock \in 1 .. MaxClock
        BY <1>5, <2>1, EntersFacts, RegisterFacts DEF TypeOK
      <4>2. call[c].at \in 1 .. MaxClock
        BY <4>1, BoundsAssumption
      <4>3. events' = events \cup {<<"PROJECT_REGISTERED", call[c].id, call[c].at>>}
        BY <2>1 DEF Enters
      <4> QED
        BY <4>1, <4>2, <4>3 DEF TypeOK
    <3> QED
      BY <1>4, <1>5, <2>1, <3>1, EntersFacts, RegisterFacts
  <2>2. CASE UNCHANGED rows
    BY <1>4, <1>5, <2>2, RegisterFacts DEF TypeOK, rows
  <2> QED
    BY <1>5, <2>1, <2>2, RegisterFacts
<1>6. ASSUME NEW c \in Callers, Retire(c) PROVE TypeOK'
  <2>1. CASE Leaves(c)
    <3>1. events' \subseteq {"PROJECT_REGISTERED", "PROJECT_RETIRED"} \X Ids \X (1 .. MaxClock)
      <4>1. call[c].id \in Ids /\ call[c].at \in 1 .. clock /\ clock \in 1 .. MaxClock
        BY <1>6, <2>1, LeavesFacts, RetireFacts DEF TypeOK
      <4>2. call[c].at \in 1 .. MaxClock
        BY <4>1, BoundsAssumption
      <4>3. events' = events \cup {<<"PROJECT_RETIRED", call[c].id, call[c].at>>}
        BY <2>1 DEF Leaves
      <4> QED
        BY <4>1, <4>2, <4>3 DEF TypeOK
    <3> QED
      BY <1>4, <1>6, <2>1, <3>1, LeavesFacts, RetireFacts
  <2>2. CASE UNCHANGED rows
    BY <1>4, <1>6, <2>2, RetireFacts DEF TypeOK, rows
  <2> QED
    BY <1>6, <2>1, <2>2, RetireFacts
<1>7. ASSUME NEW filter \in {"any", "ACTIVE"}, StartPass(filter) PROVE TypeOK'
  <2>1. /\ pass' = [pc |-> "running", filter |-> filter, cursor |-> <<0, 0>>, seen |-> {}, listed |-> 0]
        /\ throughout' \subseteq Ids /\ UNCHANGED <<entry, events, clock, call>>
    BY <1>7 DEF StartPass, NoPass, NoCursor, Matching, rows
  <2>2. <<0, 0>> \in (0 .. MaxClock) \X (Ids \cup {0})
    BY BoundsAssumption
  <2> QED
    BY <2>1, <2>2 DEF TypeOK
<1>8. CASE NextPage
  <2>1. UNCHANGED <<rows, clock, call, throughout>>
    BY <1>8, NextPageFacts
  <2>2. CASE pass' = [pass EXCEPT !.pc = "stale"]
    BY <2>1, <2>2 DEF TypeOK, rows
  <2>3. ASSUME NEW pc \in {"complete", "running"},
               NEW cursor \in (0 .. MaxClock) \X (Ids \cup {0}),
               pass' = [pass EXCEPT
                 !.seen = @ \cup First(Found), !.listed = @ + Cardinality(First(Found)),
                 !.pc = pc, !.cursor = cursor]
        PROVE  TypeOK'
    <3>1. /\ pass.seen \cup First(Found) \in SUBSET Ids
          /\ pass.listed + Cardinality(First(Found)) \in Nat
      BY FoundFacts DEF TypeOK
    <3> QED
      BY <2>1, <2>3, <3>1 DEF TypeOK, rows
  <2>4. CASE First(Found) # Found
    <3>1. LastOf(First(Found)) \in Ids
      BY <2>4, FoundFacts, PageFacts
    <3>2. Key(LastOf(First(Found))) \in (0 .. MaxClock) \X (Ids \cup {0})
      BY <3>1, OrderFacts
    <3> QED
      BY <1>8, <2>2, <2>3, <2>4, <3>2, NextPageFacts
  <2>5. CASE First(Found) = Found
    <3>1. pass.cursor \in (0 .. MaxClock) \X (Ids \cup {0})
      BY DEF TypeOK
    <3> QED
      BY <1>8, <2>2, <2>3, <2>5, <3>1, NextPageFacts
  <2> QED
    BY <2>4, <2>5
<1> QED
  BY <1>1, <1>2, <1>3, <1>5, <1>6, <1>7, <1>8 DEF Next

-----------------------------------------------------------------------------
(* The rows and the calls.  A call that registers keeps its id to itself   *)
(* from Begin on; a call that retires has seen the row.                    *)
LEMMA RowsStep ==
  ASSUME TypeOK, CallsInv, RowsInv, [Next]_vars
  PROVE  /\ RowsInv' /\ Rows \subseteq Rows' /\ clock' \in {clock, clock + 1}
         /\ \A id \in Rows : entry'[id].created = entry[id].created
<1>1. CASE UNCHANGED rows /\ clock' \in {clock, clock + 1}
  <2>1. Rows' = Rows /\ clock \in Nat
    BY <1>1, BoundsAssumption DEF Rows, rows, TypeOK
  <2> QED
    BY <1>1, <2>1 DEF RowsInv, rows
<1>2. ASSUME NEW c \in Callers, NEW name \in Names, NEW repository \in Repositories,
             Register(c, name, repository)
      PROVE  /\ RowsInv' /\ Rows \subseteq Rows' /\ clock' \in {clock, clock + 1}
             /\ \A id \in Rows : entry'[id].created = entry[id].created
  <2>1. CASE Enters(c, name, repository)
    <3>1. /\ clock' = clock /\ Rows' = Rows \cup {call[c].id} /\ call[c].id \notin Rows
          /\ entry'[call[c].id].created \in 1 .. clock
          /\ \A id \in Rows : entry'[id] = entry[id]
      BY <1>2, <2>1, RegisterFacts, EntersFacts DEF Rows
    <3>2. IsFiniteSet(Rows \cup {call[c].id})
      BY FS_AddElement DEF RowsInv
    <3> QED
      BY <3>1, <3>2 DEF RowsInv
  <2> QED
    BY <1>1, <1>2, <2>1, RegisterFacts
<1>3. ASSUME NEW c \in Callers, Retire(c)
      PROVE  /\ RowsInv' /\ Rows \subseteq Rows' /\ clock' \in {clock, clock + 1}
             /\ \A id \in Rows : entry'[id].created = entry[id].created
  <2>1. CASE Leaves(c)
    <3>1. /\ clock' = clock /\ Rows' = Rows
          /\ \A id \in Rows : entry'[id].created = entry[id].created
      BY <1>3, <2>1, RetireFacts, LeavesFacts DEF Rows
    <3> QED
      BY <3>1 DEF RowsInv
  <2> QED
    BY <1>1, <1>3, <2>1, RetireFacts
<1> QED
  BY <1>1, <1>2, <1>3 DEF Next, Tick, Begin, StartPass, NextPage, vars, rows

LEMMA CallsStep ==
  ASSUME TypeOK, CallsInv, RowsInv, [Next]_vars
  PROVE  CallsInv'
<1>0. /\ Rows \subseteq Rows' /\ clock' \in {clock, clock + 1} /\ clock \in Nat
      /\ \A id \in Rows : entry'[id].created = entry[id].created
  BY RowsStep DEF TypeOK
<1>1. CASE call' = call /\ Rows' = Rows
  BY <1>0, <1>1 DEF CallsInv
<1>2. ASSUME NEW c \in Callers, NEW op \in {"register", "retire"}, NEW id \in Ids, Begin(c, op, id)
      PROVE  CallsInv'
  <2>1. /\ call' = [call EXCEPT ![c] = [op |-> op, id |-> id, at |-> clock]]
        /\ UNCHANGED <<entry, clock>> /\ Rows' = Rows
        /\ op = "register" => id \notin Rows /\ \A other \in Callers : call[other].id # id
        /\ op = "retire" => id \in Rows
    BY <1>2 DEF Begin, rows, Rows
  <2>2. /\ call'[c] = [op |-> op, id |-> id, at |-> clock]
        /\ \A d \in Callers \ {c} : call'[d] = call[d]
    BY <2>1 DEF TypeOK
  <2>3. clock \in 1 .. clock /\ (id \in Rows => entry[id].created <= clock)
    BY BoundsAssumption DEF TypeOK, RowsInv
  <2> QED
    BY <2>1, <2>2, <2>3 DEF CallsInv
<1>3. ASSUME NEW c \in Callers, call' = [call EXCEPT ![c] = NoCall],
             Rows' \ Rows \subseteq {call[c].id}, call[c].op = "register" \/ Rows' = Rows
      PROVE  CallsInv'
  <2>1. call'[c] = NoCall /\ \A d \in Callers \ {c} : call'[d] = call[d]
    BY <1>3 DEF TypeOK
  <2>2. \A d \in Callers \ {c} : call[d].op = "register" => call[d].id \notin Rows'
    BY <1>3 DEF CallsInv
  <2> QED
    BY <1>0, <2>1, <2>2 DEF CallsInv, NoCall
<1>4. ASSUME NEW c \in Callers, NEW name \in Names, NEW repository \in Repositories,
             Register(c, name, repository)
      PROVE  CallsInv'
  <2>1. Rows' \ Rows \subseteq {call[c].id}
    BY <1>4, RegisterFacts, EntersFacts DEF rows, Rows
  <2> QED
    BY <1>3, <1>4, <2>1, RegisterFacts
<1>5. ASSUME NEW c \in Callers, Retire(c) PROVE CallsInv'
  <2>1. Rows' = Rows
    BY <1>5, RetireFacts, LeavesFacts DEF rows, Rows
  <2> QED
    BY <1>3, <1>5, <2>1, RetireFacts
<1> QED
  BY <1>1, <1>2, <1>4, <1>5 DEF Next, Tick, StartPass, NextPage, vars, rows, Rows

(* Whoever is registered finds room and a free name and repository.        *)
Unique ==
  \A a, b \in Active :
    entry[a].name = entry[b].name \/ entry[a].repository = entry[b].repository => a = b

LEMMA ActiveStep ==
  ASSUME TypeOK, CallsInv, RowsInv, Cardinality(Active) <= Cap, Unique, [Next]_vars
  PROVE  Cardinality(Active') <= Cap /\ Unique'
<1>0. IsFiniteSet(Active) /\ Cardinality(Active) \in Nat
  <2>1. Active \subseteq Rows
    BY DEF Active, Rows
  <2> QED
    BY <2>1, FS_Subset, FS_CardinalityType DEF RowsInv
<1>1. CASE UNCHANGED rows
  BY <1>1 DEF Active, Unique, rows
<1>2. ASSUME NEW c \in Callers, NEW name \in Names, NEW repository \in Repositories,
             Register(c, name, repository), Enters(c, name, repository)
      PROVE  Cardinality(Active') <= Cap /\ Unique'
  <2> DEFINE id == call[c].id
  <2>1. /\ id \notin Active /\ Active' = Active \cup {id}
        /\ entry'[id].name = name /\ entry'[id].repository = repository
        /\ \A other \in Active : entry'[other] = entry[other]
    BY <1>2, RegisterFacts, EntersFacts DEF Active, Rows
  <2>2. /\ Cardinality(Active) < Cap
        /\ \A other \in Active : entry[other].name # name /\ entry[other].repository # repository
    BY <1>2 DEF Enters, Room, Free
  <2>3. Cardinality(Active \cup {id}) = Cardinality(Active) + 1
    BY <1>0, <2>1, FS_AddElement
  <2>4. Cardinality(Active') <= Cap
    BY <1>0, <2>1, <2>2, <2>3, BoundsAssumption
  <2> QED
    BY <2>1, <2>2, <2>4 DEF Unique
<1>3. ASSUME NEW c \in Callers, Retire(c), Leaves(c)
      PROVE  Cardinality(Active') <= Cap /\ Unique'
  <2>1. Active' \subseteq Active /\ \A other \in Active' : entry'[other] = entry[other]
    BY <1>3, RetireFacts, LeavesFacts DEF Active
  <2>2. Cardinality(Active') <= Cardinality(Active) /\ Cardinality(Active') \in Nat
    BY <1>0, <2>1, FS_Subset, FS_CardinalityType
  <2> QED
    BY <1>0, <2>1, <2>2, BoundsAssumption DEF Unique
<1> QED
  BY <1>1, <1>2, <1>3, RegisterFacts, RetireFacts DEF Next, Tick, Begin, StartPass, NextPage, vars, rows

(* Each row that comes or is retired leaves its event.                     *)
Registered == {<<"PROJECT_REGISTERED", id, entry[id].created>> : id \in Rows}
Retired == {<<"PROJECT_RETIRED", id, entry[id].retired>> : id \in Rows \ Active}

LEMMA EventsStep ==
  ASSUME TypeOK, CallsInv, RowsInv, EventsMatchRows, [Next]_vars
  PROVE  EventsMatchRows'
<1>0. /\ events = Registered \cup Retired
      /\ \A id \in Rows \ Active : entry[id].created <= entry[id].retired
  BY DEF EventsMatchRows, Registered, Retired
<1>1. CASE UNCHANGED rows
  BY <1>1 DEF EventsMatchRows, Rows, Active, rows
<1>2. ASSUME NEW c \in Callers, NEW name \in Names, NEW repository \in Repositories,
             Register(c, name, repository), Enters(c, name, repository)
      PROVE  EventsMatchRows'
  <2> DEFINE id == call[c].id
  <2>1. /\ Rows' = Rows \cup {id} /\ id \notin Rows /\ Rows' \ Active' = Rows \ Active
        /\ entry'[id].created = call[c].at
        /\ \A other \in Rows : entry'[other] = entry[other]
    BY <1>2, RegisterFacts, EntersFacts DEF Rows
  <2>2. Registered' = Registered \cup {<<"PROJECT_REGISTERED", id, call[c].at>>}
    <3>1. Registered' = {<<"PROJECT_REGISTERED", i, entry'[i].created>> : i \in Rows \cup {id}}
      BY <2>1 DEF Registered
    <3> QED
      BY <2>1, <3>1 DEF Registered
  <2>3. Retired' = Retired
    <3>1. Retired' = {<<"PROJECT_RETIRED", i, entry'[i].retired>> : i \in Rows \ Active}
      BY <2>1 DEF Retired
    <3> QED
      BY <2>1, <3>1 DEF Retired
  <2>4. \A i \in (Rows \ Active)' : entry'[i].created <= entry'[i].retired
    BY <1>0, <2>1
  <2>5. events' = (Registered \cup Retired)'
    BY <1>0, <1>2, <2>2, <2>3 DEF Enters
  <2> QED
    BY <2>4, <2>5 DEF EventsMatchRows, Registered, Retired
<1>3. ASSUME NEW c \in Callers, Retire(c), Leaves(c)
      PROVE  EventsMatchRows'
  <2> DEFINE id == call[c].id
  <2>1. /\ Rows' = Rows /\ Rows' \ Active' = (Rows \ Active) \cup {id} /\ id \in Active
        /\ entry'[id].retired = call[c].at /\ entry'[id].created <= call[c].at
        /\ \A other \in Rows : entry'[other].created = entry[other].created
        /\ \A other \in Rows \ Active : entry'[other] = entry[other]
    BY <1>3, RetireFacts, LeavesFacts DEF Rows
  <2>2. Registered' = Registered
    <3>1. Registered' = {<<"PROJECT_REGISTERED", i, entry'[i].created>> : i \in Rows}
      BY <2>1 DEF Registered
    <3> QED
      BY <2>1, <3>1 DEF Registered
  <2>3. Retired' = Retired \cup {<<"PROJECT_RETIRED", id, call[c].at>>}
    <3>1. Retired' = {<<"PROJECT_RETIRED", i, entry'[i].retired>> : i \in (Rows \ Active) \cup {id}}
      BY <2>1 DEF Retired
    <3> QED
      BY <2>1, <3>1 DEF Retired
  <2>4. \A i \in (Rows \ Active)' : entry'[i].created <= entry'[i].retired
    BY <1>0, <2>1
  <2>5. events' = (Registered \cup Retired)'
    BY <1>0, <1>3, <2>2, <2>3 DEF Leaves
  <2> QED
    BY <2>4, <2>5 DEF EventsMatchRows, Registered, Retired
<1> QED
  BY <1>1, <1>2, <1>3, RegisterFacts, RetireFacts DEF Next, Tick, Begin, StartPass, NextPage, vars, rows

-----------------------------------------------------------------------------
(* A pass.  Between its pages rows only come and are retired, and keep     *)
(* their place; a page takes what is first of what is left.                *)
LEMMA PassKept ==
  ASSUME TypeOK, CallsInv, RowsInv, PassInv, [Next]_vars, UNCHANGED pass,
         throughout' \subseteq throughout, throughout' \subseteq Matching(entry', pass.filter)
  PROVE  PassInv'
<1>1. Rows \subseteq Rows' /\ \A id \in Rows : entry'[id].created = entry[id].created
  BY RowsStep
<1>2. \A id \in Rows : After(Key(id)', pass'.cursor) <=> After(Key(id), pass.cursor)
  BY <1>1 DEF After, Key
<1>3. throughout \subseteq Rows
  BY DEF PassInv, Matching, Rows
<1> QED
  BY <1>1, <1>2, <1>3 DEF PassInv, After, Key

LEMMA PageTaken ==
  ASSUME TypeOK, RowsInv, PassInv, pass.pc = "running"
  PROVE  LET page == First(Found) IN
         /\ IsFiniteSet(pass.seen \cup page)
         /\ pass.listed + Cardinality(page) = Cardinality(pass.seen \cup page)
         /\ \A id \in throughout : id \in pass.seen \cup Found
         /\ \A id \in pass.seen \cup page : id \in Rows
<1> DEFINE page == First(Found)
<1>1. /\ IsFiniteSet(page) /\ IsFiniteSet(pass.seen) /\ page \subseteq Found /\ Found \subseteq Rows
      /\ pass.listed = Cardinality(pass.seen)
  BY FoundFacts DEF PassInv
<1>2. pass.seen \cap page = {}
  BY <1>1 DEF PassInv, Found
<1>3. /\ IsFiniteSet(pass.seen \cup page)
      /\ Cardinality(pass.seen \cup page) = Cardinality(pass.seen) + Cardinality(page)
  <2>1. Cardinality(pass.seen \cap page) = 0
    BY <1>2, FS_EmptySet
  <2>2. Cardinality(pass.seen) \in Nat /\ Cardinality(page) \in Nat
    BY <1>1, FS_CardinalityType
  <2> HIDE DEF page
  <2>3. /\ IsFiniteSet(pass.seen \cup page)
        /\ Cardinality(pass.seen \cup page)
             = Cardinality(pass.seen) + Cardinality(page) - Cardinality(pass.seen \cap page)
    BY <1>1, FS_Union
  <2> QED
    BY <2>1, <2>2, <2>3
<1>4. \A id \in throughout : id \in pass.seen \cup Found
  BY DEF PassInv, Found
<1>5. \A id \in pass.seen \cup page : id \in Rows
  BY <1>1 DEF PassInv
<1> QED
  BY <1>1, <1>3, <1>4, <1>5

LEMMA PageStep ==
  ASSUME TypeOK, RowsInv, PassInv, NextPage
  PROVE  PassInv'
<1> DEFINE page == First(Found)
<1>0. /\ pass.pc = "running" /\ entry' = entry /\ throughout' = throughout /\ Rows' = Rows
      /\ \A id \in Ids : Key(id)' = Key(id)
  BY NextPageFacts DEF rows, Rows, Key
<1>1. CASE ~Anchored /\ pass' = [pass EXCEPT !.pc = "stale"]
  <2>1. /\ pass'.pc = "stale" /\ pass'.cursor = pass.cursor /\ pass'.filter = pass.filter
        /\ pass'.seen = pass.seen /\ pass'.listed = pass.listed
    BY <1>1 DEF TypeOK
  <2>2. pass.cursor # NoCursor
    BY <1>1 DEF Anchored
  <2> QED
    BY <1>0, <2>1, <2>2 DEF PassInv, NoCursor
<1>2. ASSUME NEW pc, NEW cursor,
             pass' = [pass EXCEPT
               !.seen = @ \cup page, !.listed = @ + Cardinality(page),
               !.pc = pc, !.cursor = cursor]
      PROVE  /\ pass'.pc = pc /\ pass'.cursor = cursor /\ pass'.filter = pass.filter
             /\ pass'.seen = pass.seen \cup page /\ pass'.listed = pass.listed + Cardinality(page)
             /\ throughout' \subseteq Matching(entry', pass'.filter)
             /\ IsFiniteSet(pass'.seen) /\ pass'.listed = Cardinality(pass'.seen)
  <2>1. /\ pass'.pc = pc /\ pass'.cursor = cursor /\ pass'.filter = pass.filter
        /\ pass'.seen = pass.seen \cup page /\ pass'.listed = pass.listed + Cardinality(page)
    BY <1>2 DEF TypeOK
  <2> QED
    BY <1>0, <2>1, PageTaken DEF PassInv
<1>3. CASE page = Found /\ pass' = [pass EXCEPT
              !.seen = @ \cup page, !.listed = @ + Cardinality(page),
              !.pc = "complete", !.cursor = pass.cursor]
  <2>1. throughout' \subseteq pass'.seen
    BY <1>0, <1>2, <1>3, PageTaken
  <2> QED
    BY <1>2, <1>3, <2>1 DEF PassInv
<1>4. CASE page # Found /\ pass' = [pass EXCEPT
              !.seen = @ \cup page, !.listed = @ + Cardinality(page),
              !.pc = "running", !.cursor = Key(LastOf(page))]
  <2> DEFINE last == LastOf(page)
  <2>1. /\ last \in page /\ (\A id \in page : ~Before(last, id))
        /\ (\A id \in Found \ page : Before(last, id))
        /\ page \subseteq Ids /\ Found \subseteq Ids
    BY <1>4, PageFacts, FoundFacts
  <2>2. After(Key(last), pass.cursor)
    BY <2>1, FoundFacts DEF Found
  <2>3. ASSUME NEW id \in pass.seen \cup page
        PROVE  id \in Rows' /\ ~After(Key(id)', pass'.cursor)
    <3>1. id \in Rows /\ id \in Ids
      BY <1>0, PageTaken DEF Rows
    <3>2. ~Before(last, id)
      <4>1. CASE id \in page
        BY <2>1, <4>1
      <4>2. CASE id \in pass.seen
        <5>1. ~After(Key(id), pass.cursor)
          BY <1>0, <4>2 DEF PassInv
        <5> QED
          BY <2>1, <2>2, <3>1, <5>1, OrderFacts
      <4> QED
        BY <4>1, <4>2
    <3>3. ~After(Key(id), Key(last))
      BY <2>1, <3>1, <3>2, OrderFacts
    <3> QED
      BY <1>0, <1>2, <1>4, <3>1, <3>3 DEF After
  <2>4. ASSUME NEW id \in throughout
        PROVE  After(Key(id)', pass'.cursor) \/ id \in pass'.seen
    <3>1. CASE id \in Found \ page
      <4>1. After(Key(id), Key(last))
        BY <2>1, <3>1, OrderFacts
      <4> QED
        BY <1>0, <1>2, <1>4, <2>1, <3>1, <4>1 DEF After
    <3> QED
      BY <1>0, <1>2, <1>4, <3>1, PageTaken
  <2>5. pass'.seen = pass.seen \cup page /\ pass'.pc = "running"
    BY <1>2, <1>4
  <2>6. /\ \A id \in pass'.seen : id \in Rows' /\ ~After(Key(id), pass.cursor)'
        /\ \A id \in throughout' : After(Key(id), pass.cursor)' \/ id \in pass'.seen
    BY <1>0, <2>3, <2>4, <2>5 DEF After, Key
  <2> QED
    BY <1>2, <1>4, <2>5, <2>6 DEF PassInv
<1> QED
  BY <1>1, <1>3, <1>4, NextPageFacts

LEMMA PassStep ==
  ASSUME TypeOK, CallsInv, RowsInv, PassInv, [Next]_vars
  PROVE  PassInv'
<1>0. throughout \subseteq Matching(entry, pass.filter)
  BY DEF PassInv
<1>1. CASE UNCHANGED <<entry, pass, throughout>>
  BY <1>0, <1>1, PassKept
<1>2. ASSUME NEW c \in Callers, NEW name \in Names, NEW repository \in Repositories,
             Register(c, name, repository), Enters(c, name, repository)
      PROVE  PassInv'
  <2>1. \A id \in Rows : entry'[id] = entry[id]
    BY <1>2, RegisterFacts, EntersFacts DEF Rows
  <2>2. throughout \subseteq Matching(entry', pass.filter)
    BY <1>0, <2>1 DEF Matching, Rows
  <2>3. UNCHANGED <<pass, throughout>>
    BY <1>2, RegisterFacts
  <2> QED
    BY <2>2, <2>3, PassKept
<1>3. ASSUME NEW c \in Callers, Retire(c) PROVE PassInv'
  BY <1>3, PassKept, RetireFacts
<1>4. ASSUME NEW filter \in {"any", "ACTIVE"}, StartPass(filter) PROVE PassInv'
  <2>1. /\ pass' = [pc |-> "running", filter |-> filter, cursor |-> NoCursor, seen |-> {}, listed |-> 0]
        /\ throughout' = Matching(entry, filter) /\ entry' = entry
    BY <1>4 DEF StartPass, NoPass, rows
  <2>2. \A id \in Ids : After(Key(id)', pass'.cursor)
    BY <2>1, OrderFacts DEF Key, After, NoCursor
  <2> QED
    BY <2>1, <2>2, FS_EmptySet DEF PassInv, Matching, NoCursor, Key, After
<1>5. CASE NextPage
  BY <1>5, PageStep
<1> QED
  BY <1>1, <1>2, <1>3, <1>4, <1>5, RegisterFacts DEF Next, Tick, Begin, vars, rows

-----------------------------------------------------------------------------
LEMMA Invariance == Spec => []IInv
<1>1. Init => IInv
  <2> SUFFICES ASSUME Init PROVE IInv
    OBVIOUS
  <2>1. Rows = {} /\ Active = {}
    BY DEF Init, Rows, Active, NoEntry
  <2>2. IsFiniteSet({}) /\ Cardinality({}) = 0
    BY FS_EmptySet
  <2>3. TypeOK
    <3>1. NoEntry \in Entries /\ NoCall \in [op : {"none", "register", "retire"}, id : Ids \cup {0}, at : 0 .. MaxClock]
      BY BoundsAssumption DEF NoEntry, NoCall, Entries
    <3>2. <<0, 0>> \in (0 .. MaxClock) \X (Ids \cup {0}) /\ 1 \in 1 .. MaxClock
      BY BoundsAssumption
    <3> QED
      BY <3>1, <3>2 DEF Init, TypeOK, NoPass, NoCursor
  <2>4. CallsInv /\ RowsInv
    BY <2>1, <2>2 DEF Init, CallsInv, RowsInv, NoCall
  <2>5. EventsMatchRows
    BY <2>1 DEF Init, EventsMatchRows
  <2>6. PassInv
    BY <2>2 DEF Init, PassInv, NoPass
  <2>7. Cardinality(Active) <= Cap
    BY <2>1, <2>2, BoundsAssumption
  <2> QED
    BY <2>1, <2>3, <2>4, <2>5, <2>6, <2>7 DEF IInv
<1>2. IInv /\ [Next]_vars => IInv'
  BY TypeStep, RowsStep, CallsStep, ActiveStep, EventsStep, PassStep DEF IInv, Unique
<1> QED
  BY <1>1, <1>2, PTL DEF Spec

(* At most Cap projects are ACTIVE, and none shares a name or a repository *)
(* with another, whatever is registered and retired in whatever order.     *)
THEOREM ActiveBoundedCorrect == Spec => []ActiveBounded
<1>1. IInv => ActiveBounded
  BY DEF IInv, ActiveBounded
<1> QED
  BY <1>1, Invariance, PTL

(* The events are one registration of each row and one retirement of each  *)
(* that is no longer ACTIVE, with its times, in the order of time.         *)
THEOREM EventsCorrect == Spec => []EventsMatchRows
<1>1. IInv => EventsMatchRows
  BY DEF IInv
<1> QED
  BY <1>1, Invariance, PTL

(* A pass over the pages that is never stale misses nothing that matched   *)
(* all the time and lists nothing twice, for any length of a page.         *)
THEOREM PassCorrect == Spec => []PassComplete
<1>1. IInv => PassComplete
  BY DEF IInv, PassInv, PassComplete
<1> QED
  BY <1>1, Invariance, PTL

-----------------------------------------------------------------------------
(***************************************************************************)
(* Proofs about ProjectSnapshot, for any number of commits.  What carries  *)
(* them is that the database file only comes to hold more: if the digest   *)
(* taken last equals the one taken first, the file was the same all the    *)
(* time between, so the copy of it and the log copied after it belong to   *)
(* one committed state (CopyInv).  A directory of another project cannot   *)
(* pass for it: its files hold what the target never did (Foreign).        *)
(***************************************************************************)
Below(d, e) == d.low <= e.low /\ d.high <= e.high

FilesInv ==
  /\ db \in Images \cup {Absent} /\ log \in Logs \cup {Absent} /\ commits \in 0 .. MaxCommits
  /\ supported \in Nat
  /\ db = Absent => log = Absent /\ commits = 0
  /\ db # Absent => db.low <= db.high /\ db.high <= commits
  /\ db # Absent /\ log = Absent => db.low = commits
  /\ log # Absent => log.last = commits /\ log.base <= db.low

PartInv ==
  /\ part \in Seq(BOOLEAN \cup Images \cup Logs \cup {Absent})
  /\ Len(part) <= 6
  /\ phase \in {"idle", "head"} => part = <<>>
  /\ \A k \in {1, 2, 5, 6} : Len(part) >= k => part[k] \in BOOLEAN
  /\ Len(part) >= 1 /\ ~part[1] => missing
  /\ Len(part) >= 1 /\ part[1] /\ home => db # Absent
  /\ Len(part) >= 3 => part[3] \in Images \cup {Absent} /\ (part[1] <=> part[3] # Absent)
  /\ Len(part) >= 4 => part[4] \in Logs \cup {Absent} /\ (~part[2] => part[4] = Absent)

FirstDb == before[2][1]
Holding == phase \in {"copy", "head", "after"} /\ before[1] = "PRESENT"

ReaderInv ==
  /\ phase # "idle" => card = NoCard /\ (db = Absent => missing)
  /\ phase \in {"copy", "head", "after"} =>
       before # <<>> /\ before[1] \in {"MISSING", "UNAVAILABLE", "PRESENT"}
  /\ phase = "copy" => before[1] = "PRESENT"
  /\ phase = "after" => git = "answers"
  /\ phase \in {"head", "after"} =>
       /\ before[1] = "MISSING" => summary = Card("UNINITIALIZED", 0) /\ missing
       /\ before[1] = "UNAVAILABLE" => summary = Card("UNAVAILABLE", 0)
       /\ before[1] = "PRESENT" => summary.status \in {"HEALTHY", "UNAVAILABLE", "UNSUPPORTED"}

(* An image that was seen: the database holds that much by now.            *)
WasSeen(d) == d \in Images /\ (home => db # Absent /\ Below(d, db))
Sound(c) ==
  /\ c.status = "HEALTHY" => c.counts \in since .. commits /\ c.counts >= supported
  /\ c.status = "UNSUPPORTED" => since < supported

(* What was copied while the database was as fingerprinted.                *)
CopyInv ==
  /\ Len(part) >= 2 /\ ~part[2] => FirstDb.low = FirstDb.high /\ FirstDb.low \in since .. commits
  /\ Len(part) >= 3 => part[3] = FirstDb
  /\ Len(part) >= 4 /\ part[4] # Absent =>
       /\ part[4].base <= FirstDb.low /\ FirstDb.high <= part[4].last
       /\ part[4].last \in since .. commits

DriftInv ==
  /\ phase = "before" /\ Len(part) >= 3 /\ part[1] => WasSeen(part[3])
  /\ Holding =>
       /\ WasSeen(FirstDb)
       /\ phase = "after" => FirstDb.low <= MaxCommits
       /\ phase = "copy" /\ Len(part) >= 1 => part[1]
       /\ phase = "copy" /\ home /\ db = FirstDb => CopyInv
       /\ phase = "head" /\ home /\ db = FirstDb => Sound(summary)
       /\ phase = "after" /\ Len(part) < 3 /\ home /\ db = FirstDb => Sound(summary)
       /\ phase = "after" /\ Len(part) >= 3 /\ part[3] = FirstDb => Sound(summary)

(* What a reading during which nothing has changed comes to, at its first  *)
(* part and after its copy.                                                *)
CalmIdentity ==
  IF missing THEN <<"MISSING">>
  ELSE IF Fits(db, log) THEN <<"PRESENT", <<db, log>> >> ELSE <<"UNAVAILABLE">>
CalmSummary ==
  IF missing THEN Card("UNINITIALIZED", 0)
  ELSE IF ~(Fits(db, log) /\ space) THEN Card("UNAVAILABLE", 0)
  ELSE IF commits < supported THEN Card("UNSUPPORTED", 0) ELSE Card("HEALTHY", commits)

CalmInv ==
  /\ calm /\ (phase # "idle" \/ card # NoCard) => since = commits /\ missing = (db = Absent)
  /\ calm /\ home =>
       /\ \A k \in {1, 5} : Len(part) >= k => (part[k] <=> db # Absent)
       /\ \A k \in {2, 6} : Len(part) >= k => (part[k] <=> log # Absent)
       /\ Len(part) >= 3 => part[3] = db
       /\ Len(part) >= 4 => part[4] = log
       /\ phase \in {"copy", "head", "after"} => before = CalmIdentity
       /\ phase \in {"head", "after"} => summary = CalmSummary

SnapshotInv ==
  /\ CardIsTrue /\ CalmIsShown
  /\ FilesInv /\ PartInv /\ ReaderInv /\ DriftInv /\ CalmInv

-----------------------------------------------------------------------------
LEMMA LookLength == Len(Look) = 6
  BY DEF Look

LEMMA SnapshotStarts == SnapshotInit => SnapshotInv
<1> SUFFICES ASSUME SnapshotInit PROVE SnapshotInv
  OBVIOUS
<1> USE CommitsAssumption, AbsentAssumption
<1>1. FilesInv
  BY DEF SnapshotInit, FilesInv
<1>2. PartInv /\ DriftInv /\ Len(part) = 0
  BY DEF SnapshotInit, PartInv, DriftInv, Holding
<1>3. ReaderInv /\ CalmInv
  BY <1>2 DEF SnapshotInit, ReaderInv, CalmInv
<1>4. card = NoCard /\ summary = NoCard /\ NoCard.status = "none" /\ NoCard.counts = 0
  BY DEF SnapshotInit, NoCard, Card
<1>5. NoCard \in [status : Statuses, counts : Nat]
  BY DEF NoCard, Card, Statuses
<1>6. SnapshotTypeOK
  <2>1. since \in 0 .. commits /\ commits \in Nat /\ Len(part) <= Len(Look)
    BY <1>2, LookLength DEF SnapshotInit
  <2>2. supported \in Nat
    BY DEF SnapshotInit
  <2>3. space \in BOOLEAN /\ git \in Heads /\ home \in BOOLEAN /\ missing \in BOOLEAN /\ calm \in BOOLEAN
    BY DEF SnapshotInit, Heads
  <2>4. phase = "idle" /\ db = Absent /\ log = Absent
    BY DEF SnapshotInit
  <2> QED
    BY <2>1, <2>2, <2>3, <2>4, <1>4, <1>5 DEF SnapshotTypeOK
<1>7. CardIsTrue /\ CalmIsShown
  BY <1>4, <1>6 DEF CardIsTrue, CalmIsShown
<1> QED
  BY <1>1, <1>2, <1>3, <1>7 DEF SnapshotInv

-----------------------------------------------------------------------------
(* The target and its directory.  The database file only comes to hold     *)
(* more, so it never again is what it once was.                            *)
WorldMoves ==
  /\ FilesInv'
  /\ commits <= commits'
  /\ db # Absent => db' # Absent /\ Below(db, db')
  /\ supported' = supported \/ (supported > commits /\ supported' > commits)
  /\ home' \in BOOLEAN /\ (home' => home)
  /\ calm' = FALSE
  /\ UNCHANGED <<reader, since, missing, space, git>>

LEMMA AppendedFacts ==
  ASSUME FilesInv, db # Absent
  PROVE  Appended \in Logs /\ Appended.last = commits + 1 /\ Appended.base <= db.low
<1> DEFINE base == IF log = Absent \/ db.low = commits THEN commits ELSE log.base
           need == commits + 1 - base
           size == IF log # Absent /\ log.size > need THEN log.size ELSE need
<1>1. commits \in Nat /\ db.low \in Nat /\ db.low <= commits
  BY CommitsAssumption DEF FilesInv, Images
<1>2. base \in Nat /\ base <= db.low
  BY <1>1 DEF FilesInv, Logs
<1>3. need \in Nat
  BY <1>1, <1>2
<1>4. size \in Nat
  BY <1>3 DEF FilesInv, Logs
<1>5. Appended = [base |-> base, last |-> commits + 1, size |-> size]
  BY DEF Appended
<1> HIDE DEF base, need, size
<1> QED
  BY <1>1, <1>2, <1>4, <1>5 DEF Logs

LEMMA TargetMoves == FilesInv /\ home \in BOOLEAN /\ Target => WorldMoves
<1> SUFFICES ASSUME FilesInv, home \in BOOLEAN, Target PROVE WorldMoves
  OBVIOUS
<1> USE CommitsAssumption, AbsentAssumption
<1>1. CASE CreateDatabase
  BY <1>1 DEF CreateDatabase, Target, WorldMoves, FilesInv, Below, Images, Logs
<1>2. CASE Commit
  <2>1. db' = db /\ db \in Images /\ commits' = commits + 1 /\ commits' \in 0 .. MaxCommits
    BY <1>2 DEF Commit, FilesInv
  <2>2. log' \in Logs /\ log' # Absent /\ log'.last = commits' /\ log'.base <= db.low
    BY <1>2, <2>1, AppendedFacts DEF Commit
  <2>3. supported' \in Nat /\ (supported' = supported \/ (supported > commits /\ supported' > commits))
    BY <1>2, <2>1 DEF Commit, FilesInv
  <2> QED
    BY <2>1, <2>2, <2>3 DEF Target, WorldMoves, FilesInv, Below, Images
<1>3. CASE Checkpoint
  <2>1. /\ log' = log /\ commits' = commits /\ supported' = supported /\ db # Absent
        /\ db \in Images /\ log \in Logs /\ log # Absent /\ log.base <= db.low
        /\ db.low \in Nat /\ log.base \in Nat /\ commits \in 0 .. MaxCommits
    BY <1>3 DEF Checkpoint, FilesInv, Images, Logs
  <2>2. db' \in Images /\ Below(db, db') /\ db'.low <= db'.high /\ db'.high <= commits
    BY <1>3, <2>1 DEF Checkpoint, FilesInv, Below, Images, Logs
  <2>3. FilesInv'
    <3>1. db' # Absent /\ log' # Absent /\ log'.last = commits' /\ log'.base <= db'.low
      BY <2>1, <2>2 DEF Below, Images, FilesInv
    <3> QED
      BY <2>1, <2>2, <3>1 DEF FilesInv
  <2>4. calm' = FALSE /\ UNCHANGED <<home, reader, since, missing, space, git>>
    BY DEF Target
  <2>5. commits <= commits' /\ db' # Absent
    BY <2>1, <2>2
  <2> QED
    BY <2>1, <2>2, <2>3, <2>4, <2>5, Zenon DEF WorldMoves
<1>4. CASE CloseLast
  BY <1>4 DEF CloseLast, Target, WorldMoves, FilesInv, Below, Images, Logs
<1> QED
  BY <1>1, <1>2, <1>3, <1>4 DEF Target

LEMMA MoveMoves == FilesInv /\ Move => WorldMoves
<1> SUFFICES ASSUME FilesInv, Move PROVE WorldMoves
  OBVIOUS
<1>1. db' = db /\ log' = log /\ commits' = commits /\ commits \in Nat /\ supported' = supported
  BY CommitsAssumption DEF Move, FilesInv, target
<1>2. FilesInv'
  BY <1>1 DEF FilesInv
<1>3. db # Absent => db' # Absent /\ Below(db, db')
  BY <1>1 DEF FilesInv, Below, Images
<1>4. home /\ home' = FALSE /\ calm' = FALSE /\ UNCHANGED <<reader, since, missing, space, git>>
  BY DEF Move
<1>5. commits <= commits' /\ supported' = supported
  BY <1>1
<1> QED
  BY <1>2, <1>3, <1>4, <1>5, Zenon DEF WorldMoves

LEMMA TroubleMoves == FilesInv /\ home \in BOOLEAN /\ Trouble => WorldMoves
<1> SUFFICES ASSUME FilesInv, home \in BOOLEAN, Trouble PROVE WorldMoves
  OBVIOUS
<1>1. /\ db' = db /\ log' = log /\ commits' = commits /\ commits \in Nat
      /\ supported' = supported /\ home' = home
  BY CommitsAssumption DEF Trouble, FilesInv, target
<1>2. FilesInv'
  BY <1>1 DEF FilesInv
<1>3. db # Absent => db' # Absent /\ Below(db, db')
  BY <1>1 DEF FilesInv, Below, Images
<1>4. calm' = FALSE /\ UNCHANGED <<reader, since, missing, space, git>>
  BY DEF Trouble
<1>5. commits <= commits'
  BY <1>1
<1> QED
  BY <1>1, <1>2, <1>3, <1>4, <1>5, Zenon DEF WorldMoves

LEMMA SameImage ==
  ASSUME NEW d \in Images, NEW e \in Images, Below(d, e), Below(e, d)
  PROVE  d = e
  BY DEF Images, Below

LEMMA WorldMovesKeeps == SnapshotInv /\ WorldMoves => SnapshotInv'
<1> SUFFICES ASSUME SnapshotInv, WorldMoves PROVE SnapshotInv'
  OBVIOUS
<1> USE CommitsAssumption, AbsentAssumption
<1>0. /\ CardIsTrue /\ CalmIsShown /\ FilesInv /\ PartInv /\ ReaderInv /\ DriftInv /\ CalmInv
      /\ SnapshotTypeOK
  BY DEF SnapshotInv, CardIsTrue
<1>1. /\ phase' = phase /\ part' = part /\ before' = before /\ summary' = summary /\ card' = card
      /\ since' = since /\ missing' = missing /\ calm' = FALSE /\ space' = space /\ git' = git
      /\ Len(part') = Len(part)
      /\ FilesInv' /\ commits <= commits' /\ commits \in Nat /\ commits' \in Nat
      /\ since \in Nat /\ since <= commits /\ supported \in Nat /\ supported' \in Nat
      /\ supported' = supported \/ (supported > commits /\ supported' > commits)
  BY <1>0 DEF WorldMoves, reader, FilesInv, SnapshotTypeOK
<1>2. /\ \A n : n \in since .. commits => n \in since' .. commits'
      /\ \A n \in since .. commits : n >= supported => n >= supported'
      /\ since < supported => since' < supported'
  BY <1>1
<1>3. SnapshotTypeOK'
  <2>1. since' \in 0 .. commits' /\ commits' \in Nat
    BY <1>0, <1>1 DEF SnapshotTypeOK
  <2>2. home' \in BOOLEAN /\ missing' \in BOOLEAN /\ calm' \in BOOLEAN
    BY <1>0, <1>1 DEF SnapshotTypeOK, WorldMoves
  <2>3. db' \in Images \cup {Absent} /\ log' \in Logs \cup {Absent}
    BY <1>1 DEF FilesInv
  <2>4. Len(part') <= Len(Look)
    BY <1>0, <1>1 DEF SnapshotTypeOK
  <2> QED
    BY <1>0, <1>1, <2>1, <2>2, <2>3, <2>4 DEF SnapshotTypeOK
<1>4. CardIsTrue' /\ CalmIsShown'
  BY <1>0, <1>1, <1>2, <1>3 DEF CardIsTrue, CalmIsShown
<1>5. PartInv'
  BY <1>0, <1>1 DEF PartInv, WorldMoves
<1>6. ReaderInv'
  BY <1>0, <1>1 DEF ReaderInv, WorldMoves
<1>7. CalmInv'
  BY <1>1 DEF CalmInv
<1>8. DriftInv'
  <2>1. \A d : WasSeen(d) => d \in Images /\ (home' => db' # Absent /\ Below(d, db'))
    BY <1>0, <1>1 DEF WasSeen, WorldMoves, Below, FilesInv, Images
  <2>2. FirstDb' = FirstDb /\ (Holding' <=> Holding)
    BY <1>1 DEF FirstDb, Holding
  <2>3. Holding /\ home' /\ db' = FirstDb => home /\ db = FirstDb
    <3> SUFFICES ASSUME Holding, home', db' = FirstDb PROVE home /\ db = FirstDb
      OBVIOUS
    <3>1. home /\ WasSeen(FirstDb)
      BY <1>0 DEF WorldMoves, DriftInv
    <3>2. FirstDb \in Images /\ db \in Images /\ Below(FirstDb, db) /\ Below(db, FirstDb)
      BY <1>0, <3>1 DEF WasSeen, FilesInv, WorldMoves
    <3> QED
      BY <3>1, <3>2, SameImage
  <2>4. Sound(summary) => Sound(summary)'
    BY <1>1, <1>2 DEF Sound
  <2>5. CopyInv => CopyInv'
    BY <1>1, <1>2, <2>2 DEF CopyInv
  <2>6. phase = "before" /\ Len(part) >= 3 /\ part[1] => WasSeen(part[3])'
    BY <1>0, <1>1, <2>1 DEF DriftInv, WasSeen
  <2>7. Holding => WasSeen(FirstDb)'
    BY <1>0, <1>1, <2>1, <2>2 DEF DriftInv, WasSeen
  <2> QED
    BY <1>0, <1>1, <2>2, <2>3, <2>4, <2>5, <2>6, <2>7 DEF DriftInv, WasSeen
<1> QED
  BY <1>1, <1>4, <1>5, <1>6, <1>7, <1>8 DEF SnapshotInv

-----------------------------------------------------------------------------
(* What the reader's steps leave alone.                                    *)
WorldRests == UNCHANGED <<target, home>>

LEMMA FilesRest == FilesInv /\ WorldRests => FilesInv'
  BY DEF FilesInv, WorldRests, target

LEMMA CardTypes ==
  ASSUME NEW status \in Statuses, NEW n \in Nat
  PROVE  /\ Card(status, n) \in [status : Statuses, counts : Nat]
         /\ Card(status, n).status = status /\ Card(status, n).counts = n
  BY DEF Card

LEMMA StartKeeps == SnapshotInv /\ Start => SnapshotInv'
<1> SUFFICES ASSUME SnapshotInv, Start PROVE SnapshotInv'
  OBVIOUS
<1> USE CommitsAssumption, AbsentAssumption
<1>0. /\ FilesInv /\ PartInv /\ SnapshotTypeOK /\ phase = "idle"
  BY DEF SnapshotInv, CardIsTrue, Start
<1>1. /\ WorldRests /\ db' = db /\ log' = log /\ commits' = commits /\ home' = home
      /\ supported' = supported /\ space' = TRUE /\ git' = "answers"
      /\ part' = <<>> /\ Len(part') = 0 /\ before' = before /\ summary' = summary
      /\ since' = commits /\ missing' = (db = Absent) /\ calm' = TRUE
      /\ phase' = IF home THEN "before" ELSE "idle"
      /\ card' = IF home THEN NoCard ELSE Card("IDENTITY_MISMATCH", 0)
  BY <1>0 DEF Start, WorldRests, target, PartInv
<1>2. card' \in [status : Statuses, counts : Nat] /\ card'.status \in {"none", "IDENTITY_MISMATCH"}
      /\ (home => card'.status = "none")
  BY <1>1, CardTypes DEF NoCard, Statuses
<1>3. FilesInv'
  BY <1>0, <1>1, FilesRest
<1>4. SnapshotTypeOK'
  <2>1. since' \in 0 .. commits' /\ commits' \in Nat /\ Len(part') <= Len(Look)
    BY <1>0, <1>1, LookLength DEF SnapshotTypeOK
  <2> QED
    BY <1>0, <1>1, <1>2, <2>1 DEF SnapshotTypeOK, Heads
<1>5. CardIsTrue' /\ CalmIsShown'
  BY <1>1, <1>2, <1>4 DEF CardIsTrue, CalmIsShown
<1>6. PartInv'
  BY <1>0, <1>1 DEF PartInv
<1>7. ReaderInv'
  BY <1>0, <1>1 DEF ReaderInv
<1>8. DriftInv'
  BY <1>0, <1>1 DEF DriftInv, Holding
<1>9. CalmInv'
  BY <1>0, <1>1 DEF CalmInv
<1> QED
  BY <1>3, <1>5, <1>6, <1>7, <1>8, <1>9 DEF SnapshotInv

-----------------------------------------------------------------------------
Sees(n, v) ==
  /\ n = 0 => v \in BOOLEAN /\ (v <=> Db # Absent)
  /\ n = 1 => v \in BOOLEAN /\ (v <=> Log # Absent)
  /\ n = 2 => v = IF part[1] THEN Db ELSE Absent
  /\ n = 3 => v = IF part[2] THEN Log ELSE Absent
  /\ n = 4 => v \in BOOLEAN /\ (v <=> Db # Absent)
  /\ n = 5 => v \in BOOLEAN /\ (v <=> Log # Absent)

LEMMA ReadEffect ==
  ASSUME SnapshotInv, Read, NEW n \in Nat, n = Len(part)
  PROVE  /\ WorldRests /\ UNCHANGED <<phase, before, summary, card, history>>
         /\ phase \in {"before", "copy", "after"}
         /\ n \in 0 .. 5 /\ Len(part') = n + 1
         /\ \A k \in 1 .. n : part'[k] = part[k]
         /\ Sees(n, part'[n + 1])
         /\ part' \in Seq(BOOLEAN \cup Images \cup Logs \cup {Absent})
<1> DEFINE v == Observe(Look[n + 1])
<1> USE CommitsAssumption, AbsentAssumption
<1>0. FilesInv /\ PartInv /\ SnapshotTypeOK
  BY DEF SnapshotInv, CardIsTrue
<1>1. n \in 0 .. 5
  <2>1. Len(part) # Len(Look)
    BY DEF Read, Complete
  <2>2. Len(part) \in Nat /\ Len(part) <= 6
    BY <1>0 DEF PartInv
  <2> QED
    BY <2>1, <2>2, LookLength
<1>2. Sees(n, v)
  <2>1. /\ Look[1] = "look db" /\ Look[2] = "look log" /\ Look[3] = "read db"
        /\ Look[4] = "read log" /\ Look[5] = "look db" /\ Look[6] = "look log"
    BY DEF Look
  <2>2. /\ n = 0 => Look[n + 1] = "look db"
        /\ n = 1 => Look[n + 1] = "look log"
        /\ n = 2 => Look[n + 1] = "read db"
        /\ n = 3 => Look[n + 1] = "read log"
        /\ n = 4 => Look[n + 1] = "look db"
        /\ n = 5 => Look[n + 1] = "look log"
    <3>1. 0 + 1 = 1 /\ 1 + 1 = 2 /\ 2 + 1 = 3 /\ 3 + 1 = 4 /\ 4 + 1 = 5 /\ 5 + 1 = 6
      OBVIOUS
    <3> QED
      BY <2>1, <3>1, Zenon
  <2>3. /\ Observe("look db") = (Db # Absent)
        /\ Observe("look log") = (Log # Absent)
        /\ Observe("read db") = IF part[1] THEN Db ELSE Absent
        /\ Observe("read log") = IF part[2] THEN Log ELSE Absent
    BY DEF Observe
  <2> QED
    BY <2>2, <2>3, Zenon DEF Sees
<1>3. Db \in Images \cup {Absent} /\ Log \in Logs \cup {Absent}
  BY <1>0 DEF Db, Log, FilesInv, Foreign, Images
<1>4. v \in BOOLEAN \cup Images \cup Logs \cup {Absent}
  <2>1. n \in {0, 1, 4, 5} => v \in BOOLEAN
    BY <1>2 DEF Sees
  <2>2. n = 2 => v \in Images \cup {Absent}
    BY <1>2, <1>3 DEF Sees
  <2>3. n = 3 => v \in Logs \cup {Absent}
    BY <1>2, <1>3 DEF Sees
  <2>4. n \in {0, 1, 2, 3, 4, 5}
    BY <1>1
  <2> HIDE DEF v
  <2> QED
    BY <2>1, <2>2, <2>3, <2>4
<1>5. part' = Append(part, v)
  BY DEF Read
<1> HIDE DEF v
<1>6. /\ Len(part') = n + 1 /\ part'[n + 1] = v /\ \A k \in 1 .. n : part'[k] = part[k]
      /\ part' \in Seq(BOOLEAN \cup Images \cup Logs \cup {Absent})
  BY <1>0, <1>1, <1>4, <1>5 DEF PartInv
<1> QED
  BY <1>0, <1>1, <1>2, <1>6 DEF Read, WorldRests, SnapshotTypeOK

LEMMA ReadKeeps == SnapshotInv /\ Read => SnapshotInv'
<1> SUFFICES ASSUME SnapshotInv, Read PROVE SnapshotInv'
  OBVIOUS
<1> USE CommitsAssumption, AbsentAssumption
<1>n. PICK n \in Nat : n = Len(part)
  BY DEF SnapshotInv, PartInv
<1>0. /\ CardIsTrue /\ CalmIsShown /\ FilesInv /\ PartInv /\ ReaderInv /\ DriftInv /\ CalmInv
      /\ SnapshotTypeOK
  BY DEF SnapshotInv, CardIsTrue
<1>1. /\ db' = db /\ log' = log /\ commits' = commits /\ home' = home
      /\ supported' = supported /\ space' = space /\ git' = git
      /\ phase' = phase /\ before' = before /\ summary' = summary /\ card' = card
      /\ since' = since /\ missing' = missing /\ calm' = calm
      /\ phase \in {"before", "copy", "after"}
      /\ n = Len(part) /\ n \in 0 .. 5 /\ Len(part') = n + 1
      /\ part' \in Seq(BOOLEAN \cup Images \cup Logs \cup {Absent})
  BY <1>n, ReadEffect DEF WorldRests, target, history
<1>a. n \in 0 .. 5
  BY <1>n, ReadEffect
<1>2. /\ n >= 1 => part'[1] = part[1]
      /\ n >= 2 => part'[2] = part[2]
      /\ n >= 3 => part'[3] = part[3]
      /\ n >= 4 => part'[4] = part[4]
      /\ n >= 5 => part'[5] = part[5]
  BY <1>1, ReadEffect
<1>3. /\ n = 0 => part'[1] \in BOOLEAN /\ (part'[1] <=> Db # Absent)
      /\ n = 1 => part'[2] \in BOOLEAN /\ (part'[2] <=> Log # Absent)
      /\ n = 2 => part'[3] = IF part[1] THEN Db ELSE Absent
      /\ n = 3 => part'[4] = IF part[2] THEN Log ELSE Absent
      /\ n = 4 => part'[5] \in BOOLEAN /\ (part'[5] <=> Db # Absent)
      /\ n = 5 => part'[6] \in BOOLEAN /\ (part'[6] <=> Log # Absent)
  BY <1>1, ReadEffect DEF Sees
<1>4. FilesInv'
  BY <1>0, <1>1, ReadEffect, FilesRest
<1>5. CardIsTrue' /\ CalmIsShown'
  <2>1. Len(part') <= Len(Look)
    <3>1. n + 1 <= 6
      BY <1>a
    <3> QED
      BY <1>1, <3>1, LookLength, Zenon
  <2>2. SnapshotTypeOK'
    BY <1>0, <1>1, <2>1 DEF SnapshotTypeOK
  <2> QED
    BY <1>0, <1>1, <2>2 DEF CardIsTrue, CalmIsShown
<1>6. PartInv'
  <2>1. \A k \in {1, 2, 5, 6} : n + 1 >= k => part'[k] \in BOOLEAN
    <3>1. \A k \in {1, 2, 5, 6} : n >= k => part[k] \in BOOLEAN
      BY <1>0, <1>1 DEF PartInv
    <3> QED
      BY <1>1, <1>2, <1>3, <3>1
  <2>2. n >= 0 /\ ~part'[1] => missing
    BY <1>0, <1>1, <1>2, <1>3 DEF PartInv, ReaderInv, Db, Foreign, Images
  <2>3. n + 1 >= 3 => part'[3] \in Images \cup {Absent} /\ (part'[1] <=> part'[3] # Absent)
    <3>1. n >= 1 => part[1] \in BOOLEAN
      BY <1>0, <1>1 DEF PartInv
    <3>2. n >= 3 => part[3] \in Images \cup {Absent} /\ (part[1] <=> part[3] # Absent)
      BY <1>0, <1>1 DEF PartInv
    <3>3. Db \in Images \cup {Absent}
      BY <1>0 DEF Db, Foreign, Images, FilesInv
    <3>4. n = 2 /\ part[1] => Db # Absent
      BY <1>0, <1>1 DEF PartInv, Db, Foreign, Images
    <3> QED
      BY <1>a, <1>2, <1>3, <3>1, <3>2, <3>3, <3>4
  <2>4. n + 1 >= 4 => part'[4] \in Logs \cup {Absent} /\ (~part'[2] => part'[4] = Absent)
    BY <1>0, <1>1, <1>2, <1>3 DEF PartInv, Log, FilesInv
  <2>5. PICK m \in Nat : m = Len(part') /\ m = n + 1
    BY <1>1
  <2>6. m <= 6 /\ m >= 1
    BY <1>a, <2>5
  <2>7. phase' \notin {"idle", "head"} /\ missing' = missing /\ home' = home /\ db' = db
    BY <1>1
  <2>8. part'[1] /\ home => db # Absent
    <3>1. n >= 1 /\ part[1] /\ home => db # Absent
      BY <1>0, <1>1 DEF PartInv
    <3>2. home => Db = db
      BY DEF Db
    <3>3. n = 0 \/ n >= 1
      BY <1>a
    <3> QED
      BY <1>2, <1>3, <3>1, <3>2, <3>3, Zenon
  <2> QED
    BY <1>1, <2>1, <2>2, <2>3, <2>4, <2>5, <2>6, <2>7, <2>8 DEF PartInv
<1>7. ReaderInv'
  BY <1>0, <1>1 DEF ReaderInv
<1>8. CalmInv'
  <2> SUFFICES ASSUME calm, home
               PROVE  /\ \A k \in {1, 5} : n + 1 >= k => (part'[k] <=> db # Absent)
                      /\ \A k \in {2, 6} : n + 1 >= k => (part'[k] <=> log # Absent)
                      /\ n + 1 >= 3 => part'[3] = db
                      /\ n + 1 >= 4 => part'[4] = log
    BY <1>0, <1>1 DEF CalmInv, CalmIdentity, CalmSummary
  <2>1. /\ \A k \in {1, 5} : n >= k => (part[k] <=> db # Absent)
        /\ \A k \in {2, 6} : n >= k => (part[k] <=> log # Absent)
        /\ n >= 3 => part[3] = db
        /\ n >= 4 => part[4] = log
    BY <1>0, <1>1 DEF CalmInv
  <2>2. Db = db /\ Log = log
    BY DEF Db, Log
  <2>3. \A k \in {1, 5} : n + 1 >= k => (part'[k] <=> db # Absent)
    BY <1>1, <1>2, <1>3, <2>1, <2>2
  <2>4. \A k \in {2, 6} : n + 1 >= k => (part'[k] <=> log # Absent)
    BY <1>1, <1>2, <1>3, <2>1, <2>2
  <2>5. n + 1 >= 3 => part'[3] = db
    BY <1>1, <1>2, <1>3, <2>1, <2>2
  <2>6. n + 1 >= 4 => part'[4] = log
    BY <1>1, <1>2, <1>3, <2>1, <2>2
  <2> QED
    BY <2>3, <2>4, <2>5, <2>6
<1>9. DriftInv'
  <2>1. FirstDb' = FirstDb /\ (Holding' <=> Holding)
    BY <1>1 DEF FirstDb, Holding
  <2>2. phase = "before" /\ n + 1 >= 3 /\ part'[1] => WasSeen(part'[3])
    <3> SUFFICES ASSUME phase = "before", n + 1 >= 3, part'[1] PROVE WasSeen(part'[3])
      OBVIOUS
    <3>1. part[1]
      <4>1. n >= 1
        BY <1>a
      <4> QED
        BY <4>1, <1>2, Zenon
    <3>2. CASE n >= 3
      BY <1>0, <1>1, <1>2, <3>1, <3>2 DEF DriftInv
    <3>3. CASE n = 2
      <4>1. part'[3] = Db
        BY <1>3, <3>1, <3>3
      <4>2. Db # Absent
        BY <1>0, <1>1, <3>1, <3>3 DEF Db, Foreign, PartInv, Images
      <4> QED
        BY <1>0, <4>1, <4>2 DEF Db, Foreign, WasSeen, FilesInv, Below, Images
    <3> QED
      BY <1>a, <3>2, <3>3
  <2>3. ASSUME phase = "copy", home, db = FirstDb
        PROVE  /\ n + 1 >= 2 /\ ~part'[2] => FirstDb.low = FirstDb.high /\ FirstDb.low \in since .. commits
               /\ n + 1 >= 3 => part'[3] = FirstDb
               /\ n + 1 >= 4 /\ part'[4] # Absent =>
                    /\ part'[4].base <= FirstDb.low /\ FirstDb.high <= part'[4].last
                    /\ part'[4].last \in since .. commits
    <3>1. Db = db /\ Log = log /\ CopyInv /\ FirstDb \in Images
      BY <1>0, <2>3 DEF Db, Log, DriftInv, Holding, ReaderInv, WasSeen
    <3>2. since \in Nat /\ since <= commits /\ commits \in Nat
      BY <1>0 DEF SnapshotTypeOK
    <3>3. n + 1 >= 2 /\ ~part'[2] => FirstDb.low = FirstDb.high /\ FirstDb.low \in since .. commits
      BY <1>0, <1>1, <1>2, <1>3, <2>3, <3>1, <3>2 DEF CopyInv, FilesInv, Images
    <3>4. n >= 1 => part[1]
      BY <1>0, <1>1, <2>3 DEF DriftInv, Holding, ReaderInv
    <3>5. n + 1 >= 3 => part'[3] = FirstDb
      BY <1>1, <1>2, <1>3, <2>3, <3>1, <3>4 DEF CopyInv
    <3>6. n + 1 >= 4 /\ part'[4] # Absent =>
            /\ part'[4].base <= FirstDb.low /\ FirstDb.high <= part'[4].last
            /\ part'[4].last \in since .. commits
      BY <1>0, <1>1, <1>2, <1>3, <2>3, <3>1, <3>2 DEF CopyInv, FilesInv, Images, Logs
    <3> QED
      BY <3>3, <3>5, <3>6
  <2>4. phase = "after" /\ Holding /\ n + 1 >= 3 /\ part'[3] = FirstDb => Sound(summary)
    <3> SUFFICES ASSUME phase = "after", Holding, n + 1 >= 3, part'[3] = FirstDb PROVE Sound(summary)
      OBVIOUS
    <3>1. CASE n >= 3
      BY <1>0, <1>1, <1>2, <3>1 DEF DriftInv
    <3>2. CASE n = 2
      <4>1. FirstDb \in Images /\ FirstDb.low <= MaxCommits
        BY <1>0 DEF DriftInv, WasSeen
      <4>2. Db = FirstDb
        BY <1>3, <3>2, <4>1
      <4>3. home /\ db = FirstDb
        BY <4>1, <4>2 DEF Db, Foreign, Images
      <4> QED
        BY <1>0, <1>1, <3>2, <4>3 DEF DriftInv
    <3> QED
      BY <1>1, <3>1, <3>2
  <2>5. Sound(summary)' <=> Sound(summary)
    BY <1>1 DEF Sound
  <2>6. phase = "copy" => part'[1]
    <3>1. phase = "copy" => Db # Absent
      BY <1>0 DEF DriftInv, Holding, ReaderInv, WasSeen, Db, Foreign, Images
    <3>2. phase = "copy" /\ n >= 1 => part[1]
      BY <1>0, <1>1 DEF DriftInv, Holding, ReaderInv
    <3> QED
      BY <1>1, <1>2, <1>3, <3>1, <3>2
  <2> QED
    BY <1>0, <1>1, <2>1, <2>2, <2>3, <2>4, <2>5, <2>6 DEF DriftInv, WasSeen, CopyInv, Below
<1> QED
  BY <1>4, <1>5, <1>6, <1>7, <1>8, <1>9 DEF SnapshotInv

-----------------------------------------------------------------------------
(* What a complete part of the reading comes to.                           *)
LEMMA CompletePart ==
  ASSUME PartInv, Complete
  PROVE  /\ part[1] \in BOOLEAN /\ part[2] \in BOOLEAN /\ part[5] \in BOOLEAN /\ part[6] \in BOOLEAN
         /\ ~part[1] => missing
         /\ part[3] \in Images \cup {Absent} /\ (part[1] <=> part[3] # Absent)
         /\ part[4] \in Logs \cup {Absent} /\ (~part[2] => part[4] = Absent)
         /\ part[1] /\ home => db # Absent
         /\ Len(part) = 6
<1>1. Len(part) = 6
  BY LookLength DEF Complete
<1> QED
  BY <1>1 DEF PartInv

LEMMA CalmPart ==
  ASSUME SnapshotInv, Complete, calm, home, phase # "idle"
  PROVE  /\ Steady /\ (part[1] <=> ~missing) /\ part[3] = db /\ part[4] = log
         /\ missing = (db = Absent) /\ since = commits
<1>0. FilesInv /\ PartInv /\ CalmInv /\ SnapshotTypeOK
  BY DEF SnapshotInv, CardIsTrue
<1>1. Len(part) = 6
  BY LookLength DEF Complete
<1>2. /\ missing = (db = Absent) /\ since = commits
      /\ part[1] <=> db # Absent
      /\ part[5] <=> db # Absent
      /\ part[2] <=> log # Absent
      /\ part[6] <=> log # Absent
      /\ part[3] = db /\ part[4] = log
  BY <1>0, <1>1 DEF CalmInv
<1>3. /\ part[1] \in BOOLEAN /\ part[2] \in BOOLEAN /\ part[5] \in BOOLEAN /\ part[6] \in BOOLEAN
      /\ missing \in BOOLEAN
  BY <1>0, CompletePart DEF SnapshotTypeOK
<1>4. Steady
  BY <1>2, <1>3 DEF Steady
<1> QED
  BY <1>2, <1>3, <1>4

LEMMA IdentityFacts ==
  ASSUME SnapshotInv, Complete, phase # "idle", NEW a \in DatabaseIdentity
  PROVE  /\ a # <<>> /\ a[1] \in {"MISSING", "UNAVAILABLE", "PRESENT"}
         /\ a[1] = "MISSING" => missing
         /\ a[1] = "PRESENT" => a[2][1] = part[3] /\ part[1] /\ part[3] \in Images
         /\ calm /\ home => a = CalmIdentity
<1>0. PartInv
  BY DEF SnapshotInv
<1>1. \/ a = <<"MISSING">> /\ ~part[1]
      \/ a = <<"UNAVAILABLE">> /\ part[1] /\ ~(Readable /\ calm)
      \/ a = <<"PRESENT", Digests>> /\ part[1] /\ Readable
  BY DEF DatabaseIdentity
<1>2. Digests[1] = part[3]
  BY DEF Digests
<1>3. CASE a = <<"MISSING">> /\ ~part[1]
  BY <1>0, <1>3, CompletePart, CalmPart DEF CalmIdentity
<1>4. CASE a = <<"UNAVAILABLE">> /\ part[1] /\ ~(Readable /\ calm)
  <2>1. calm /\ home => ~missing /\ ~Fits(db, log)
    BY <1>4, CalmPart DEF Readable
  <2> QED
    BY <1>0, <1>4, <2>1, CompletePart DEF CalmIdentity
<1>5. CASE a = <<"PRESENT", Digests>> /\ part[1] /\ Readable
  <2>1. calm /\ home => Digests = <<db, log>> /\ ~missing /\ Fits(db, log)
    BY <1>5, CalmPart DEF Digests, Readable
  <2> QED
    BY <1>0, <1>2, <1>5, <2>1, CompletePart DEF CalmIdentity
<1> QED
  BY <1>1, <1>3, <1>4, <1>5

LEMMA FingerprintedKeeps == SnapshotInv /\ Fingerprinted => SnapshotInv'
<1> SUFFICES ASSUME SnapshotInv, Fingerprinted PROVE SnapshotInv'
  OBVIOUS
<1> USE CommitsAssumption, AbsentAssumption
<1>0. /\ CardIsTrue /\ CalmIsShown /\ FilesInv /\ PartInv /\ ReaderInv /\ DriftInv /\ CalmInv
      /\ SnapshotTypeOK
  BY DEF SnapshotInv, CardIsTrue
<1>1. PICK a : a = before' /\ a \in DatabaseIdentity
  BY DEF Fingerprinted
<1>2. /\ WorldRests /\ db' = db /\ log' = log /\ commits' = commits /\ home' = home
      /\ supported' = supported /\ space' = space /\ git' = git
      /\ part' = <<>> /\ Len(part') = 0 /\ card' = card
      /\ since' = since /\ missing' = missing /\ calm' = calm /\ phase = "before" /\ Complete
  BY DEF Fingerprinted, WorldRests, target, history
<1>3. \/ a[1] = "MISSING" /\ phase' = "head" /\ summary' = Card("UNINITIALIZED", 0)
      \/ a[1] = "UNAVAILABLE" /\ phase' = "head" /\ summary' = Card("UNAVAILABLE", 0)
      \/ a[1] = "PRESENT" /\ phase' = "copy" /\ summary' = summary
  BY <1>1 DEF Fingerprinted
<1>4. /\ a # <<>> /\ a[1] \in {"MISSING", "UNAVAILABLE", "PRESENT"}
      /\ a[1] = "MISSING" => missing
      /\ a[1] = "PRESENT" => a[2][1] = part[3] /\ part[1] /\ part[3] \in Images
      /\ calm /\ home => a = CalmIdentity
  BY <1>1, <1>2, IdentityFacts
<1>5. FilesInv'
  BY <1>0, <1>2, FilesRest
<1>6. /\ summary' \in [status : Statuses, counts : Nat]
      /\ phase' = "head" => summary' # NoCard
  BY <1>0, <1>3, CardTypes DEF SnapshotTypeOK, Statuses, NoCard
<1>7. CardIsTrue' /\ CalmIsShown'
  <2>1. Len(part') <= Len(Look)
    BY <1>2, LookLength
  <2>2. SnapshotTypeOK'
    BY <1>0, <1>1, <1>2, <1>3, <1>4, <1>6, <2>1 DEF SnapshotTypeOK
  <2> QED
    BY <1>0, <1>2, <2>2 DEF CardIsTrue, CalmIsShown
<1>8. PartInv'
  BY <1>2 DEF PartInv
<1>9. ReaderInv'
  BY <1>0, <1>1, <1>2, <1>3, <1>4 DEF ReaderInv
<1>10. DriftInv'
  <2>1. a[1] = "PRESENT" => WasSeen(part[3])
    BY <1>0, <1>2, <1>4, CompletePart DEF DriftInv
  <2>2. a[1] = "PRESENT" => WasSeen(a[2][1])'
    BY <1>2, <1>4, <2>1 DEF WasSeen
  <2> QED
    BY <1>1, <1>2, <1>3, <1>4, <2>2 DEF DriftInv, Holding, FirstDb, CopyInv, WasSeen
<1>11. CalmInv'
  <2>1. CalmIdentity' = CalmIdentity /\ CalmSummary' = CalmSummary
    BY <1>2 DEF CalmIdentity, CalmSummary
  <2>2. /\ CalmIdentity[1] = "MISSING" => CalmSummary = Card("UNINITIALIZED", 0)
        /\ CalmIdentity[1] = "UNAVAILABLE" => CalmSummary = Card("UNAVAILABLE", 0)
    BY DEF CalmIdentity, CalmSummary
  <2> QED
    BY <1>0, <1>1, <1>2, <1>3, <1>4, <2>1, <2>2 DEF CalmInv
<1> QED
  BY <1>5, <1>7, <1>8, <1>9, <1>10, <1>11 DEF SnapshotInv

-----------------------------------------------------------------------------
(* The copy is decoded.                                                    *)
LEMMA SummaryFacts ==
  ASSUME SnapshotInv, Complete, phase = "copy",
         NEW room \in BOOLEAN, NEW c \in ControlSummary(room)
  PROVE  /\ c \in [status : Statuses, counts : Nat] /\ c # NoCard
         /\ c.status \in {"HEALTHY", "UNAVAILABLE", "UNSUPPORTED"}
         /\ home /\ db = FirstDb => Sound(c)
         /\ calm /\ home =>
              c = IF ~room THEN Card("UNAVAILABLE", 0)
                  ELSE IF commits < supported THEN Card("UNSUPPORTED", 0) ELSE Card("HEALTHY", commits)
<1> USE CommitsAssumption, AbsentAssumption
<1> DEFINE state == Decode(part[3], part[4])
<1>0. /\ FilesInv /\ PartInv /\ ReaderInv /\ DriftInv /\ CalmInv /\ SnapshotTypeOK
  BY DEF SnapshotInv, CardIsTrue
<1>1. \/ c = Card("UNAVAILABLE", 0) /\ ~(Readable /\ room /\ calm)
      \/ c = Card("HEALTHY", state) /\ Readable /\ room /\ ~(state < supported)
      \/ c = Card("UNSUPPORTED", 0) /\ Readable /\ room /\ state \notin supported .. MaxCommits
  BY DEF ControlSummary, Summaries
<1>2. /\ part[3] \in Images \cup {Absent} /\ (part[1] <=> part[3] # Absent)
      /\ part[4] \in Logs \cup {Absent} /\ (~part[2] => part[4] = Absent)
      /\ part[2] \in BOOLEAN /\ Len(part) = 6
  BY <1>0, CompletePart
<1>3. part[1]
  BY <1>0, <1>2 DEF DriftInv, Holding, ReaderInv
<1>4. part[3] \in Images
  BY <1>2, <1>3
<1>5. state \in Nat
  BY <1>2, <1>4 DEF Decode, Garbage, Images, Logs
<1>6. home /\ db = FirstDb /\ Steady => state \in since .. commits
  <2> SUFFICES ASSUME home, db = FirstDb, Steady PROVE state \in since .. commits
    OBVIOUS
  <2>1. CopyInv
    BY <1>0 DEF DriftInv, Holding, ReaderInv
  <2>2. part[3] = FirstDb
    BY <1>2, <2>1 DEF CopyInv
  <2>3. CASE part[4] = Absent
    <3>1. ~part[2]
      BY <1>2, <2>3 DEF Steady
    <3>2. FirstDb.low = FirstDb.high /\ FirstDb.low \in since .. commits
      BY <1>2, <2>1, <3>1 DEF CopyInv
    <3> QED
      BY <2>2, <2>3, <3>2 DEF Decode
  <2>4. CASE part[4] # Absent
    <3>1. /\ part[4].base <= FirstDb.low /\ FirstDb.high <= part[4].last
          /\ part[4].last \in since .. commits
      BY <1>2, <2>1, <2>4 DEF CopyInv
    <3>2. FirstDb.low \in Nat /\ part[4].base \in Nat
      BY <1>2, <1>4, <2>2, <2>4 DEF Images, Logs
    <3> QED
      BY <2>2, <2>4, <3>1, <3>2 DEF Decode
  <2> QED
    BY <2>3, <2>4
<1>7. calm /\ home => Readable /\ state = commits
  <2> SUFFICES ASSUME calm, home PROVE Readable /\ state = commits
    OBVIOUS
  <2>1. Steady /\ part[3] = db /\ part[4] = log /\ db # Absent
    BY <1>3, <1>2, CalmPart
  <2>2. log = Absent => state = commits
    BY <1>0, <2>1 DEF Decode, FilesInv, Images
  <2>3. log # Absent => state = commits
    BY <1>0, <2>1 DEF Decode, FilesInv, Images, Logs
  <2>4. Fits(db, log)
    BY <1>0 DEF CalmInv, CalmIdentity, ReaderInv
  <2> QED
    BY <1>3, <2>1, <2>2, <2>3, <2>4 DEF Readable
<1>8. commits \in 0 .. MaxCommits /\ since \in Nat /\ supported \in Nat
  BY <1>0 DEF FilesInv, SnapshotTypeOK
<1> HIDE DEF state
<1>9. CASE c = Card("UNAVAILABLE", 0) /\ ~(Readable /\ room /\ calm)
  <2>1. calm /\ home => ~room
    BY <1>7, <1>9
  <2> QED
    BY <1>9, <2>1, CardTypes DEF Statuses, NoCard, Sound
<1>10. CASE c = Card("HEALTHY", state) /\ Readable /\ room /\ ~(state < supported)
  <2>1. c.status = "HEALTHY" /\ c.counts = state /\ c \in [status : Statuses, counts : Nat] /\ c # NoCard
    BY <1>5, <1>10, CardTypes DEF Statuses, NoCard, Card
  <2>2. home /\ db = FirstDb => Sound(c)
    BY <1>5, <1>6, <1>8, <1>10, <2>1 DEF Sound, Readable
  <2>3. calm /\ home => ~(commits < supported) /\ c = Card("HEALTHY", commits)
    BY <1>7, <1>10
  <2> QED
    BY <1>10, <2>1, <2>2, <2>3
<1>11. CASE c = Card("UNSUPPORTED", 0) /\ Readable /\ room /\ state \notin supported .. MaxCommits
  <2>1. c.status = "UNSUPPORTED" /\ c \in [status : Statuses, counts : Nat] /\ c # NoCard
    BY <1>11, CardTypes DEF Statuses, NoCard, Card
  <2>2. home /\ db = FirstDb => Sound(c)
    <3>1. home /\ db = FirstDb => state \in since .. commits
      BY <1>6, <1>11 DEF Readable
    <3>2. home /\ db = FirstDb => since < supported
      BY <1>5, <1>8, <1>11, <3>1
    <3> QED
      BY <2>1, <3>2 DEF Sound
  <2>3. calm /\ home => commits < supported
    BY <1>7, <1>8, <1>11
  <2> QED
    BY <1>11, <2>1, <2>2, <2>3
<1> QED
  BY <1>1, <1>9, <1>10, <1>11

LEMMA CopiedKeeps == SnapshotInv /\ Copied => SnapshotInv'
<1> SUFFICES ASSUME SnapshotInv, Copied PROVE SnapshotInv'
  OBVIOUS
<1> USE CommitsAssumption, AbsentAssumption
<1>0. /\ CardIsTrue /\ CalmIsShown /\ FilesInv /\ PartInv /\ ReaderInv /\ DriftInv /\ CalmInv
      /\ SnapshotTypeOK
  BY DEF SnapshotInv, CardIsTrue
<1>1. PICK room, c : room \in BOOLEAN /\ room = space' /\ c = summary' /\ c \in ControlSummary(room)
  BY DEF Copied
<1>2. /\ supported' = supported /\ git' = git /\ WorldRests /\ db' = db /\ log' = log /\ commits' = commits /\ home' = home
      /\ part' = <<>> /\ Len(part') = 0 /\ card' = card /\ before' = before
      /\ since' = since /\ missing' = missing /\ calm' = calm /\ phase = "copy" /\ phase' = "head"
      /\ Complete
  BY DEF Copied, WorldRests, target, history
<1>3. /\ c \in [status : Statuses, counts : Nat] /\ c # NoCard
      /\ c.status \in {"HEALTHY", "UNAVAILABLE", "UNSUPPORTED"}
      /\ home /\ db = FirstDb => Sound(c)
      /\ calm /\ home =>
           c = IF ~room THEN Card("UNAVAILABLE", 0)
               ELSE IF commits < supported THEN Card("UNSUPPORTED", 0) ELSE Card("HEALTHY", commits)
  BY <1>1, <1>2, SummaryFacts
<1>4. before[1] = "PRESENT" /\ before # <<>>
  BY <1>0, <1>2 DEF ReaderInv
<1>5. FilesInv'
  BY <1>0, <1>2, FilesRest
<1>6. CardIsTrue' /\ CalmIsShown'
  <2>1. Len(part') <= Len(Look)
    BY <1>2, LookLength
  <2>2. SnapshotTypeOK'
    BY <1>0, <1>1, <1>2, <1>3, <1>4, <2>1 DEF SnapshotTypeOK
  <2>3. card' = NoCard /\ NoCard.status = "none"
    BY <1>0, <1>2, CardTypes DEF ReaderInv, NoCard, Card
  <2> QED
    BY <2>2, <2>3 DEF CardIsTrue, CalmIsShown
<1>7. PartInv'
  BY <1>2 DEF PartInv
<1>8. ReaderInv'
  BY <1>0, <1>1, <1>2, <1>3, <1>4 DEF ReaderInv
<1>9. DriftInv'
  <2>1. Holding /\ FirstDb' = FirstDb /\ WasSeen(FirstDb)
    BY <1>0, <1>2, <1>4 DEF DriftInv, Holding, FirstDb
  <2>2. Sound(c) => Sound(summary)'
    BY <1>1, <1>2 DEF Sound
  <2>3. WasSeen(FirstDb)'
    BY <1>2, <2>1 DEF WasSeen
  <2> QED
    BY <1>2, <1>3, <2>1, <2>2, <2>3 DEF DriftInv
<1>10. CalmInv'
  <2>1. calm /\ home => ~missing /\ Fits(db, log)
    BY <1>0, <1>2, <1>4 DEF CalmInv, CalmIdentity
  <2>2. CalmIdentity' = CalmIdentity
    BY <1>2 DEF CalmIdentity
  <2>3. calm /\ home => summary' = CalmSummary'
    BY <1>1, <1>2, <1>3, <2>1 DEF CalmSummary
  <2> QED
    BY <1>0, <1>2, <2>2, <2>3 DEF CalmInv
<1> QED
  BY <1>5, <1>6, <1>7, <1>8, <1>9, <1>10 DEF SnapshotInv

-----------------------------------------------------------------------------
(* The reading ends, with the card shown.                                  *)
LEMMA FinishKeeps ==
  ASSUME SnapshotInv, phase # "idle", NEW shown, Finish(shown),
         shown \in [status : Statuses, counts : Nat],
         git' \in Heads, Sound(shown), shown.status = "UNINITIALIZED" => missing,
         calm /\ home =>
           shown = CASE git' = "refuses" -> Card("IDENTITY_MISMATCH", 0)
                     [] git' = "fails" -> Card("UNAVAILABLE", 0)
                     [] git' = "answers" -> CalmSummary
  PROVE  SnapshotInv'
<1> USE CommitsAssumption, AbsentAssumption
<1>0. /\ FilesInv /\ CalmInv /\ SnapshotTypeOK
  BY DEF SnapshotInv, CardIsTrue
<1>1. /\ WorldRests /\ db' = db /\ log' = log /\ commits' = commits /\ home' = home
      /\ supported' = supported /\ space' = space
      /\ part' = <<>> /\ Len(part') = 0 /\ card' = shown /\ before' = <<>> /\ summary' = NoCard
      /\ since' = since /\ missing' = missing /\ calm' = calm /\ phase' = "idle"
  BY DEF Finish, WorldRests, target, history
<1>2. NoCard \in [status : Statuses, counts : Nat]
  BY CardTypes DEF NoCard, Statuses
<1>3. FilesInv'
  BY <1>0, <1>1, FilesRest
<1>4. SnapshotTypeOK'
  <2>1. Len(part') <= Len(Look)
    BY <1>1, LookLength
  <2> QED
    BY <1>0, <1>1, <1>2, <2>1 DEF SnapshotTypeOK
<1>5. CardIsTrue' /\ CalmIsShown'
  <2>1. CardIsTrue'
    BY <1>1, <1>4 DEF CardIsTrue, Sound
  <2>2. ASSUME calm, home PROVE CalmIsShown'
    <3>1. supported \in Nat /\ commits \in Nat
      BY <1>0 DEF FilesInv
    <3>2. CASE git' = "refuses"
      BY <1>1, <2>2, <3>2 DEF CalmIsShown
    <3>3. CASE git' = "fails"
      BY <1>1, <2>2, <3>3 DEF CalmIsShown
    <3>4. CASE git' = "answers"
      <4>1. shown = CalmSummary
        BY <2>2, <3>4
      <4>2. Fits(db, log)' <=> Fits(db, log)
        BY <1>1 DEF Fits, Foreign
      <4> QED
        BY <1>1, <3>1, <3>4, <4>1, <4>2 DEF CalmIsShown, CalmSummary
    <3> QED
      BY <3>2, <3>3, <3>4 DEF Heads
  <2>3. ~(calm /\ home) => CalmIsShown'
    BY <1>1 DEF CalmIsShown
  <2> QED
    BY <2>1, <2>2, <2>3
<1>6. PartInv' /\ ReaderInv'
  BY <1>1 DEF PartInv, ReaderInv
<1>7. DriftInv'
  BY <1>1 DEF DriftInv, Holding
<1>8. CalmInv'
  BY <1>0, <1>1 DEF CalmInv
<1> QED
  BY <1>3, <1>5, <1>6, <1>7, <1>8 DEF SnapshotInv

LEMMA MismatchShown ==
  ASSUME SnapshotInv, phase # "idle", Finish(Card("IDENTITY_MISMATCH", 0)), git' \in Heads,
         calm /\ home => git' = "refuses"
  PROVE  SnapshotInv'
<1> DEFINE shown == Card("IDENTITY_MISMATCH", 0)
<1>1. shown \in [status : Statuses, counts : Nat] /\ shown.status = "IDENTITY_MISMATCH"
  BY CardTypes DEF Statuses
<1>2. calm /\ home =>
        shown = CASE git' = "refuses" -> Card("IDENTITY_MISMATCH", 0)
                  [] git' = "fails" -> Card("UNAVAILABLE", 0)
                  [] git' = "answers" -> CalmSummary
  OBVIOUS
<1>3. Finish(shown)
  OBVIOUS
<1> HIDE DEF shown
<1> QED
  BY <1>1, <1>2, <1>3, FinishKeeps DEF Sound

LEMMA IdentifiedKeeps == SnapshotInv /\ Identified => SnapshotInv'
<1> SUFFICES ASSUME SnapshotInv, Identified PROVE SnapshotInv'
  OBVIOUS
<1> USE CommitsAssumption, AbsentAssumption
<1>0. /\ CardIsTrue /\ CalmIsShown /\ FilesInv /\ PartInv /\ ReaderInv /\ DriftInv /\ CalmInv
      /\ SnapshotTypeOK
  BY DEF SnapshotInv, CardIsTrue
<1>a. phase = "head" /\ git' \in Heads
  BY DEF Identified
<1>1. CASE git' = "refuses" \/ (git' = "answers" /\ ~home)
  BY <1>a, <1>1, MismatchShown DEF Identified
<1>3. CASE git' = "fails"
  <2> DEFINE shown == Card("UNAVAILABLE", 0)
  <2>1. shown \in [status : Statuses, counts : Nat] /\ shown.status = "UNAVAILABLE"
    BY CardTypes DEF Statuses
  <2>2. Finish(shown)
    BY <1>3 DEF Identified
  <2>3. calm /\ home =>
          shown = CASE git' = "refuses" -> Card("IDENTITY_MISMATCH", 0)
                    [] git' = "fails" -> Card("UNAVAILABLE", 0)
                    [] git' = "answers" -> CalmSummary
    BY <1>3
  <2> HIDE DEF shown
  <2>4. Sound(shown)
    BY <2>1 DEF Sound
  <2> QED
    BY <1>a, <2>1, <2>2, <2>3, <2>4, FinishKeeps
<1>2. CASE git' = "answers" /\ home
  <2>1. /\ WorldRests /\ db' = db /\ log' = log /\ commits' = commits /\ home' = home
        /\ supported' = supported /\ space' = space /\ git' = "answers"
        /\ part = <<>> /\ part' = <<>> /\ Len(part') = 0 /\ Len(part) = 0 /\ card' = card
        /\ before' = before /\ summary' = summary
        /\ since' = since /\ missing' = missing /\ calm' = calm /\ phase = "head" /\ phase' = "after"
    BY <1>0, <1>2 DEF Identified, WorldRests, target, history, PartInv
  <2>2. FilesInv'
    BY <1>0, <2>1, FilesRest
  <2>3. SnapshotTypeOK'
    BY <1>0, <2>1 DEF SnapshotTypeOK, Heads
  <2>4. CardIsTrue' /\ CalmIsShown'
    <3>1. card' = NoCard /\ NoCard.status = "none"
      BY <1>0, <2>1, CardTypes DEF ReaderInv, NoCard, Card
    <3> QED
      BY <2>3, <3>1 DEF CardIsTrue, CalmIsShown
  <2>5. PartInv' /\ ReaderInv'
    BY <1>0, <2>1 DEF PartInv, ReaderInv
  <2>6. DriftInv'
    <3>1. FirstDb' = FirstDb /\ (Holding' <=> Holding) /\ (Sound(summary)' <=> Sound(summary))
      BY <2>1 DEF FirstDb, Holding, Sound
    <3>2. Holding => WasSeen(FirstDb) /\ WasSeen(FirstDb)'
      BY <1>0, <2>1, <3>1 DEF DriftInv, WasSeen
    <3>3. Holding => FirstDb.low <= MaxCommits
      BY <1>0, <1>2, <3>2 DEF WasSeen, FilesInv, Below, Images
    <3> QED
      BY <1>0, <1>2, <2>1, <3>1, <3>2, <3>3 DEF DriftInv
  <2>7. CalmInv'
    BY <1>0, <2>1 DEF CalmInv, CalmIdentity, CalmSummary
  <2> QED
    BY <2>2, <2>4, <2>5, <2>6, <2>7 DEF SnapshotInv
<1> QED
  BY <1>a, <1>1, <1>2, <1>3 DEF Heads

LEMMA PublishKeeps == SnapshotInv /\ Publish => SnapshotInv'
<1> SUFFICES ASSUME SnapshotInv, Publish PROVE SnapshotInv'
  OBVIOUS
<1> USE CommitsAssumption, AbsentAssumption
<1>0. /\ FilesInv /\ PartInv /\ ReaderInv /\ DriftInv /\ CalmInv /\ SnapshotTypeOK
      /\ phase = "after" /\ Complete
  BY DEF SnapshotInv, CardIsTrue, Publish
<1>1. PICK after \in DatabaseIdentity :
        \/ Unchanged(after) /\ Finish(summary)
        \/ (~Unchanged(after) \/ ~calm) /\ Finish(Card("IDENTITY_MISMATCH", 0))
  BY DEF Publish
<1>2. /\ after[1] \in {"MISSING", "UNAVAILABLE", "PRESENT"}
      /\ after[1] = "MISSING" => missing
      /\ after[1] = "PRESENT" => after[2][1] = part[3] /\ part[1] /\ part[3] \in Images
      /\ calm /\ home => after = CalmIdentity
  BY <1>0, IdentityFacts
<1>g. git = "answers" /\ git' = "answers" /\ git' \in Heads
  BY <1>0 DEF Publish, ReaderInv, Heads
<1>3. calm /\ home => Unchanged(after)
  BY <1>0, <1>2 DEF CalmInv, Unchanged
<1>4. CASE (~Unchanged(after) \/ ~calm) /\ Finish(Card("IDENTITY_MISMATCH", 0))
  BY <1>0, <1>3, <1>4, <1>g, MismatchShown
<1>5. CASE Unchanged(after) /\ Finish(summary)
  <2>1. after = before /\ Len(part) = 6
    BY <1>0, <1>5, CompletePart DEF Unchanged
  <2>2. before[1] = "PRESENT" => Sound(summary)
    BY <1>0, <1>2, <2>1 DEF DriftInv, Holding, FirstDb
  <2>3. /\ Card("UNINITIALIZED", 0).status = "UNINITIALIZED"
        /\ Card("UNAVAILABLE", 0).status = "UNAVAILABLE"
    BY DEF Card
  <2>4. Sound(summary) /\ (summary.status = "UNINITIALIZED" => missing)
    BY <1>0, <1>2, <2>1, <2>2, <2>3 DEF ReaderInv, Sound
  <2>5. calm /\ home =>
          summary = CASE git' = "refuses" -> Card("IDENTITY_MISMATCH", 0)
                      [] git' = "fails" -> Card("UNAVAILABLE", 0)
                      [] git' = "answers" -> CalmSummary
    BY <1>0, <1>g DEF CalmInv
  <2>6. summary \in [status : Statuses, counts : Nat]
    BY <1>0 DEF SnapshotTypeOK
  <2> QED
    BY <1>0, <1>5, <1>g, <2>4, <2>5, <2>6, FinishKeeps
<1> QED
  BY <1>1, <1>4, <1>5

-----------------------------------------------------------------------------
LEMMA SnapshotKept == SnapshotInv /\ [SnapshotNext]_snapshotVars => SnapshotInv'
<1> SUFFICES ASSUME SnapshotInv, [SnapshotNext]_snapshotVars PROVE SnapshotInv'
  OBVIOUS
<1>1. FilesInv /\ home \in BOOLEAN
  BY DEF SnapshotInv, CardIsTrue, SnapshotTypeOK
<1>2. CASE Target
  BY <1>1, <1>2, TargetMoves, WorldMovesKeeps
<1>3. CASE Move
  BY <1>1, <1>3, MoveMoves, WorldMovesKeeps
<1>6. CASE Trouble
  BY <1>1, <1>6, TroubleMoves, WorldMovesKeeps
<1>4. CASE Reader
  BY <1>4, StartKeeps, ReadKeeps, FingerprintedKeeps, CopiedKeeps, IdentifiedKeeps, PublishKeeps
     DEF Reader
<1>5. CASE UNCHANGED snapshotVars
  BY <1>5 DEF snapshotVars, target, reader, history, SnapshotInv, CardIsTrue, CalmIsShown,
       SnapshotTypeOK, FilesInv, PartInv, ReaderInv, DriftInv, CalmInv, CopyInv, FirstDb, Holding,
       WasSeen, Sound, CalmIdentity, CalmSummary
<1> QED
  BY <1>2, <1>3, <1>4, <1>5, <1>6 DEF SnapshotNext

LEMMA SnapshotInvariance == SnapshotSpec => []SnapshotInv
  BY SnapshotStarts, SnapshotKept, PTL DEF SnapshotSpec

(* A HEALTHY card shows one committed state that was current while it was  *)
(* taken, and an UNSUPPORTED one a schema that was, although nothing of    *)
(* the target was locked.                                                  *)
THEOREM CardCorrect == SnapshotSpec => []CardIsTrue
<1>1. SnapshotInv => CardIsTrue
  BY DEF SnapshotInv
<1> QED
  BY <1>1, SnapshotInvariance, PTL

(* A project at rest is shown as it is, or refused for one of the reasons  *)
(* CalmIsShown names.                                                      *)
THEOREM CalmCorrect == SnapshotSpec => []CalmIsShown
<1>1. SnapshotInv => CalmIsShown
  BY DEF SnapshotInv
<1> QED
  BY <1>1, SnapshotInvariance, PTL
=============================================================================
