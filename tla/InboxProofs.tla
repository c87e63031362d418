---------------------------- MODULE InboxProofs -----------------------------
(***************************************************************************)
(* Proofs about Inbox, for any number of requests, texts, dispatches and   *)
(* sessions (finite or not), any capacity, page length and number of lost  *)
(* answers.                                                                *)
(***************************************************************************)
EXTENDS Inbox, FiniteSetTheorems, SequenceTheorems, TLAPS

(***************************************************************************)
(* The inductive invariant.  The capacity is one of a finite set, which    *)
(* Pending is because requests come one by one.  HandlingsAgree needs to   *)
(* know that a session never plans to bind nothing.  ToldHolds is about    *)
(* rows that exist: a row is written with its text once, and a handling    *)
(* only where there is none, which is where HandlingsAgree comes in.       *)
(***************************************************************************)
PlansSomething ==
  \A s \in Sessions : session[s].pc = "planned" => session[s].handling # NoHandling

ToldExists ==
  /\ \A told \in submitted : intake[told[1]].status # "ABSENT"
  /\ \A told \in confirmed : told[2] # NoHandling

IInv ==
  /\ TypeOK
  /\ IsFiniteSet(Pending) /\ Cardinality(Pending) <= Cap
  /\ PlansSomething
  /\ HandlingsAgree
  /\ ToldExists /\ ToldHolds

-----------------------------------------------------------------------------
(* What is inserted once into a sequence without repetitions is in it, and *)
(* nothing is lost or repeated.                                            *)
LEMMA InsertAtFacts ==
  ASSUME NEW S, NEW q \in Seq(S), NEW e \in S, NEW i \in 1 .. Len(q) + 1,
         IsInjective(q), e \notin ToSet(q)
  PROVE  /\ InsertAt(q, i, e) \in Seq(S)
         /\ ToSet(InsertAt(q, i, e)) = ToSet(q) \cup {e}
         /\ IsInjective(InsertAt(q, i, e))
<1> DEFINE front == SubSeq(q, 1, i - 1)
           back == SubSeq(q, i, Len(q))
           head == front \o <<e>>
           new == InsertAt(q, i, e)
<1>1. Len(q) \in Nat /\ i \in Nat /\ \A j \in 1 .. Len(q) : q[j] \in S
  BY LenProperties, ElementOfSeq
<1>2. /\ front \in Seq(S) /\ Len(front) = i - 1
      /\ \A j \in 1 .. i - 1 : front[j] = q[j]
  BY <1>1, SubSeqProperties
<1>3. /\ back \in Seq(S) /\ Len(back) = Len(q) - i + 1
      /\ \A j \in 1 .. Len(q) - i + 1 : back[j] = q[i + j - 1]
  BY <1>1, SubSeqProperties
<1>4. <<e>> \in Seq(S) /\ Len(<<e>>) = 1 /\ <<e>>[1] = e
  OBVIOUS
<1> HIDE DEF front, back
<1>5. /\ head \in Seq(S) /\ Len(head) = i
      /\ \A j \in 1 .. i : head[j] = IF j <= i - 1 THEN front[j] ELSE e
  BY <1>1, <1>2, <1>4, ConcatProperties
<1> HIDE DEF head
<1>6. /\ head \o back \in Seq(S)
      /\ Len(head \o back) = Len(head) + Len(back)
      /\ \A j \in 1 .. Len(head) + Len(back) :
           (head \o back)[j] = IF j <= Len(head) THEN head[j] ELSE back[j - Len(head)]
  BY <1>3, <1>5, ConcatProperties
<1>7. new = head \o back
  BY DEF InsertAt, front, back, head
<1> HIDE DEF new
<1>8. /\ new \in Seq(S) /\ DOMAIN new = 1 .. Len(q) + 1 /\ new[i] = e
      /\ \A j \in 1 .. i - 1 : new[j] = q[j]
      /\ \A j \in i + 1 .. Len(q) + 1 : new[j] = q[j - 1]
  <2>1. new \in Seq(S) /\ DOMAIN new = 1 .. Len(q) + 1
    BY <1>1, <1>3, <1>5, <1>6, <1>7, LenProperties
  <2>2. \A j \in 1 .. Len(q) + 1 : new[j] = IF j <= i THEN head[j] ELSE back[j - i]
    BY <1>1, <1>3, <1>5, <1>6, <1>7
  <2>3. \A j \in 1 .. i : new[j] = IF j <= i - 1 THEN q[j] ELSE e
    BY <1>1, <1>2, <1>5, <2>2
  <2>4. ASSUME NEW j \in i + 1 .. Len(q) + 1 PROVE new[j] = q[j - 1]
    <3>1. /\ j \in 1 .. Len(q) + 1 /\ j > i
          /\ j - i \in 1 .. Len(q) - i + 1 /\ i + (j - i) - 1 = j - 1
      BY <1>1
    <3>2. new[j] = back[j - i] /\ back[j - i] = q[i + (j - i) - 1]
      BY <1>1, <1>3, <2>2, <3>1
    <3> QED
      BY <3>1, <3>2
  <2> QED
    BY <1>1, <2>1, <2>3, <2>4
<1>9. DOMAIN q = 1 .. Len(q)
  BY LenProperties
<1>10. ToSet(new) = ToSet(q) \cup {e}
  <2>1. ASSUME NEW j \in DOMAIN new PROVE new[j] \in ToSet(q) \cup {e}
    <3>1. new[j] \in {q[k] : k \in DOMAIN q} \cup {e}
      <4>1. CASE j < i
        BY <1>1, <1>8, <1>9, <4>1
      <4>2. CASE j > i
        <5>1. j - 1 \in DOMAIN q /\ new[j] = q[j - 1]
          BY <1>1, <1>8, <1>9, <4>2
        <5> QED
          BY <5>1
      <4> QED
        BY <1>1, <1>8, <4>1, <4>2
    <3> QED
      BY <3>1 DEF ToSet
  <2>2. ASSUME NEW j \in DOMAIN q PROVE q[j] \in ToSet(new)
    <3>1. CASE j < i
      BY <1>1, <1>8, <1>9, <3>1 DEF ToSet
    <3>2. CASE j >= i
      <4>1. j + 1 \in DOMAIN new /\ new[j + 1] = q[j]
        BY <1>1, <1>8, <1>9, <3>2
      <4> QED
        BY <4>1 DEF ToSet
    <3> QED
      BY <1>1, <1>9, <3>1, <3>2
  <2>3. e \in ToSet(new)
    BY <1>1, <1>8 DEF ToSet
  <2> QED
    BY <2>1, <2>2, <2>3 DEF ToSet
<1>11. IsInjective(new)
  <2>1. \A j \in DOMAIN q : q[j] # e
    BY DEF ToSet
  <2>2. ASSUME NEW a \in DOMAIN new, NEW b \in DOMAIN new, new[a] = new[b], a < b
        PROVE  FALSE
    <3>1. \A j, k \in 1 .. Len(q) : q[j] = q[k] => j = k
      BY <1>9 DEF IsInjective
    <3>2. a \in Nat /\ b \in Nat /\ a <= Len(q) + 1 /\ b <= Len(q) + 1 /\ a >= 1
      BY <1>1, <1>8
    <3>3. CASE a < i /\ b < i
      BY <1>1, <1>8, <2>2, <3>1, <3>2, <3>3
    <3>4. CASE a < i /\ b = i
      BY <1>1, <1>8, <1>9, <2>1, <2>2, <3>2, <3>4
    <3>5. CASE a < i /\ b > i
      <4>1. q[a] = q[b - 1] /\ a \in 1 .. Len(q) /\ b - 1 \in 1 .. Len(q)
        BY <1>1, <1>8, <2>2, <3>2, <3>5
      <4> QED
        BY <1>1, <3>1, <3>2, <3>5, <4>1
    <3>6. CASE a = i
      <4>1. q[b - 1] = e /\ b - 1 \in 1 .. Len(q)
        BY <1>1, <1>8, <2>2, <3>2, <3>6
      <4> QED
        BY <1>9, <2>1, <4>1
    <3>7. CASE a > i
      <4>1. q[a - 1] = q[b - 1] /\ a - 1 \in 1 .. Len(q) /\ b - 1 \in 1 .. Len(q)
        BY <1>1, <1>8, <2>2, <3>2, <3>7
      <4> QED
        BY <2>2, <3>1, <3>2, <4>1
    <3> QED
      BY <1>1, <2>2, <3>2, <3>3, <3>4, <3>5, <3>6, <3>7
  <2> QED
    BY <1>1, <1>8, <2>2 DEF IsInjective
<1> QED
  BY <1>8, <1>10, <1>11 DEF new

-----------------------------------------------------------------------------
(* The types.                                                              *)
LEMMA NothingFacts ==
  /\ NoHandling \in Handlings /\ NoHandling.dispatch = None /\ None \notin Dispatches
  /\ \A h \in Handlings : h # NoHandling => h.dispatch \in Dispatches /\ h.disposition \in Dispositions
  /\ \A d \in Dispatches, x \in Dispositions :
       /\ [dispatch |-> d, disposition |-> x] \in Handlings
       /\ [dispatch |-> d, disposition |-> x] # NoHandling
  BY NoneAssumption DEF Handlings, NoHandling

(* What Acknowledge does to the rows: binds, confirms again, or nothing.   *)
Binds(k, h) ==
  /\ intake[k].status = "PENDING" /\ MayBind(h)
  /\ handling' = [handling EXCEPT ![k] = h]
  /\ intake' = [intake EXCEPT ![k].status = "ACKNOWLEDGED", ![k].result = h.disposition]
  /\ confirmed' = confirmed \cup {<<k, h>>}

Confirms(k, h) ==
  /\ intake[k].status = "ACKNOWLEDGED" /\ handling[k] = h
  /\ confirmed' = confirmed \cup {<<k, h>>}
  /\ UNCHANGED <<intake, handling>>

LEMMA AcknowledgeFacts ==
  ASSUME TypeOK, PlansSomething, NEW s \in Sessions, Acknowledge(s)
  PROVE  /\ \/ \E k \in Keys : Binds(k, session[s].handling) \/ Confirms(k, session[s].handling)
            \/ UNCHANGED <<intake, handling, confirmed>>
         /\ session[s].handling \in Handlings /\ session[s].handling # NoHandling
         /\ session' = [session EXCEPT ![s] = Idle] \/ session' = session
         /\ lost' \in {lost, lost + 1} /\ lost' \in 0 .. MaxLost
         /\ UNCHANGED <<queue, tasks, blocker, submitted>>
<1>1. session[s].pc = "planned" /\ session[s].page \subseteq Keys /\ session[s].handling \in Handlings
  BY DEF Acknowledge, TypeOK
<1>2. session[s].handling # NoHandling
  BY <1>1 DEF PlansSomething
<1>3. /\ session' = [session EXCEPT ![s] = Idle] \/ session' = session
      /\ lost' \in {lost, lost + 1} /\ lost' \in 0 .. MaxLost
  BY BoundsAssumption DEF Acknowledge, Answered, TypeOK
<1>4. PICK k \in session[s].page :
        \/ Binds(k, session[s].handling) \/ Confirms(k, session[s].handling)
        \/ UNCHANGED <<intake, handling, confirmed>>
  BY DEF Acknowledge, Binds, Confirms, SameHandling
<1> QED
  BY <1>1, <1>2, <1>3, <1>4 DEF Acknowledge

LEMMA TypeStep == TypeOK /\ PlansSomething /\ [Next]_vars => TypeOK' /\ PlansSomething'
<1> SUFFICES ASSUME TypeOK, PlansSomething, [Next]_vars PROVE TypeOK' /\ PlansSomething'
  OBVIOUS
<1> USE NothingFacts
<1>1. CASE UNCHANGED vars
  BY <1>1 DEF TypeOK, PlansSomething, vars, rows, history
<1>2. ASSUME NEW k \in Keys, NEW text \in Texts, Submit(k, text)
      PROVE  TypeOK' /\ PlansSomething'
  <2>1. PICK position \in 1 .. Len(queue) + 1 : queue' = InsertAt(queue, position, k)
    BY <1>2 DEF Submit
  <2>2. /\ intake[k].status = "ABSENT"
        /\ intake' = [intake EXCEPT ![k] = [status |-> "PENDING", text |-> text, result |-> "PENDING"]]
        /\ submitted' = submitted \cup {<<k, text>>}
        /\ UNCHANGED <<handling, tasks, blocker, session, confirmed, lost>>
    BY <1>2 DEF Submit, Known
  <2>3. k \notin ToSet(queue)
    BY <2>2 DEF TypeOK
  <2>4. /\ queue' \in Seq(Keys) /\ IsInjective(queue')
        /\ ToSet(queue') = ToSet(queue) \cup {k}
    BY <2>1, <2>3, InsertAtFacts DEF TypeOK
  <2>5. intake' \in [Keys -> [status : {"ABSENT", "PENDING", "ACKNOWLEDGED"},
                             text : Texts \cup {None},
                             result : {"none", "PENDING"} \cup Dispositions]]
    BY <2>2 DEF TypeOK
  <2>6. {l \in Keys : intake'[l].status # "ABSENT"} = {l \in Keys : intake[l].status # "ABSENT"} \cup {k}
    BY <2>2 DEF TypeOK
  <2>7. ToSet(queue') = {l \in Keys : intake'[l].status # "ABSENT"}
    BY <2>4, <2>6 DEF TypeOK
  <2> QED
    BY <2>2, <2>4, <2>5, <2>7 DEF TypeOK, PlansSomething
<1>3. ASSUME NEW k \in Keys, NEW text \in Texts, SubmitAgain(k, text)
      PROVE  TypeOK' /\ PlansSomething'
  BY <1>3 DEF SubmitAgain, TypeOK, PlansSomething, rows
<1>4. ASSUME NEW s \in Sessions, List(s) PROVE TypeOK' /\ PlansSomething'
  BY <1>4 DEF List, Page, Pending, TypeOK, PlansSomething, rows, history
<1>5. ASSUME NEW s \in Sessions, NEW d \in Dispatches, NEW disposition \in Dispositions,
             Plan(s, d, disposition)
      PROVE  TypeOK' /\ PlansSomething'
  <2>1. PICK k \in session[s].page :
          session' = [session EXCEPT ![s] =
            [pc |-> "planned", page |-> {k},
             handling |-> [dispatch |-> d, disposition |-> disposition]]]
    BY <1>5 DEF Plan
  <2>2. k \in Keys
    BY DEF TypeOK
  <2> QED
    BY <1>5, <2>1, <2>2 DEF Plan, TypeOK, PlansSomething, history
<1>6. ASSUME NEW s \in Sessions, Acknowledge(s) PROVE TypeOK' /\ PlansSomething'
  <2> DEFINE h == session[s].handling
  <2>1. /\ h \in Handlings /\ h # NoHandling
        /\ session' = [session EXCEPT ![s] = Idle] \/ session' = session
        /\ lost' \in 0 .. MaxLost
        /\ UNCHANGED <<queue, tasks, blocker, submitted>>
    BY <1>6, AcknowledgeFacts
  <2>2. /\ session' \in [Sessions -> [pc : {"idle", "listed", "planned"}, page : SUBSET Keys,
                                      handling : Handlings]]
        /\ PlansSomething'
    <3>1. CASE session' = session
      BY <3>1 DEF TypeOK, PlansSomething
    <3>2. CASE session' = [session EXCEPT ![s] = Idle]
      BY <3>2 DEF TypeOK, PlansSomething, Idle
    <3> QED
      BY <2>1, <3>1, <3>2
  <2>3. CASE UNCHANGED <<intake, handling, confirmed>>
    BY <2>1, <2>2, <2>3 DEF TypeOK
  <2>4. ASSUME NEW k \in Keys, Binds(k, h) \/ Confirms(k, h) PROVE TypeOK'
    <3>1. confirmed' \subseteq Keys \X Handlings
      BY <2>1, <2>4 DEF Binds, Confirms, TypeOK
    <3>2. CASE Confirms(k, h)
      BY <2>1, <2>2, <3>1, <3>2 DEF Confirms, TypeOK
    <3>3. CASE Binds(k, h)
      <4>1. handling' \in [Keys -> Handlings]
        BY <2>1, <3>3 DEF Binds, TypeOK
      <4>2. /\ intake' \in [Keys -> [status : {"ABSENT", "PENDING", "ACKNOWLEDGED"},
                                     text : Texts \cup {None},
                                     result : {"none", "PENDING"} \cup Dispositions]]
            /\ \A l \in Keys : intake'[l].status # "ABSENT" <=> intake[l].status # "ABSENT"
        <5> DEFINE new == [intake[k] EXCEPT !.status = "ACKNOWLEDGED", !.result = h.disposition]
        <5>1. h.disposition \in Dispositions /\ intake' = [intake EXCEPT ![k] = new]
          BY <2>1, <3>3 DEF Binds, TypeOK
        <5>2. new \in [status : {"ABSENT", "PENDING", "ACKNOWLEDGED"}, text : Texts \cup {None},
                      result : {"none", "PENDING"} \cup Dispositions]
              /\ new.status = "ACKNOWLEDGED"
          <6>1. intake[k] \in [status : {"ABSENT", "PENDING", "ACKNOWLEDGED"},
                               text : Texts \cup {None},
                               result : {"none", "PENDING"} \cup Dispositions]
            BY DEF TypeOK
          <6> QED
            BY <5>1, <6>1
        <5>3. intake[k].status = "PENDING"
          BY <3>3 DEF Binds
        <5> HIDE DEF new
        <5> QED
          BY <5>1, <5>2, <5>3 DEF TypeOK
      <4>3. {l \in Keys : intake'[l].status # "ABSENT"} = {l \in Keys : intake[l].status # "ABSENT"}
        BY <4>2
      <4> QED
        BY <2>1, <2>2, <3>1, <4>1, <4>2, <4>3 DEF TypeOK
    <3> QED
      BY <2>4, <3>2, <3>3
  <2> QED
    BY <1>6, <2>2, <2>3, <2>4, AcknowledgeFacts
<1>7. ASSUME NEW s \in Sessions, Abandon(s) PROVE TypeOK' /\ PlansSomething'
  BY <1>7, BoundsAssumption DEF Abandon, Idle, TypeOK, PlansSomething, rows
<1>8. ASSUME NEW d \in Dispatches, AddBlocker(d) \/ ResolveBlocker(d)
      PROVE  TypeOK' /\ PlansSomething'
  BY <1>8 DEF AddBlocker, ResolveBlocker, TypeOK, PlansSomething, history
<1> QED
  BY <1>1, <1>2, <1>3, <1>4, <1>5, <1>6, <1>7, <1>8 DEF Next, Browser, Work

-----------------------------------------------------------------------------
(* Whoever comes in finds room, and whoever is bound leaves the list.      *)
LEMMA BoundedStep ==
  ASSUME TypeOK, PlansSomething, IsFiniteSet(Pending), Cardinality(Pending) <= Cap, [Next]_vars
  PROVE  IsFiniteSet(Pending') /\ Cardinality(Pending') <= Cap
<1>1. CASE intake' = intake
  BY <1>1 DEF Pending
<1>2. ASSUME NEW k \in Keys, NEW text \in Texts, Submit(k, text)
      PROVE  IsFiniteSet(Pending') /\ Cardinality(Pending') <= Cap
  <2>1. Pending' = Pending \cup {k} /\ k \notin Pending /\ Cardinality(Pending) < Cap
    BY <1>2 DEF Submit, Known, Room, Pending, TypeOK
  <2>2. Cardinality(Pending \cup {k}) = Cardinality(Pending) + 1 /\ IsFiniteSet(Pending \cup {k})
    BY <2>1, FS_AddElement
  <2> QED
    BY <2>1, <2>2, FS_CardinalityType, BoundsAssumption
<1>3. ASSUME NEW k \in Keys, NEW h, Binds(k, h)
      PROVE  IsFiniteSet(Pending') /\ Cardinality(Pending') <= Cap
  <2>1. Pending' \subseteq Pending
    BY <1>3 DEF Binds, Pending, TypeOK
  <2>2. IsFiniteSet(Pending') /\ Cardinality(Pending') <= Cardinality(Pending)
    BY <2>1, FS_Subset
  <2> QED
    BY <2>2, FS_CardinalityType, BoundsAssumption
<1>4. ASSUME NEW s \in Sessions, Acknowledge(s)
      PROVE  IsFiniteSet(Pending') /\ Cardinality(Pending') <= Cap
  BY <1>1, <1>3, <1>4, AcknowledgeFacts DEF Confirms
<1> QED
  BY <1>1, <1>2, <1>4 DEF Next, Browser, Work, SubmitAgain, List, Plan, Abandon, AddBlocker,
     ResolveBlocker, vars, rows

(* A request is bound where none is, to a task that stands for no other.   *)
Agreeing == HandlingsAgree /\ ToldExists /\ ToldHolds

LEMMA AgreeingStep ==
  ASSUME TypeOK, TypeOK', PlansSomething, Agreeing, [Next]_vars
  PROVE  Agreeing'
<1> USE NothingFacts DEF Agreeing
<1>1. CASE UNCHANGED <<intake, handling, submitted, confirmed>> /\ tasks \subseteq tasks'
  BY <1>1 DEF HandlingsAgree, ToldExists, ToldHolds
<1>2. ASSUME NEW k \in Keys, NEW text \in Texts, Submit(k, text) PROVE Agreeing'
  <2>1. /\ intake[k].status = "ABSENT"
        /\ intake' = [intake EXCEPT ![k] = [status |-> "PENDING", text |-> text, result |-> "PENDING"]]
        /\ submitted' = submitted \cup {<<k, text>>}
        /\ UNCHANGED <<handling, tasks, confirmed>>
    BY <1>2 DEF Submit, Known
  <2>2. /\ intake'[k] = [status |-> "PENDING", text |-> text, result |-> "PENDING"]
        /\ \A l \in Keys \ {k} : intake'[l] = intake[l]
    BY <2>1 DEF TypeOK
  <2>3. HandlingsAgree'
    BY <2>1, <2>2 DEF HandlingsAgree
  <2>4. ASSUME NEW told \in submitted'
        PROVE  intake'[told[1]].status # "ABSENT" /\ intake'[told[1]].text = told[2]
    <3>1. CASE told = <<k, text>>
      BY <2>2, <3>1
    <3>2. CASE told \in submitted
      BY <2>1, <2>2, <3>2 DEF ToldExists, ToldHolds, TypeOK
    <3> QED
      BY <2>1, <2>4, <3>1, <3>2
  <2> QED
    BY <2>1, <2>3, <2>4 DEF ToldExists, ToldHolds
<1>3. ASSUME NEW k \in Keys, NEW text \in Texts, SubmitAgain(k, text) PROVE Agreeing'
  <2>1. /\ intake[k].status # "ABSENT" /\ intake[k].text = text
        /\ submitted' = submitted \cup {<<k, text>>}
        /\ UNCHANGED <<intake, handling, tasks, confirmed>>
    BY <1>3 DEF SubmitAgain, Known, SameRequest, rows
  <2> QED
    BY <2>1 DEF HandlingsAgree, ToldExists, ToldHolds
<1>4. ASSUME NEW k \in Keys, NEW h \in Handlings, h # NoHandling, Binds(k, h),
             UNCHANGED <<submitted, tasks>>
      PROVE  Agreeing'
  <2>1. /\ intake[k].status = "PENDING" /\ handling[k] = NoHandling
        /\ h.dispatch \in tasks /\ \A l \in Keys : handling[l].dispatch # h.dispatch
    BY <1>4 DEF Binds, MayBind, Bound, HandlingsAgree
  <2>2. /\ handling'[k] = h /\ intake'[k].status = "ACKNOWLEDGED" /\ intake'[k].result = h.disposition
        /\ intake'[k].text = intake[k].text
        /\ \A l \in Keys \ {k} : handling'[l] = handling[l] /\ intake'[l] = intake[l]
    BY <1>4 DEF Binds, TypeOK
  <2>3. HandlingsAgree'
    <3>1. ASSUME NEW l \in Keys
          PROVE  IF handling'[l] = NoHandling
                   THEN intake'[l].status # "ACKNOWLEDGED"
                   ELSE /\ intake'[l].status = "ACKNOWLEDGED"
                        /\ intake'[l].result = handling'[l].disposition
                        /\ handling'[l].dispatch \in tasks'
      BY <1>4, <2>1, <2>2 DEF HandlingsAgree
    <3>2. ASSUME NEW i \in Keys, NEW j \in Keys,
                 handling'[i] # NoHandling, handling'[i].dispatch = handling'[j].dispatch
          PROVE  i = j
      BY <1>4, <2>1, <2>2, <3>2 DEF HandlingsAgree
    <3> QED
      BY <3>1, <3>2 DEF HandlingsAgree
  <2>4. ASSUME NEW told \in submitted
        PROVE  intake'[told[1]].status # "ABSENT" /\ intake'[told[1]].text = told[2]
    BY <2>1, <2>2 DEF ToldExists, ToldHolds, TypeOK
  <2>5. ASSUME NEW told \in confirmed'
        PROVE  told[2] # NoHandling /\ handling'[told[1]] = told[2]
    <3>1. CASE told = <<k, h>>
      BY <1>4, <2>2, <3>1
    <3>2. CASE told \in confirmed
      <4>1. told[1] # k /\ told[1] \in Keys
        BY <2>1, <3>2 DEF ToldExists, ToldHolds, TypeOK
      <4> QED
        BY <2>2, <3>2, <4>1 DEF ToldExists, ToldHolds
    <3> QED
      BY <1>4, <2>5, <3>1, <3>2 DEF Binds
  <2> QED
    BY <1>4, <2>3, <2>4, <2>5 DEF ToldExists, ToldHolds
<1>5. ASSUME NEW k \in Keys, NEW h \in Handlings, h # NoHandling, Confirms(k, h),
             UNCHANGED <<submitted, tasks>>
      PROVE  Agreeing'
  BY <1>5 DEF Confirms, HandlingsAgree, ToldExists, ToldHolds
<1>6. ASSUME NEW s \in Sessions, Acknowledge(s) PROVE Agreeing'
  BY <1>1, <1>4, <1>5, <1>6, AcknowledgeFacts
<1> QED
  BY <1>1, <1>2, <1>3, <1>6 DEF Next, Browser, Work, List, Plan, Abandon, AddBlocker,
     ResolveBlocker, vars, rows, history

-----------------------------------------------------------------------------
LEMMA Invariance == Spec => []IInv
<1>1. Init => IInv
  <2> SUFFICES ASSUME Init PROVE IInv
    OBVIOUS
  <2>1. TypeOK
    <3>1. queue = <<>> /\ queue \in Seq(Keys) /\ IsInjective(queue) /\ ToSet(queue) = {}
      BY DEF Init, IsInjective, ToSet
    <3> QED
      BY <3>1, NothingFacts, BoundsAssumption DEF Init, TypeOK, NoIntake, Idle
  <2>2. Pending = {}
    BY DEF Init, Pending, NoIntake
  <2>3. IsFiniteSet(Pending) /\ Cardinality(Pending) <= Cap
    BY <2>2, FS_EmptySet, BoundsAssumption
  <2>4. PlansSomething /\ HandlingsAgree /\ ToldExists /\ ToldHolds
    BY DEF Init, PlansSomething, HandlingsAgree, ToldExists, ToldHolds, NoIntake, Idle
  <2> QED
    BY <2>1, <2>3, <2>4 DEF IInv
<1>2. IInv /\ [Next]_vars => IInv'
  <2> SUFFICES ASSUME IInv, [Next]_vars PROVE IInv'
    OBVIOUS
  <2>1. TypeOK' /\ PlansSomething'
    BY TypeStep DEF IInv
  <2>2. IsFiniteSet(Pending') /\ Cardinality(Pending') <= Cap
    BY BoundedStep DEF IInv
  <2>3. Agreeing'
    BY <2>1, AgreeingStep DEF IInv, Agreeing
  <2> QED
    BY <2>1, <2>2, <2>3 DEF IInv, Agreeing
<1> QED
  BY <1>1, <1>2, PTL DEF Spec

(* No order of submissions, repetitions and acknowledgements lets the list *)
(* of pending requests exceed its capacity.                                *)
THEOREM BoundedCorrect == Spec => []InboxBounded
<1>1. IInv => InboxBounded
  BY DEF IInv, InboxBounded
<1> QED
  BY <1>1, Invariance, PTL

(* A request is ACKNOWLEDGED exactly if it has a handling, of a task that  *)
(* exists and stands for no other request.                                 *)
THEOREM HandlingsCorrect == Spec => []HandlingsAgree
<1>1. IInv => HandlingsAgree
  BY DEF IInv
<1> QED
  BY <1>1, Invariance, PTL

(* What a browser or a session was told of its request stays so, also if   *)
(* the answer was to a repeated call.                                      *)
THEOREM ToldCorrect == Spec => []ToldHolds
<1>1. IInv => ToldHolds
  BY DEF IInv
<1> QED
  BY <1>1, Invariance, PTL

-----------------------------------------------------------------------------
(* The refinement of IntakeBook.  A row that was never written has no      *)
(* text, and blockers are of tasks.                                        *)
BookInv ==
  /\ \A k \in Keys : intake[k].status = "ABSENT" <=> intake[k].text = None
  /\ \A d \in Dispatches : blocker[d] = "OPEN" => d \in tasks

LEMMA BookStep ==
  ASSUME TypeOK, PlansSomething, BookInv, [Next]_vars
  PROVE  BookInv'
<1>1. CASE UNCHANGED <<intake, blocker>> /\ tasks \subseteq tasks'
  BY <1>1 DEF BookInv
<1>2. ASSUME NEW k \in Keys, NEW text \in Texts, Submit(k, text) PROVE BookInv'
  <2>1. /\ intake' = [intake EXCEPT ![k] = [status |-> "PENDING", text |-> text, result |-> "PENDING"]]
        /\ UNCHANGED <<blocker, tasks>>
    BY <1>2 DEF Submit
  <2>2. text # None
    BY NoneAssumption
  <2> QED
    BY <2>1, <2>2 DEF BookInv, TypeOK
<1>3. ASSUME NEW k \in Keys, NEW h, Binds(k, h), UNCHANGED <<blocker, tasks>> PROVE BookInv'
  BY <1>3 DEF Binds, BookInv, TypeOK
<1>4. ASSUME NEW s \in Sessions, Acknowledge(s) PROVE BookInv'
  BY <1>1, <1>3, <1>4, AcknowledgeFacts DEF Confirms
<1>5. ASSUME NEW d \in Dispatches, AddBlocker(d) \/ ResolveBlocker(d) PROVE BookInv'
  BY <1>5 DEF AddBlocker, ResolveBlocker, BookInv, TypeOK
<1> QED
  BY <1>1, <1>2, <1>4, <1>5 DEF Next, Browser, Work, SubmitAgain, List, Plan, Abandon, vars, rows

LEMMA BookKept == Spec => [](IInv /\ BookInv)
<1>1. Init => BookInv
  BY DEF Init, BookInv, NoIntake
<1>2. IInv /\ BookInv /\ [Next]_vars => BookInv'
  BY BookStep DEF IInv
<1> QED
  BY <1>1, <1>2, Invariance, PTL DEF Spec

(* The requests that are open are those that are PENDING, and a dispatch   *)
(* nobody has bound is free.                                               *)
LEMMA OpenIsPending ==
  ASSUME TypeOK, HandlingsAgree, BookInv
  PROVE  /\ Book!Open = Pending
         /\ \A d \in Dispatches : d \notin Bound => Book!Free(d)
<1>1. ASSUME NEW k \in Keys
      PROVE  intake[k].text # None /\ handling[k] = NoHandling <=> intake[k].status = "PENDING"
  <2>1. intake[k].status \in {"ABSENT", "PENDING", "ACKNOWLEDGED"}
    BY DEF TypeOK
  <2> QED
    BY <2>1 DEF HandlingsAgree, BookInv
<1>2. Book!Open = Pending
  BY <1>1 DEF Book!Open, Pending
<1>3. \A d \in Dispatches : d \notin Bound => Book!Free(d)
  BY DEF Bound, Book!Free
<1> QED
  BY <1>2, <1>3

LEMMA SubmitRefines ==
  ASSUME IInv, BookInv, NEW k \in Keys, NEW words \in Texts, Submit(k, words)
  PROVE  Book!Record(k)
<1>0. TypeOK /\ HandlingsAgree
  BY DEF IInv
<1>1. /\ intake[k].status = "ABSENT" /\ Cardinality(Pending) < Cap
      /\ intake' = [intake EXCEPT ![k] = [status |-> "PENDING", text |-> words, result |-> "PENDING"]]
      /\ UNCHANGED <<handling, tasks, blocker>>
  BY DEF Submit, Known, Room
<1>2. [l \in Keys |-> intake[l].text][k] = None
  BY <1>1 DEF BookInv
<1>3. [l \in Keys |-> intake'[l].text] = [[l \in Keys |-> intake[l].text] EXCEPT ![k] = words]
  BY <1>0, <1>1 DEF TypeOK
(* Book!Cardinality is the Cardinality of the instance: the same operator. *)
<1>4. Book!Cardinality(Book!Open) < Cap
  <2>1. Cardinality(Book!Open) < Cap
    BY <1>0, <1>1, OpenIsPending
  <2>2. Book!Cardinality(Book!Open) = Cardinality(Book!Open)
    BY DEF Book!Cardinality, Cardinality
  <2> QED
    BY <2>1, <2>2
<1>5. \E t \in Texts :
        [l \in Keys |-> intake'[l].text] = [[l \in Keys |-> intake[l].text] EXCEPT ![k] = t]
  BY <1>3
<1>6. {d \in Dispatches : blocker'[d] = "OPEN"} = {d \in Dispatches : blocker[d] = "OPEN"}
  BY <1>1
<1>7. handling' = handling /\ tasks' = tasks
  BY <1>1
<1> QED
  BY <1>2, <1>4, <1>5, <1>6, <1>7, Zenon DEF Book!Record

LEMMA BindsRefines ==
  ASSUME IInv, BookInv, NEW k \in Keys, NEW h \in Handlings, h # NoHandling, Binds(k, h),
         UNCHANGED <<tasks, blocker>>
  PROVE  Book!Bind(k)
<1>0. TypeOK /\ HandlingsAgree
  BY DEF IInv
<1>1. /\ k \in Pending /\ h.dispatch \in tasks /\ h.dispatch \notin Bound
      /\ h.disposition = "BLOCKED" => blocker[h.dispatch] = "OPEN"
      /\ handling' = [handling EXCEPT ![k] = h]
  BY DEF Binds, MayBind, Pending
<1>2. /\ h.dispatch \in Dispatches /\ h.disposition \in Dispositions
      /\ h = [dispatch |-> h.dispatch, disposition |-> h.disposition]
  BY NothingFacts DEF Handlings
<1>3. k \in Book!Open /\ Book!Free(h.dispatch)
  BY <1>0, <1>1, <1>2, OpenIsPending
<1>4. h.disposition = "BLOCKED" => h.dispatch \in {d \in Dispatches : blocker[d] = "OPEN"}
  BY <1>1, <1>2
<1>5. [l \in Keys |-> intake'[l].text] = [l \in Keys |-> intake[l].text]
  BY <1>0 DEF Binds, TypeOK
<1>6. handling' = [handling EXCEPT ![k] = [dispatch |-> h.dispatch, disposition |-> h.disposition]]
  BY <1>1, <1>2
<1> QED
  BY <1>1, <1>2, <1>3, <1>4, <1>5, <1>6 DEF Book!Bind

LEMMA PlanRefines ==
  ASSUME IInv, BookInv, NEW s \in Sessions, NEW d \in Dispatches, NEW how, Plan(s, d, how)
  PROVE  Book!StartTask
<1>1. d \notin Bound /\ tasks' = tasks \cup {d} /\ UNCHANGED <<intake, handling, blocker>>
  BY DEF Plan
<1>2. Book!Free(d)
  BY <1>1, OpenIsPending DEF IInv
<1> QED
  BY <1>1, <1>2 DEF Book!StartTask

LEMMA BlockerRefines ==
  ASSUME IInv, BookInv, NEW d \in Dispatches, AddBlocker(d) \/ ResolveBlocker(d)
  PROVE  Book!ChangeBlocker
<1>1. d \in tasks /\ UNCHANGED <<intake, handling, tasks>>
  BY DEF AddBlocker, ResolveBlocker
<1>2. blocker' \in {[blocker EXCEPT ![d] = "OPEN"], [blocker EXCEPT ![d] = "RESOLVED"]}
  BY DEF AddBlocker, ResolveBlocker
<1>3. \A e \in Dispatches : blocker'[e] = "OPEN" => e \in tasks
  BY <1>1, <1>2 DEF IInv, TypeOK, BookInv
<1>4. {e \in Dispatches : blocker'[e] = "OPEN"} \subseteq tasks
  BY <1>3
<1> QED
  BY <1>1, <1>4 DEF Book!ChangeBlocker

(* However requests are submitted again, listed late, bound by several     *)
(* sessions or abandoned, what becomes of them is what the inbox promises. *)
THEOREM BookRefined == Spec => KeepsBook
<1>1. Init => Book!Init
  BY NothingFacts DEF Init, Book!Init, NoIntake
<1>2. IInv /\ BookInv /\ [Next]_vars => [Book!Next]_Book!vars
  <2> SUFFICES ASSUME IInv, BookInv, [Next]_vars PROVE Book!Next \/ UNCHANGED Book!vars
    OBVIOUS
  <2>1. ASSUME UNCHANGED <<intake, handling, tasks, blocker>> PROVE UNCHANGED Book!vars
    BY <2>1 DEF Book!vars
  <2>2. ASSUME NEW k \in Keys, NEW text \in Texts, Submit(k, text) PROVE Book!Next
    BY <2>2, SubmitRefines DEF Book!Next
  <2>3. ASSUME NEW s \in Sessions, Acknowledge(s) PROVE Book!Next \/ UNCHANGED Book!vars
    <3> DEFINE h == session[s].handling
    <3>1. /\ \/ \E k \in Keys : Binds(k, h) \/ Confirms(k, h)
             \/ UNCHANGED <<intake, handling, confirmed>>
          /\ h \in Handlings /\ h # NoHandling /\ UNCHANGED <<tasks, blocker>>
      BY <2>3, AcknowledgeFacts DEF IInv
    <3> HIDE DEF h
    <3>2. CASE UNCHANGED <<intake, handling>>
      BY <2>1, <3>1, <3>2
    <3>3. ASSUME NEW k \in Keys, Binds(k, h) PROVE Book!Next
      BY <3>1, <3>3, BindsRefines DEF Book!Next
    <3> QED
      BY <3>1, <3>2, <3>3 DEF Confirms
  <2>4. ASSUME NEW s \in Sessions, NEW d \in Dispatches, NEW how \in Dispositions, Plan(s, d, how)
        PROVE  Book!Next
    BY <2>4, PlanRefines DEF Book!Next
  <2>5. ASSUME NEW d \in Dispatches, AddBlocker(d) \/ ResolveBlocker(d) PROVE Book!Next
    BY <2>5, BlockerRefines DEF Book!Next
  <2>6. ASSUME NEW s \in Sessions, List(s) \/ Abandon(s) PROVE UNCHANGED Book!vars
    BY <2>1, <2>6 DEF List, Abandon, rows
  <2>7. ASSUME NEW k \in Keys, NEW text \in Texts, SubmitAgain(k, text) PROVE UNCHANGED Book!vars
    BY <2>1, <2>7 DEF SubmitAgain, rows
  <2>8. CASE UNCHANGED vars
    BY <2>1, <2>8 DEF vars, rows
  <2> QED
    BY <2>2, <2>3, <2>4, <2>5, <2>6, <2>7, <2>8 DEF Next, Browser, Work
<1> QED
  BY <1>1, <1>2, BookKept, PTL DEF Spec, KeepsBook, Book!Spec
=============================================================================
