--------------------------- MODULE NoticesProofs ---------------------------
(****************************************************************************)
(* Proofs about Notices: a job tells a client once, and its queue follows   *)
(* the row.  A handler has what it still has to do in todo, in a form that  *)
(* is kept: the removal of the reminders first, then jobs to add.           *)
(****************************************************************************)
EXTENDS Notices, FiniteSetTheorems, SequenceTheorems, TLAPS

AptRows == [status : Statuses, start : Start]
AddRows == [do : {"add"}, id : follow \X Nat, start : Nat]
StepRows == [do : {"write"}, status : Statuses \ {"PENDING"}] \cup {[do |-> "cancelReminders"]} \cup AddRows
JobRows == [state : {"wait", "active", "completed", "failed"}, due : Int, expected : Nat,
            left : 1..Attempts]
HandRows == {Idle} \cup [job : follow \X Nat, start : Nat, sent : BOOLEAN, left : Seq(STRING)]

NoticesShapes ==
    /\ follow \in Followed
    /\ now \in 0..Horizon
    /\ apt \in AptRows \cup {NoAppointment}
    /\ ops \in 0..MaxOps[follow]
    /\ todo \in [Call -> Seq(StepRows)]
    /\ DOMAIN jobs \subseteq follow \X Nat
    /\ jobs \in [DOMAIN jobs -> JobRows]
    /\ hand \in [Worker -> HandRows]
    /\ faults \in 0..MaxFaults[follow]
    /\ mailed \in [DOMAIN mailed -> Nat]
    /\ clean \in BOOLEAN

(* The jobs that the handler who wrote the row a adds. *)
AddsFor(a) ==
    [do : {"add"}, id : (Prompt \cap follow) \X Nat, start : {0}]
        \cup {Arm(type, a.start) : type \in {x \in Timed \cap follow : a.status = "CONFIRMED"}}

InForm(t) ==
    /\ \A i \in 2..Len(t) : t[i].do = "add"
    /\ t # << >> /\ t[1].do = "write" => Len(t) = 1

Planned(t, a, cancels) ==
    /\ t \in Seq(StepRows) /\ InForm(t)
    /\ \A i \in DOMAIN t :
         t[i].do \in {"add", "cancelReminders"} /\ (t[i].do = "add" => t[i] \in AddsFor(a))
    /\ t # << >> /\ Head(t).do = "cancelReminders" <=> cancels /\ follow \cap Timed # {}

Arms(step, r) == step.do = "add" /\ step.id = Id(r, 0)
ArmsAll(t) == \A r \in Reminder \cap follow : \E i \in DOMAIN t : Arms(t[i], r)

LEMMA FollowIs ==
  ASSUME NoticesShapes
  PROVE  /\ follow \subseteq Types /\ Start \subseteq Nat \ {0} /\ Reminder \subseteq Timed
         /\ Types = Timed \cup Prompt /\ Timed \cap Prompt = {}
         /\ Offset \in [Timed -> Int] /\ Horizon \in Nat /\ Attempts \in Nat \ {0}
         /\ MaxOps[follow] \in Nat /\ MaxFaults[follow] \in Nat
         /\ Channel \in [Types -> Seq(STRING)]
  BY NoticesAssumption DEF NoticesShapes, Types, Timed

-----------------------------------------------------------------------------
(* The sequences of steps *)

LEMMA AddsAreSteps ==
  ASSUME NEW a, a.start \in Nat
  PROVE  AddsFor(a) \subseteq AddRows /\ AddRows \subseteq StepRows
  BY DEF AddsFor, AddRows, StepRows, Arm, Id

LEMMA NotifyIs ==
  ASSUME NEW type \in Prompt, NEW tag \in Nat, NEW a
  PROVE  Notify(type, tag) \in Seq(AddsFor(a))
<1>1. CASE type \in follow
  <2>. DEFINE step == [do |-> "add", id |-> Id(type, tag), start |-> 0]
  <2>1. step \in AddsFor(a)
    BY <1>1 DEF AddsFor, Id
  <2>2. <<step>> \in Seq(AddsFor(a))
    BY <2>1
  <2>. QED  BY <1>1, <2>2 DEF Notify
<1>2. CASE type \notin follow
  BY <1>2 DEF Notify
<1>. QED  BY <1>1, <1>2

(* A finite set is enumerated without leaving a member out. *)
LEMMA SetToSeqIs ==
  ASSUME NEW S, IsFiniteSet(S)
  PROVE  /\ Cardinality(S) \in Nat /\ SetToSeq(S) \in [1..Cardinality(S) -> S]
         /\ \A x \in S : \E i \in 1..Cardinality(S) : SetToSeq(S)[i] = x
<1>. DEFINE n == Cardinality(S)
<1>1. n \in Nat /\ ExistsBijection(1..n, S)
  BY FS_CardinalityType
<1>2. PICK g : g \in Injection(1..n, S)
  BY <1>1 DEF ExistsBijection, Bijection
<1>3. \E f \in [1..n -> S] : IsInjective(f)
  BY <1>2 DEF Injection
<1>4. SetToSeq(S) \in [1..n -> S] /\ IsInjective(SetToSeq(S))
  BY <1>3 DEF SetToSeq
<1>5. SetToSeq(S) \in Injection(1..n, S)
  BY <1>4 DEF Injection
<1>6. IsFiniteSet(1..n) /\ Cardinality(1..n) = n
  BY <1>1, FS_Interval
<1>7. SetToSeq(S) \in Surjection(1..n, S)
  BY <1>5, <1>6, FS_Injection
<1>. QED  BY <1>1, <1>4, <1>7 DEF Surjection

LEMMA ScheduleIs ==
  ASSUME NEW a, a.start \in Nat, a.status = "CONFIRMED", NEW tag \in Nat
  PROVE  /\ ScheduleReminders(a.start, tag) \in Seq(AddsFor(a))
         /\ ArmsAll(ScheduleReminders(a.start, tag))
<1>. DEFINE start == a.start
            S == Timed \cap follow
            timed == SetToSeq(S)
            arms == [i \in DOMAIN timed |-> Arm(timed[i], start)]
            last == Notify("send-confirmation", tag)
<1>1. IsFiniteSet(S)
  <2>1. IsFiniteSet(Timed)
    BY NoticesAssumption, FS_AddElement DEF Timed
  <2>. QED  BY <2>1, FS_Subset
<1>2. /\ Cardinality(S) \in Nat /\ timed \in [1..Cardinality(S) -> S]
      /\ \A x \in S : \E i \in 1..Cardinality(S) : timed[i] = x
  BY <1>1, SetToSeqIs
<1>. DEFINE n == Cardinality(S)
<1>. HIDE DEF n, timed
<1>3. n \in Nat /\ timed \in [1..n -> S] /\ \A x \in S : \E i \in 1..n : timed[i] = x
  BY <1>2 DEF n, timed
<1>. HIDE DEF S
<1>4. \A type \in S : Arm(type, start) \in AddsFor(a)
  BY DEF S, AddsFor
<1>5. arms \in [1..n -> AddsFor(a)]
  BY <1>3, <1>4
<1>6. arms \in Seq(AddsFor(a)) /\ Len(arms) = n
  BY <1>3, <1>5, SeqDef, LenProperties
<1>7. last \in Seq(AddsFor(a))
  BY NotifyIs DEF Prompt
<1>8. ScheduleReminders(start, tag) = arms \o last
  BY DEF ScheduleReminders, timed, S
<1>9. \A i \in 1..n : arms[i] = Arm(timed[i], start)
  BY <1>3
<1>. HIDE DEF arms, last
<1>10. /\ arms \o last \in Seq(AddsFor(a))
       /\ \A i \in 1..n : i \in DOMAIN (arms \o last) /\ (arms \o last)[i] = arms[i]
  <2>1. /\ arms \o last \in Seq(AddsFor(a))
        /\ Len(arms \o last) = n + Len(last) /\ Len(last) \in Nat
        /\ \A i \in 1..n : (arms \o last)[i] = arms[i]
    <3>. DEFINE A == AddsFor(a)
    <3>. HIDE DEF A
    <3>1. arms \in Seq(A) /\ last \in Seq(A)
      BY <1>6, <1>7 DEF A
    <3>2. Len(last) \in Nat
      BY <3>1, LenProperties
    <3>3. /\ arms \o last \in Seq(A) /\ Len(arms \o last) = Len(arms) + Len(last)
          /\ \A i \in 1..(Len(arms) + Len(last)) : (arms \o last)[i] =
                 IF i <= Len(arms) THEN arms[i] ELSE last[i - Len(arms)]
      BY <3>1, ConcatProperties
    <3>. QED  BY <1>3, <1>6, <3>2, <3>3 DEF A
  <2>2. DOMAIN (arms \o last) = 1..(n + Len(last))
    BY <2>1, LenProperties
  <2>3. \A i \in 1..n : i \in 1..(n + Len(last))
    BY <1>3, <2>1
  <2>. QED  BY <2>1, <2>2, <2>3
<1>11. ASSUME NEW r \in Reminder \cap follow
       PROVE  \E i \in DOMAIN (arms \o last) : Arms((arms \o last)[i], r)
  <2>1. r \in S
    BY DEF S, Timed
  <2>2. PICK i \in 1..n : timed[i] = r
    BY <1>3, <2>1
  <2>3. (arms \o last)[i] = Arm(r, start) /\ i \in DOMAIN (arms \o last)
    BY <1>9, <1>10, <2>2
  <2>. QED  BY <2>3 DEF Arm, Arms
<1>. QED  BY <1>8, <1>10, <1>11 DEF ArmsAll

LEMMA PlannedAdds ==
  ASSUME NEW a, a.start \in Nat, NEW t \in Seq(AddsFor(a))
  PROVE  Planned(t, a, FALSE)
<1>1. t \in Seq(StepRows)
  BY AddsAreSteps, SeqMonotonic
<1>2. \A i \in DOMAIN t : t[i] \in AddsFor(a)
  BY ElementOfSeq, LenProperties
<1>3. \A i \in DOMAIN t : t[i].do = "add"
  BY <1>2 DEF AddsFor, Arm
<1>4. DOMAIN t = 1..Len(t) /\ Len(t) \in Nat
  BY LenProperties
<1>5. t # << >> => 1 \in DOMAIN t /\ Head(t) = t[1]
  BY <1>1, <1>4, EmptySeq
<1>6. InForm(t)
  BY <1>3, <1>4, <1>5 DEF InForm
<1>. QED  BY <1>1, <1>2, <1>3, <1>5, <1>6 DEF Planned

LEMMA PlannedCancel ==
  ASSUME NEW a, a.start \in Nat, NEW t \in Seq(AddsFor(a))
  PROVE  Planned(Cancel \o t, a, TRUE) /\ (ArmsAll(t) => ArmsAll(Cancel \o t))
<1>1. CASE follow \cap Timed = {}
  <2>1. Cancel \o t = t
    BY <1>1, ConcatEmptySeq DEF Cancel
  <2>. QED  BY <1>1, <2>1, PlannedAdds DEF Planned
<1>2. CASE follow \cap Timed # {}
  <2>. DEFINE k == [do |-> "cancelReminders"]
              u == <<k>> \o t
  <2>1. Cancel \o t = u
    BY <1>2 DEF Cancel
  <2>2. k \in StepRows /\ k.do = "cancelReminders"
    BY DEF StepRows
  <2>3. t \in Seq(StepRows)
    BY AddsAreSteps, SeqMonotonic
  <2>. HIDE DEF k
  <2>4. <<k>> \in Seq(StepRows) /\ Len(<<k>>) = 1 /\ <<k>>[1] = k
    BY <2>2
  <2>. DEFINE S == StepRows
  <2>. HIDE DEF S
  <2>5. /\ u \in Seq(S) /\ Len(u) = 1 + Len(t) /\ Len(t) \in Nat
        /\ \A i \in 1..(1 + Len(t)) : u[i] = IF i <= 1 THEN <<k>>[i] ELSE t[i - 1]
    <3>1. <<k>> \in Seq(S) /\ t \in Seq(S)
      BY <2>3, <2>4 DEF S
    <3>. QED  BY <2>4, <3>1, ConcatProperties, LenProperties
  <2>6. DOMAIN u = 1..(1 + Len(t)) /\ DOMAIN t = 1..Len(t) /\ Len(t) \in Nat
    BY <2>3, <2>5, LenProperties
  <2>. HIDE DEF u
  <2>7. u[1] = k /\ \A i \in 2..(1 + Len(t)) : i - 1 \in DOMAIN t /\ u[i] = t[i - 1]
    BY <2>4, <2>5, <2>6
  <2>8. \A j \in DOMAIN t : t[j] \in AddsFor(a)
    BY ElementOfSeq, LenProperties
  <2>9. \A j \in DOMAIN t : t[j].do = "add"
    BY <2>8 DEF AddsFor, Arm
  <2>10. u # << >> /\ Head(u) = k
    BY <2>5, <2>7
  <2>11. InForm(u)
    BY <2>2, <2>5, <2>7, <2>9 DEF InForm
  <2>12. ASSUME NEW i \in DOMAIN u
         PROVE  u[i].do \in {"add", "cancelReminders"} /\ (u[i].do = "add" => u[i] \in AddsFor(a))
    <3>1. CASE i = 1
      BY <2>2, <2>7, <3>1
    <3>2. CASE i # 1
      <4>1. i \in 2..(1 + Len(t))
        BY <2>6, <3>2
      <4>. QED  BY <2>7, <2>8, <2>9, <4>1
    <3>. QED  BY <3>1, <3>2
  <2>13. Planned(u, a, TRUE)
    BY <1>2, <2>2, <2>5, <2>10, <2>11, <2>12 DEF Planned, S
  <2>14. ASSUME NEW j \in DOMAIN t
         PROVE  j + 1 \in DOMAIN u /\ u[j + 1] = t[j]
    <3>1. j \in Nat /\ j + 1 \in 2..(1 + Len(t)) /\ (j + 1) - 1 = j
      BY <2>6
    <3>. QED  BY <2>6, <2>7, <3>1
  <2>15. ArmsAll(t) => ArmsAll(u)
    <3>1. ASSUME NEW r \in Reminder \cap follow, NEW j \in DOMAIN t, Arms(t[j], r)
          PROVE  \E i \in DOMAIN u : Arms(u[i], r)
      BY <2>14, <3>1
    <3>. QED  BY <3>1 DEF ArmsAll
  <2>. QED  BY <2>1, <2>13, <2>15 DEF u
<1>. QED  BY <1>1, <1>2

LEMMA AddsThenAdds ==
  ASSUME NEW a, a.start \in Nat, NEW s \in Seq(AddsFor(a)), NEW t \in Seq(AddsFor(a))
  PROVE  s \o t \in Seq(AddsFor(a)) /\ (ArmsAll(t) => ArmsAll(s \o t))
<1>. DEFINE A == AddsFor(a)
<1>. HIDE DEF A
<1>1. s \in Seq(A) /\ t \in Seq(A)
  BY DEF A
<1>2. /\ s \o t \in Seq(A) /\ Len(s \o t) = Len(s) + Len(t)
      /\ \A i \in 1..(Len(s) + Len(t)) : (s \o t)[i] =
             IF i <= Len(s) THEN s[i] ELSE t[i - Len(s)]
  BY <1>1, ConcatProperties
<1>3. /\ DOMAIN t = 1..Len(t) /\ DOMAIN (s \o t) = 1..(Len(s) + Len(t))
      /\ Len(s) \in Nat /\ Len(t) \in Nat
  BY <1>1, <1>2, LenProperties
<1>4. ASSUME NEW j \in DOMAIN t
      PROVE  j + Len(s) \in DOMAIN (s \o t) /\ (s \o t)[j + Len(s)] = t[j]
  <2>1. j \in Nat \ {0} /\ j + Len(s) \in 1..(Len(s) + Len(t)) /\ ~(j + Len(s) <= Len(s))
        /\ (j + Len(s)) - Len(s) = j
    BY <1>3
  <2>. QED  BY <1>2, <1>3, <2>1
<1>5. ArmsAll(t) => ArmsAll(s \o t)
  <2>1. ASSUME NEW r \in Reminder \cap follow, NEW j \in DOMAIN t, Arms(t[j], r)
        PROVE  \E i \in DOMAIN (s \o t) : Arms((s \o t)[i], r)
    BY <1>4, <2>1
  <2>. QED  BY <2>1 DEF ArmsAll
<1>. QED  BY <1>2, <1>5 DEF A

-----------------------------------------------------------------------------
(* The writes *)

(* The handlers keep their form; only who has seen an appointment writes its  *)
(* status.                                                                    *)
TodoInForm ==
    \A c \in Call :
        /\ InForm(todo[c])
        /\ todo[c] # << >> /\ Head(todo[c]).do = "write" => apt # NoAppointment
        /\ \A i \in DOMAIN todo[c] :
             todo[c][i].do = "add" /\ todo[c][i].id[1] \in Timed => todo[c][i].start \in Start

Alive == {"CONFIRMED", "COMPLETED", "NO_SHOW"}

(* A write removes the reminders first and arms those of a CONFIRMED row, or  *)
(* leaves what is armed right for the new row too.                            *)
Wrote(c, a, t, undisturbed, cancels) ==
    /\ Write(c, a, t, undisturbed)
    /\ Planned(t, a, cancels)
    /\ todo[c] = << >> \/ Head(todo[c]).do = "write"
    /\ undisturbed =>
         \/ cancels /\ (a.status = "CONFIRMED" => ArmsAll(t))
         \/ /\ clean /\ ~cancels
            /\ \/ apt = NoAppointment
               \/ apt.start = a.start /\ (apt.status \in Alive => a.status \in Alive)
            /\ a.status = "CONFIRMED" => ArmsAll(t) \/ a = apt

Writing(c) ==
    \E a \in AptRows, t \in Seq(StepRows), undisturbed, cancels \in BOOLEAN :
        Wrote(c, a, t, undisturbed, cancels)

LEMMA WritingIs ==
  ASSUME NEW c \in Call, NEW a \in AptRows, NEW t, NEW undisturbed \in BOOLEAN,
         NEW cancels \in BOOLEAN, Wrote(c, a, t, undisturbed, cancels)
  PROVE  Writing(c)
<1>1. t \in Seq(StepRows)
  BY DEF Wrote, Planned
<1>. QED  BY <1>1 DEF Writing

LEMMA AptIs ==
  ASSUME NoticesShapes
  PROVE  /\ apt \in AptRows \/ apt = NoAppointment
         /\ NoAppointment.status = "none" /\ NoAppointment.start = 0
         /\ \A a \in AptRows : a.status \in Statuses /\ a.start \in Start /\ a.start \in Nat
                             /\ a = [status |-> a.status, start |-> a.start]
         /\ ops \in Nat /\ clean \in BOOLEAN
  BY FollowIs DEF NoticesShapes, AptRows, NoAppointment

LEMMA EmptyPlan ==
  ASSUME NEW a, a.start \in Nat
  PROVE  Planned(<< >>, a, FALSE)
<1>1. << >> \in Seq(AddsFor(a))
  OBVIOUS
<1>. QED  BY <1>1, PlannedAdds

LEMMA CreateWrites ==
  ASSUME NoticesShapes, NEW c \in Call, NEW start \in Start, Create(c, start)
  PROVE  Writing(c)
<1>1. Free(c) /\ apt = NoAppointment
  BY DEF Create
<1>2. start \in Nat /\ ops \in Nat /\ clean \in BOOLEAN
  BY AptIs, FollowIs
<1>3. CASE Write(c, [status |-> "CONFIRMED", start |-> start], ScheduleReminders(start, ops), clean)
  <2>. DEFINE a == [status |-> "CONFIRMED", start |-> start]
              t == ScheduleReminders(start, ops)
  <2>1. a \in AptRows /\ a.start = start /\ a.status = "CONFIRMED"
    BY DEF AptRows, Statuses
  <2>. HIDE DEF a
  <2>2. t \in Seq(AddsFor(a)) /\ ArmsAll(t)
    BY <1>2, <2>1, ScheduleIs
  <2>. HIDE DEF t
  <2>3. Planned(t, a, FALSE)
    BY <1>2, <2>1, <2>2, PlannedAdds
  <2>4. Wrote(c, a, t, clean, FALSE)
    BY <1>1, <1>3, <2>2, <2>3 DEF Wrote, Free, a, t
  <2>. QED  BY <1>2, <2>1, <2>4, WritingIs
<1>4. CASE Write(c, [status |-> "PENDING", start |-> start], Notify("send-pending", 0), clean)
  <2>. DEFINE a == [status |-> "PENDING", start |-> start]
              t == Notify("send-pending", 0)
  <2>1. a \in AptRows /\ a.start = start /\ a.status = "PENDING"
    BY DEF AptRows, Statuses
  <2>. HIDE DEF a
  <2>2. t \in Seq(AddsFor(a))
    BY NotifyIs DEF Prompt
  <2>. HIDE DEF t
  <2>3. Planned(t, a, FALSE)
    BY <1>2, <2>1, <2>2, PlannedAdds
  <2>4. Wrote(c, a, t, clean, FALSE)
    BY <1>1, <1>4, <2>1, <2>3 DEF Wrote, Free, a, t
  <2>. QED  BY <1>2, <2>1, <2>4, WritingIs
<1>. QED  BY <1>3, <1>4 DEF Create

LEMMA ConfirmWrites ==
  ASSUME NoticesShapes, NEW c \in Call, Confirm(c)
  PROVE  Writing(c)
<1>. DEFINE a == [apt EXCEPT !.status = "CONFIRMED"]
            t == ScheduleReminders(apt.start, ops)
<1>1. Free(c) /\ apt # NoAppointment /\ Write(c, a, t, clean)
  BY DEF Confirm
<1>2. apt \in AptRows
  BY <1>1, AptIs
<1>3. a \in AptRows /\ a.start = apt.start /\ a.start \in Nat /\ a.status = "CONFIRMED"
  BY <1>2, AptIs DEF AptRows, Statuses
<1>. HIDE DEF a
<1>4. ops \in Nat /\ clean \in BOOLEAN
  BY AptIs
<1>5. t \in Seq(AddsFor(a)) /\ ArmsAll(t)
  BY <1>3, <1>4, ScheduleIs
<1>. HIDE DEF t
<1>6. Planned(t, a, FALSE)
  BY <1>3, <1>5, PlannedAdds
<1>7. Wrote(c, a, t, clean, FALSE)
  BY <1>1, <1>3, <1>5, <1>6 DEF Wrote, Free, Alive
<1>. QED  BY <1>3, <1>4, <1>7, WritingIs

LEMMA DepositFailedWrites ==
  ASSUME NoticesShapes, NEW c \in Call, DepositFailed(c)
  PROVE  Writing(c)
<1>. DEFINE a == [apt EXCEPT !.status = "CANCELLED"]
            t == Notify("deposit-failed", 0)
<1>1. Free(c) /\ apt.status = "PENDING" /\ Write(c, a, t, clean)
  BY DEF DepositFailed
<1>2. apt \in AptRows
  BY <1>1, AptIs
<1>3. a \in AptRows /\ a.start = apt.start /\ a.start \in Nat /\ a.status = "CANCELLED"
  BY <1>2, AptIs DEF AptRows, Statuses
<1>. HIDE DEF a
<1>4. ops \in Nat /\ clean \in BOOLEAN
  BY AptIs
<1>5. t \in Seq(AddsFor(a))
  BY NotifyIs DEF Prompt
<1>. HIDE DEF t
<1>6. Planned(t, a, FALSE)
  BY <1>3, <1>5, PlannedAdds
<1>7. Wrote(c, a, t, clean, FALSE)
  BY <1>1, <1>3, <1>6 DEF Wrote, Free, Alive
<1>. QED  BY <1>3, <1>4, <1>7, WritingIs

LEMMA RescheduleWrites ==
  ASSUME NoticesShapes, NEW c \in Call, NEW start \in Start, NEW byClient \in BOOLEAN,
         Reschedule(c, start, byClient)
  PROVE  Writing(c)
<1>. DEFINE status == IF byClient THEN "PENDING" ELSE apt.status
            a == [status |-> status, start |-> start]
            told == Notify("send-reschedule", start)
            armed == IF status = "CONFIRMED" THEN ScheduleReminders(start, ops) ELSE << >>
            t == Cancel \o told \o armed
<1>1. Free(c) /\ apt.status \in Statuses /\ Write(c, a, t, TRUE)
  BY AptIs DEF Reschedule, AptRows
<1>2. start \in Nat /\ ops \in Nat
  BY AptIs, FollowIs
<1>3. a \in AptRows /\ a.start = start /\ a.status = status
  BY <1>1 DEF AptRows, Statuses
<1>. HIDE DEF a
<1>4. told \in Seq(AddsFor(a))
  BY <1>2, NotifyIs DEF Prompt
<1>5. armed \in Seq(AddsFor(a)) /\ (status = "CONFIRMED" => ArmsAll(armed))
  <2>1. CASE status = "CONFIRMED"
    BY <1>2, <1>3, <2>1, ScheduleIs
  <2>2. CASE status # "CONFIRMED"
    BY <2>2
  <2>. QED  BY <2>1, <2>2
<1>6. Cancel \in Seq(StepRows)
  <2>. DEFINE k == [do |-> "cancelReminders"]
  <2>1. k \in StepRows
    BY DEF StepRows
  <2>. HIDE DEF k
  <2>2. <<k>> \in Seq(StepRows) /\ << >> \in Seq(StepRows)
    BY <2>1
  <2>. QED  BY <2>2 DEF Cancel, k
<1>7. told \in Seq(StepRows) /\ armed \in Seq(StepRows)
  BY <1>2, <1>3, <1>4, <1>5, AddsAreSteps, SeqMonotonic
<1>. HIDE DEF told, armed, status
<1>8. t = Cancel \o (told \o armed)
  BY <1>6, <1>7, ConcatAssociative
<1>9. told \o armed \in Seq(AddsFor(a)) /\ (status = "CONFIRMED" => ArmsAll(told \o armed))
  BY <1>2, <1>3, <1>4, <1>5, AddsThenAdds
<1>10. Planned(t, a, TRUE) /\ (status = "CONFIRMED" => ArmsAll(t))
  BY <1>2, <1>3, <1>8, <1>9, PlannedCancel
<1>. HIDE DEF t
<1>11. Wrote(c, a, t, TRUE, TRUE)
  BY <1>1, <1>3, <1>10 DEF Wrote, Free
<1>. QED  BY <1>3, <1>11, WritingIs

LEMMA UpdateDetailsWrites ==
  ASSUME NoticesShapes, NEW c \in Call, NEW start \in Start, NEW notifyClient \in BOOLEAN,
         UpdateDetails(c, start, notifyClient)
  PROVE  Writing(c)
<1>1. Free(c) /\ apt # NoAppointment /\ apt \in AptRows
  BY AptIs DEF UpdateDetails
<1>2. start \in Nat /\ ops \in Nat /\ clean \in BOOLEAN /\ apt.start \in Nat
  BY <1>1, AptIs, FollowIs
<1>3. CASE start # apt.start
  <2>. DEFINE a == [apt EXCEPT !.start = start]
              told == IF notifyClient THEN Notify("send-reschedule", start) ELSE << >>
              t == Cancel \o told
  <2>1. Write(c, a, t, FALSE)
    BY <1>3 DEF UpdateDetails
  <2>2. a \in AptRows /\ a.start = start
    BY <1>1 DEF AptRows
  <2>. HIDE DEF a
  <2>3. told \in Seq(AddsFor(a))
    BY <1>2, NotifyIs DEF Prompt
  <2>. HIDE DEF told
  <2>4. Planned(t, a, TRUE)
    BY <1>2, <2>2, <2>3, PlannedCancel
  <2>. HIDE DEF t
  <2>5. Wrote(c, a, t, FALSE, TRUE)
    BY <1>1, <2>1, <2>4 DEF Wrote, Free
  <2>. QED  BY <2>2, <2>5, WritingIs
<1>4. CASE start = apt.start
  <2>. DEFINE t == IF notifyClient THEN Notify("send-confirmation", ops) ELSE << >>
  <2>1. Write(c, apt, t, clean)
    BY <1>4 DEF UpdateDetails
  <2>2. t \in Seq(AddsFor(apt))
    BY <1>2, NotifyIs DEF Prompt
  <2>. HIDE DEF t
  <2>3. Planned(t, apt, FALSE)
    BY <1>2, <2>2, PlannedAdds
  <2>4. Wrote(c, apt, t, clean, FALSE)
    BY <1>1, <2>1, <2>3 DEF Wrote, Free
  <2>. QED  BY <1>1, <1>2, <2>4, WritingIs
<1>. QED  BY <1>3, <1>4

LEMMA UpdateStatusWrites ==
  ASSUME NoticesShapes, TodoInForm, NEW c \in Call, UpdateStatus(c)
  PROVE  Writing(c)
<1>. DEFINE status == Head(todo[c]).status
            a == [apt EXCEPT !.status = status]
<1>1. /\ todo[c] # << >> /\ Head(todo[c]).do = "write"
      /\ CASE status = "CANCELLED" ->
                  \E type \in {"send-cancellation", "send-staff-cancellation"} :
                      Write(c, a, Cancel \o Notify(type, 0), TRUE)
            [] status = "COMPLETED" -> Write(c, a, Notify("review-request", 0), clean)
            [] status = "NO_SHOW" -> Write(c, a, << >>, clean)
            [] status = "CONFIRMED" -> Write(c, a, << >>, FALSE)
  BY DEF UpdateStatus
<1>2. apt \in AptRows
  BY <1>1, AptIs DEF TodoInForm
<1>3. todo[c] \in Seq(StepRows)
  BY DEF NoticesShapes
<1>4. Head(todo[c]) \in StepRows
  BY <1>1, <1>3, HeadTailProperties
<1>5. status \in {"CONFIRMED", "CANCELLED", "COMPLETED", "NO_SHOW"}
  BY <1>1, <1>4 DEF StepRows, AddRows, Statuses
<1>6. a \in AptRows /\ a.start = apt.start /\ a.start \in Nat /\ a.status = status
  BY <1>2, <1>5, AptIs DEF AptRows, Statuses
<1>. HIDE DEF a
<1>7. clean \in BOOLEAN
  BY AptIs
<1>8. CASE status = "CANCELLED"
  <2>1. PICK type \in {"send-cancellation", "send-staff-cancellation"} :
               Write(c, a, Cancel \o Notify(type, 0), TRUE)
    BY <1>1, <1>8
  <2>. DEFINE told == Notify(type, 0)
              t == Cancel \o told
  <2>2. told \in Seq(AddsFor(a))
    BY NotifyIs DEF Prompt
  <2>3. Write(c, a, t, TRUE)
    BY <2>1
  <2>. HIDE DEF told
  <2>4. Planned(t, a, TRUE)
    BY <1>6, <2>2, PlannedCancel
  <2>. HIDE DEF t
  <2>5. Wrote(c, a, t, TRUE, TRUE)
    BY <1>1, <1>6, <1>8, <2>3, <2>4 DEF Wrote
  <2>. QED  BY <1>6, <2>5, WritingIs
<1>9. CASE status = "COMPLETED"
  <2>. DEFINE t == Notify("review-request", 0)
  <2>1. Write(c, a, t, clean)
    BY <1>1, <1>9
  <2>2. t \in Seq(AddsFor(a))
    BY NotifyIs DEF Prompt
  <2>. HIDE DEF t
  <2>3. Planned(t, a, FALSE)
    BY <1>6, <2>2, PlannedAdds
  <2>4. Wrote(c, a, t, clean, FALSE)
    BY <1>1, <1>6, <1>9, <2>1, <2>3 DEF Wrote, Alive
  <2>. QED  BY <1>6, <1>7, <2>4, WritingIs
<1>10. CASE status = "NO_SHOW"
  <2>1. Write(c, a, << >>, clean)
    BY <1>1, <1>10
  <2>2. Planned(<< >>, a, FALSE)
    BY <1>6, EmptyPlan
  <2>3. Wrote(c, a, << >>, clean, FALSE)
    BY <1>1, <1>6, <1>10, <2>1, <2>2 DEF Wrote, Alive
  <2>. QED  BY <1>6, <1>7, <2>3, WritingIs
<1>11. CASE status = "CONFIRMED"
  <2>1. Write(c, a, << >>, FALSE)
    BY <1>1, <1>11
  <2>2. Planned(<< >>, a, FALSE)
    BY <1>6, EmptyPlan
  <2>3. Wrote(c, a, << >>, FALSE, FALSE)
    BY <1>1, <2>1, <2>2 DEF Wrote
  <2>. QED  BY <1>6, <2>3, WritingIs
<1>. QED  BY <1>5, <1>8, <1>9, <1>10, <1>11

-----------------------------------------------------------------------------
(* The jobs and who holds them *)

(* A worker holds a job that is active, alone, and one that is active is held. *)
Held ==
    /\ \A w \in Worker : hand[w] # Idle =>
         /\ hand[w].job \in DOMAIN jobs /\ jobs[hand[w].job].state = "active"
         /\ hand[w].sent => hand[w].left # << >>
    /\ \A id \in DOMAIN jobs : jobs[id].state = "active" =>
         \E w \in Worker : hand[w] # Idle /\ hand[w].job = id
    /\ \A w, v \in Worker :
         hand[w] # Idle /\ hand[v] # Idle /\ hand[w].job = hand[v].job => w = v

States == {"wait", "active", "completed", "failed"}

(* What becomes of one job. *)
Moved(id, state) ==
    /\ id \in DOMAIN jobs /\ jobs' \in [DOMAIN jobs -> JobRows]
    /\ jobs'[id].state = state
    /\ jobs'[id].due = jobs[id].due /\ jobs'[id].expected = jobs[id].expected
    /\ \A j \in DOMAIN jobs : j # id => jobs'[j] = jobs[j]

Dropped(ids) ==
    /\ DOMAIN jobs' = DOMAIN jobs \ ids /\ jobs' \in [DOMAIN jobs \ ids -> JobRows]
    /\ \A j \in DOMAIN jobs \ ids : jobs'[j] = jobs[j]

LEMMA FollowSame ==
  ASSUME UNCHANGED follow
  PROVE  /\ StepRows' = StepRows /\ HandRows' = HandRows
         /\ \A a : AddsFor(a)' = AddsFor(a)
  BY DEF StepRows, HandRows, AddsFor, AddRows

LEMMA JobIs ==
  ASSUME NoticesShapes, NEW id \in DOMAIN jobs
  PROVE  /\ id \in follow \X Nat /\ id[1] \in follow /\ jobs[id] \in JobRows
         /\ jobs[id].state \in States /\ jobs[id].due \in Int /\ jobs[id].expected \in Nat
         /\ jobs[id].left \in 1..Attempts
  BY DEF NoticesShapes, JobRows, States

LEMMA MovedIs ==
  ASSUME NoticesShapes, NEW id \in DOMAIN jobs, NEW state \in States,
         jobs' = [jobs EXCEPT ![id].state = state]
  PROVE  Moved(id, state)
<1>1. jobs[id] \in JobRows /\ jobs \in [DOMAIN jobs -> JobRows]
  BY DEF NoticesShapes
<1>. DEFINE k == [state |-> state, due |-> jobs[id].due, expected |-> jobs[id].expected,
                  left |-> jobs[id].left]
<1>2. [jobs[id] EXCEPT !.state = state] = k /\ k \in JobRows
  BY <1>1 DEF JobRows, States
<1>3. k.state = state /\ k.due = jobs[id].due /\ k.expected = jobs[id].expected
  OBVIOUS
<1>4. jobs' = [jobs EXCEPT ![id] = k]
  BY <1>1, <1>2
<1>. HIDE DEF k
<1>. QED  BY <1>1, <1>2, <1>3, <1>4 DEF Moved

LEMMA ThrownIs ==
  ASSUME NoticesShapes, NEW id \in DOMAIN jobs, jobs' = Thrown(id)
  PROVE  Moved(id, "wait") \/ Moved(id, "failed")
<1>1. jobs[id] \in JobRows /\ jobs \in [DOMAIN jobs -> JobRows]
  BY DEF NoticesShapes
<1>2. CASE jobs[id].left > 1
  <2>. DEFINE k == [state |-> "wait", due |-> jobs[id].due, expected |-> jobs[id].expected,
                    left |-> jobs[id].left - 1]
  <2>1. jobs[id].left \in 1..Attempts /\ Attempts \in Nat \ {0}
    BY JobIs, FollowIs
  <2>. DEFINE j == jobs[id]
              waiting == [j EXCEPT !.state = "wait"]
  <2>2. [waiting EXCEPT !.left = @ - 1] = k
    <3>1. waiting = [state |-> "wait", due |-> j.due, expected |-> j.expected, left |-> j.left]
      BY <1>1 DEF JobRows
    <3>. HIDE DEF waiting, j
    <3>2. [waiting EXCEPT !.left = @ - 1] =
            [state |-> "wait", due |-> j.due, expected |-> j.expected, left |-> j.left - 1]
      BY <3>1
    <3>. QED  BY <3>2 DEF j
  <2>3. k \in JobRows
    BY <1>1, <1>2, <2>1 DEF JobRows
  <2>4. k.state = "wait" /\ k.due = jobs[id].due /\ k.expected = jobs[id].expected
    OBVIOUS
  <2>5. jobs' = [jobs EXCEPT ![id] = k]
    BY <1>1, <1>2, <2>2 DEF Thrown
  <2>. HIDE DEF k
  <2>6. Moved(id, "wait")
    BY <1>1, <2>3, <2>4, <2>5 DEF Moved
  <2>. QED  BY <2>6
<1>3. CASE ~(jobs[id].left > 1)
  BY <1>3, MovedIs DEF Thrown, States
<1>. QED  BY <1>2, <1>3

LEMMA DroppedIs ==
  ASSUME NoticesShapes, NEW ids, jobs' = Without(ids)
  PROVE  Dropped(ids)
  BY DEF NoticesShapes, Without, Dropped

LEMMA CompletedIs ==
  ASSUME NoticesShapes, NEW id \in DOMAIN jobs, jobs' = Completed(id)
  PROVE  Dropped({id}) \/ Moved(id, "completed")
  BY DroppedIs, MovedIs DEF Completed, States

LEMMA AddIs ==
  ASSUME NoticesShapes, NEW id \in follow \X Nat, NEW due \in Int, NEW expected \in Nat,
         jobs' = Add(id, due, expected)
  PROVE  /\ DOMAIN jobs' = DOMAIN jobs \cup {id}
         /\ jobs' \in [DOMAIN jobs' -> JobRows]
         /\ \A j \in DOMAIN jobs : jobs'[j] = jobs[j]
         /\ id \notin DOMAIN jobs =>
              jobs'[id].state = "wait" /\ jobs'[id].due = due /\ jobs'[id].expected = expected
<1>1. jobs \in [DOMAIN jobs -> JobRows]
  BY DEF NoticesShapes
<1>2. CASE id \in DOMAIN jobs
  BY <1>1, <1>2 DEF Add
<1>3. CASE id \notin DOMAIN jobs
  <2>. DEFINE k == [state |-> "wait", due |-> due, expected |-> expected, left |-> Tries(id[1])]
  <2>1. k \in JobRows /\ k.state = "wait" /\ k.due = due /\ k.expected = expected
    BY FollowIs DEF JobRows, Tries
  <2>2. jobs' = Put(jobs, id, k)
    BY <1>3 DEF Add
  <2>. HIDE DEF k
  <2>. QED  BY <1>1, <1>3, <2>1, <2>2 DEF Put
<1>. QED  BY <1>2, <1>3

LEMMA NoPair == \A id \in follow \X Nat : id # << >>
  OBVIOUS

LEMMA HandIs ==
  ASSUME NoticesShapes, NEW w \in Worker
  PROVE  /\ hand[w] # Idle =>
              /\ hand[w] = [job |-> hand[w].job, start |-> hand[w].start, sent |-> hand[w].sent,
                            left |-> hand[w].left]
              /\ hand[w].job \in follow \X Nat /\ hand[w].start \in Nat
              /\ hand[w].sent \in BOOLEAN /\ hand[w].left \in Seq(STRING)
         /\ hand[w] = Idle => \A id \in follow \X Nat : hand[w].job # id
<1>1. hand[w] \in HandRows
  BY DEF NoticesShapes
<1>2. Idle.job = << >>
  BY DEF Idle
<1>. QED  BY <1>1, <1>2, NoPair DEF HandRows

(* A timed job is due where its start says, and no worker touched it before.  *)
JobsAreDue ==
    \A id \in DOMAIN jobs : id[1] \in Timed =>
        /\ jobs[id].expected \in Start /\ jobs[id].due = jobs[id].expected + Offset[id[1]]
        /\ jobs[id].state # "wait" => jobs[id].due <= now

QueueShapes == NoticesShapes /\ TodoInForm /\ Held /\ JobsAreDue

LEMMA HeldOf ==
  ASSUME QueueShapes, NEW w \in Worker, hand[w] # Idle
  PROVE  /\ hand[w].job \in DOMAIN jobs /\ jobs[hand[w].job].state = "active"
         /\ hand[w].job \in follow \X Nat
         /\ hand[w].job[1] \in Timed => jobs[hand[w].job].due <= now
         /\ \A v \in Worker : v # w /\ hand[v] # Idle => hand[v].job # hand[w].job
  BY HandIs DEF QueueShapes, Held, JobsAreDue

(* Jobs that one touches after they are due are due.                          *)
LEMMA MovedAreDue ==
  ASSUME QueueShapes, UNCHANGED now, NEW id \in DOMAIN jobs, NEW state, Moved(id, state),
         jobs[id].due <= now
  PROVE  JobsAreDue'
  BY DEF QueueShapes, JobsAreDue, Moved

LEMMA DroppedAreDue ==
  ASSUME QueueShapes, UNCHANGED now, NEW ids, Dropped(ids)
  PROVE  JobsAreDue'
  BY DEF QueueShapes, JobsAreDue, Dropped

(* The handlers' part, where they do nothing.                                 *)
LEMMA TodoSame ==
  ASSUME TodoInForm, UNCHANGED <<todo, apt, follow>>
  PROVE  TodoInForm'
  BY DEF TodoInForm, InForm

LEMMA TakeShapes ==
  ASSUME QueueShapes, NEW w \in Worker, NEW id \in DOMAIN jobs, Take(w, id)
  PROVE  QueueShapes'
<1>. DEFINE k == [job |-> id, start |-> apt.start, sent |-> FALSE,
                  left |-> IF StillMeant(id) THEN Channel[id[1]] ELSE << >>]
<1>1. /\ hand[w] = Idle /\ jobs[id].state = "wait" /\ jobs[id].due <= now
      /\ hand' = [hand EXCEPT ![w] = k] /\ jobs' = [jobs EXCEPT ![id].state = "active"]
      /\ UNCHANGED <<row, now, todo, log, faults, mailed, clean>>
  BY DEF Take
<1>2. NoticesShapes /\ Held
  BY DEF QueueShapes
<1>3. id \in follow \X Nat /\ Channel[id[1]] \in Seq(STRING) /\ apt.start \in Nat
  BY <1>2, JobIs, AptIs, FollowIs
<1>4. k \in HandRows /\ k.job = id /\ k.sent = FALSE /\ k # Idle
  <2>. DEFINE left == IF StillMeant(id) THEN Channel[id[1]] ELSE << >>
  <2>0. left \in Seq(STRING)
    <3>1. << >> \in Seq(STRING)
      BY EmptySeq
    <3>2. CASE StillMeant(id)
      BY <1>3, <3>2
    <3>3. CASE ~StillMeant(id)
      BY <3>1, <3>3
    <3>. QED  BY <3>2, <3>3
  <2>. HIDE DEF left
  <2>1. k \in HandRows /\ k.job = id /\ k.sent = FALSE
    BY <1>3, <2>0 DEF HandRows, left
  <2>2. id # << >>
    BY <1>3, NoPair
  <2>. QED  BY <2>1, <2>2 DEF Idle
<1>. HIDE DEF k
<1>5. Moved(id, "active")
  BY <1>1, <1>2, MovedIs DEF States
<1>6. /\ hand' \in [Worker -> HandRows] /\ hand'[w] = k
      /\ \A v \in Worker : v # w => hand'[v] = hand[v]
  BY <1>1, <1>2, <1>4 DEF NoticesShapes
<1>7. UNCHANGED follow
  BY <1>1 DEF row
<1>8. NoticesShapes'
  BY <1>1, <1>2, <1>5, <1>6, <1>7, FollowSame DEF NoticesShapes, row, Moved
<1>9. \A v \in Worker : hand[v] # Idle => hand[v].job # id
  BY <1>1, <1>2 DEF Held
<1>10. Held'
  <2>1. ASSUME NEW v \in Worker, hand'[v] # Idle
        PROVE  /\ hand'[v].job \in DOMAIN jobs' /\ jobs'[hand'[v].job].state = "active"
               /\ hand'[v].sent => hand'[v].left # << >>
    BY <1>2, <1>4, <1>5, <1>6, <1>9, <2>1 DEF Held, Moved
  <2>2. ASSUME NEW j \in DOMAIN jobs', jobs'[j].state = "active"
        PROVE  \E v \in Worker : hand'[v] # Idle /\ hand'[v].job = j
    <3>1. CASE j = id
      BY <1>4, <1>6, <3>1
    <3>2. CASE j # id
      <4>1. j \in DOMAIN jobs /\ jobs[j].state = "active"
        BY <1>5, <2>2, <3>2 DEF Moved
      <4>2. PICK v \in Worker : hand[v] # Idle /\ hand[v].job = j
        BY <1>2, <4>1 DEF Held
      <4>. QED  BY <1>1, <1>6, <4>2
    <3>. QED  BY <3>1, <3>2
  <2>3. \A v, u \in Worker : hand'[v] # Idle /\ hand'[u] # Idle /\ hand'[v].job = hand'[u].job => v = u
    BY <1>2, <1>4, <1>6, <1>9 DEF Held
  <2>. QED  BY <2>1, <2>2, <2>3 DEF Held
<1>11. JobsAreDue'
  BY <1>1, <1>5, MovedAreDue
<1>12. TodoInForm'
  BY <1>1, TodoSame DEF QueueShapes, row
<1>. QED  BY <1>8, <1>10, <1>11, <1>12 DEF QueueShapes

(* A worker lets its job go, whatever becomes of it. *)
LEMMA ReleaseShapes ==
  ASSUME QueueShapes, NEW w \in Worker, hand[w] # Idle, hand' = [hand EXCEPT ![w] = Idle],
         \/ \E state \in States \ {"active"} : Moved(hand[w].job, state)
         \/ Dropped({hand[w].job}),
         UNCHANGED <<row, now, todo, mailed, clean>>, faults' \in 0..MaxFaults[follow]
  PROVE  QueueShapes'
<1>. DEFINE id == hand[w].job
<1>1. NoticesShapes /\ Held
  BY DEF QueueShapes
<1>2. /\ id \in DOMAIN jobs /\ jobs[id].state = "active"
      /\ id[1] \in Timed => jobs[id].due <= now
      /\ \A v \in Worker : v # w /\ hand[v] # Idle => hand[v].job # id
  BY HeldOf
<1>. HIDE DEF id
<1>3. /\ hand' \in [Worker -> HandRows] /\ hand'[w] = Idle
      /\ \A v \in Worker : v # w => hand'[v] = hand[v]
  BY <1>1 DEF NoticesShapes, HandRows
<1>4. UNCHANGED follow
  BY DEF row
<1>5. /\ DOMAIN jobs' \subseteq DOMAIN jobs /\ jobs' \in [DOMAIN jobs' -> JobRows]
      /\ \A j \in DOMAIN jobs : j # id => j \in DOMAIN jobs' /\ jobs'[j] = jobs[j]
      /\ id \in DOMAIN jobs' => /\ jobs'[id].state # "active" /\ jobs'[id].due = jobs[id].due
                                /\ jobs'[id].expected = jobs[id].expected
  <2>1. ASSUME NEW state \in States \ {"active"}, Moved(id, state)
        PROVE  <1>5!1 /\ <1>5!2 /\ <1>5!3
    BY <2>1 DEF Moved, States
  <2>2. CASE Dropped({id})
    BY <2>2 DEF Dropped
  <2>. QED  BY <2>1, <2>2 DEF id
<1>6. NoticesShapes'
  BY <1>1, <1>3, <1>4, <1>5, FollowSame DEF NoticesShapes, row
<1>7. Held'
  <2>1. ASSUME NEW v \in Worker, hand'[v] # Idle
        PROVE  v # w /\ hand'[v] = hand[v] /\ hand[v] # Idle
    BY <1>3, <2>1
  <2>2. ASSUME NEW v \in Worker, hand'[v] # Idle
        PROVE  /\ hand'[v].job \in DOMAIN jobs' /\ jobs'[hand'[v].job].state = "active"
               /\ hand'[v].sent => hand'[v].left # << >>
    <3>1. hand[v].job # id /\ hand[v].job \in DOMAIN jobs /\ jobs[hand[v].job].state = "active"
          /\ (hand[v].sent => hand[v].left # << >>)
      BY <1>1, <1>2, <2>1, <2>2 DEF Held
    <3>. QED  BY <1>5, <2>1, <2>2, <3>1
  <2>3. ASSUME NEW j \in DOMAIN jobs', jobs'[j].state = "active"
        PROVE  \E v \in Worker : hand'[v] # Idle /\ hand'[v].job = j
    <3>1. j # id /\ j \in DOMAIN jobs /\ jobs[j].state = "active"
      BY <1>5, <2>3
    <3>2. PICK v \in Worker : hand[v] # Idle /\ hand[v].job = j
      BY <1>1, <3>1 DEF Held
    <3>3. v # w
      BY <3>1, <3>2 DEF id
    <3>. QED  BY <1>3, <3>2, <3>3
  <2>4. \A v, u \in Worker : hand'[v] # Idle /\ hand'[u] # Idle /\ hand'[v].job = hand'[u].job => v = u
    BY <1>1, <2>1 DEF Held
  <2>. QED  BY <2>2, <2>3, <2>4 DEF Held
<1>8. JobsAreDue'
  BY <1>2, <1>5 DEF QueueShapes, JobsAreDue
<1>9. TodoInForm'
  BY TodoSame DEF QueueShapes, row
<1>. QED  BY <1>6, <1>7, <1>8, <1>9 DEF QueueShapes

(* A worker goes on with the job it holds.                                    *)
LEMMA KeepShapes ==
  ASSUME QueueShapes, NEW w \in Worker, hand[w] # Idle, NEW k \in HandRows,
         hand' = [hand EXCEPT ![w] = k], k # Idle, k.job = hand[w].job, k.sent => k.left # << >>,
         UNCHANGED <<row, now, todo, jobs, clean>>, faults' \in 0..MaxFaults[follow],
         mailed' \in [DOMAIN mailed' -> Nat]
  PROVE  QueueShapes'
<1>1. NoticesShapes /\ Held
  BY DEF QueueShapes
<1>2. /\ hand' \in [Worker -> HandRows] /\ hand'[w] = k
      /\ \A v \in Worker : v # w => hand'[v] = hand[v]
  BY <1>1 DEF NoticesShapes
<1>3. UNCHANGED <<follow, jobs, now>>
  BY DEF row
<1>4. NoticesShapes'
  BY <1>1, <1>2, <1>3, FollowSame DEF NoticesShapes, row
<1>5. \A v \in Worker : hand'[v].job = hand[v].job /\ (hand'[v] # Idle <=> hand[v] # Idle)
  BY <1>2
<1>6. \A v \in Worker : hand'[v] # Idle /\ hand'[v].sent => hand'[v].left # << >>
  BY <1>1, <1>2 DEF Held
<1>7. Held'
  BY <1>1, <1>3, <1>5, <1>6 DEF Held
<1>8. JobsAreDue' /\ TodoInForm'
  BY <1>3, TodoSame DEF QueueShapes, JobsAreDue, row
<1>. QED  BY <1>4, <1>7, <1>8 DEF QueueShapes

LEMMA BusyIs ==
  ASSUME QueueShapes, NEW w \in Worker, Busy(w)
  PROVE  /\ hand[w] # Idle /\ hand[w].left # << >>
         /\ Tail(hand[w].left) \in Seq(STRING) /\ Head(hand[w].left) \in STRING
         /\ faults \in 0..MaxFaults[follow] /\ MaxFaults[follow] \in Nat
  BY HandIs, HeadTailProperties, FollowIs DEF Busy, QueueShapes, NoticesShapes

LEMMA BusyHand ==
  ASSUME QueueShapes, NEW w \in Worker, Busy(w)
  PROVE  /\ hand[w] = [job |-> hand[w].job, start |-> hand[w].start, sent |-> hand[w].sent,
                       left |-> hand[w].left]
         /\ hand[w].job \in follow \X Nat /\ hand[w].job # Idle.job /\ hand[w].start \in Nat
         /\ hand[w].sent \in BOOLEAN /\ hand[w].left \in Seq(STRING)
<1>1. NoticesShapes
  BY DEF QueueShapes
<1>2. hand[w] # Idle
  BY BusyIs
<1>3. hand[w].job \in follow \X Nat
  BY <1>1, <1>2, HandIs
<1>4. hand[w].job # Idle.job
  BY <1>3, NoPair DEF Idle
<1>. QED  BY <1>1, <1>2, <1>3, <1>4, HandIs

LEMMA HandWith ==
  ASSUME NEW h, h = [job |-> h.job, start |-> h.start, sent |-> h.sent, left |-> h.left], NEW x
  PROVE  /\ [h EXCEPT !.sent = x] = [job |-> h.job, start |-> h.start, sent |-> x, left |-> h.left]
         /\ [h EXCEPT !.left = x] = [job |-> h.job, start |-> h.start, sent |-> h.sent, left |-> x]
  OBVIOUS

LEMMA SuppressShapes ==
  ASSUME QueueShapes, NEW w \in Worker, Suppress(w)
  PROVE  QueueShapes'
<1>1. /\ Busy(w) /\ ~hand[w].sent /\ hand' = [hand EXCEPT ![w].left = Tail(@)]
      /\ UNCHANGED <<row, now, todo, jobs, log, faults, mailed, clean>>
  BY DEF Suppress
<1>2. NoticesShapes
  BY DEF QueueShapes
<1>. DEFINE k == [job |-> hand[w].job, start |-> hand[w].start, sent |-> FALSE,
                  left |-> Tail(hand[w].left)]
<1>3. k \in HandRows /\ k.job = hand[w].job /\ k.sent = FALSE
  BY <1>1, BusyHand, BusyIs DEF HandRows
<1>4. [hand[w] EXCEPT !.left = Tail(@)] = k
  <2>1. hand[w].sent = FALSE /\ hand[w] = [job |-> hand[w].job, start |-> hand[w].start,
                                          sent |-> hand[w].sent, left |-> hand[w].left]
    BY <1>1, BusyHand
  <2>. QED  BY <2>1, HandWith
<1>5. k # Idle
  BY <1>1, <1>3, BusyHand
<1>6. hand' = [hand EXCEPT ![w] = k]
  BY <1>1, <1>2, <1>4 DEF NoticesShapes
<1>7. mailed' \in [DOMAIN mailed' -> Nat] /\ faults' \in 0..MaxFaults[follow]
  BY <1>1, <1>2 DEF NoticesShapes
<1>. HIDE DEF k
<1>. QED  BY <1>1, <1>3, <1>5, <1>6, <1>7, BusyIs, KeepShapes

LEMMA SendShapes ==
  ASSUME QueueShapes, NEW w \in Worker, Send(w)
  PROVE  QueueShapes'
<1>. DEFINE key == <<hand[w].job, Head(hand[w].left), hand[w].start>>
            n == IF key \in DOMAIN mailed THEN mailed[key] + 1 ELSE 1
<1>1. /\ Busy(w) /\ ~hand[w].sent /\ hand' = [hand EXCEPT ![w].sent = TRUE]
      /\ mailed' = Put(mailed, key, n)
      /\ UNCHANGED <<row, now, todo, jobs, log, faults, clean>>
  BY DEF Send
<1>2. NoticesShapes
  BY DEF QueueShapes
<1>. DEFINE k == [job |-> hand[w].job, start |-> hand[w].start, sent |-> TRUE,
                  left |-> hand[w].left]
<1>3. k \in HandRows /\ k.job = hand[w].job /\ k.left # << >>
  BY <1>1, BusyHand, BusyIs DEF HandRows
<1>4. [hand[w] EXCEPT !.sent = TRUE] = k
  <2>1. hand[w] = [job |-> hand[w].job, start |-> hand[w].start, sent |-> hand[w].sent,
                   left |-> hand[w].left]
    BY <1>1, BusyHand
  <2>. QED  BY <2>1, HandWith
<1>5. k # Idle
  BY <1>1, <1>3, BusyHand
<1>6. hand' = [hand EXCEPT ![w] = k]
  BY <1>1, <1>2, <1>4 DEF NoticesShapes
<1>7. n \in Nat
  BY <1>2 DEF NoticesShapes
<1>. HIDE DEF k, key, n
<1>8. mailed' \in [DOMAIN mailed' -> Nat]
  BY <1>1, <1>2, <1>7 DEF NoticesShapes, Put
<1>9. faults' \in 0..MaxFaults[follow]
  BY <1>1, <1>2 DEF NoticesShapes
<1>. QED  BY <1>1, <1>3, <1>5, <1>6, <1>8, <1>9, BusyIs, KeepShapes

LEMMA LogSentShapes ==
  ASSUME QueueShapes, NEW w \in Worker, LogSent(w)
  PROVE  QueueShapes'
<1>1. /\ Busy(w) /\ hand[w].sent
      /\ hand' = [hand EXCEPT ![w].sent = FALSE, ![w].left = Tail(@)]
      /\ UNCHANGED <<row, now, todo, jobs, mailed, clean>>
      /\ UNCHANGED faults \/ (faults < MaxFaults[follow] /\ faults' = faults + 1)
  BY DEF LogSent
<1>2. NoticesShapes
  BY DEF QueueShapes
<1>. DEFINE h == hand[w]
            unsent == [h EXCEPT !.sent = FALSE]
            k == [job |-> h.job, start |-> h.start, sent |-> FALSE, left |-> Tail(h.left)]
<1>3. k \in HandRows /\ k.job = h.job /\ k.sent = FALSE
  <2>1. h.job \in follow \X Nat /\ h.start \in Nat /\ Tail(h.left) \in Seq(STRING)
    BY <1>1, BusyHand, BusyIs
  <2>. HIDE DEF h
  <2>. QED  BY <2>1 DEF HandRows
<1>4. [unsent EXCEPT !.left = Tail(@)] = k
  <2>1. h = [job |-> h.job, start |-> h.start, sent |-> h.sent, left |-> h.left]
    BY <1>1, BusyHand
  <2>. HIDE DEF h
  <2>2. unsent = [job |-> h.job, start |-> h.start, sent |-> FALSE, left |-> h.left]
    BY <2>1, HandWith
  <2>. HIDE DEF unsent
  <2>3. /\ unsent = [job |-> unsent.job, start |-> unsent.start, sent |-> unsent.sent,
                     left |-> unsent.left]
        /\ unsent.job = h.job /\ unsent.start = h.start /\ unsent.sent = FALSE
        /\ unsent.left = h.left
    BY <2>2
  <2>. QED  BY <2>3, HandWith
<1>5. k # Idle
  BY <1>1, <1>3, BusyHand
<1>6. hand' = [hand EXCEPT ![w] = k]
  BY <1>1, <1>2, <1>4 DEF NoticesShapes
<1>7. mailed' \in [DOMAIN mailed' -> Nat]
  BY <1>1, <1>2 DEF NoticesShapes
<1>8. faults' \in 0..MaxFaults[follow]
  BY <1>1, BusyIs
<1>9. k.job = hand[w].job
  BY <1>3
<1>. HIDE DEF k, h
<1>. QED  BY <1>1, <1>3, <1>5, <1>6, <1>7, <1>8, <1>9, BusyIs, KeepShapes

LEMMA LetGoShapes ==
  ASSUME QueueShapes, NEW w \in Worker, Throw(w) \/ Finish(w) \/ Crash(w)
  PROVE  QueueShapes'
<1>1. /\ hand[w] # Idle /\ hand' = [hand EXCEPT ![w] = Idle]
      /\ UNCHANGED <<row, now, todo, mailed, clean>>
  BY DEF Throw, Finish, Crash
<1>2. NoticesShapes /\ hand[w].job \in DOMAIN jobs
  BY <1>1, HeldOf DEF QueueShapes
<1>3. faults' \in 0..MaxFaults[follow]
  BY <1>2, FollowIs DEF NoticesShapes, Throw, Finish, Crash
<1>4. \/ \E state \in States \ {"active"} : Moved(hand[w].job, state)
      \/ Dropped({hand[w].job})
  <2>1. CASE Throw(w)
    <3>1. Moved(hand[w].job, "wait") \/ Moved(hand[w].job, "failed")
      BY <1>2, <2>1, ThrownIs DEF Throw
    <3>. QED  BY <3>1 DEF States
  <2>2. CASE Finish(w)
    <3>1. Dropped({hand[w].job}) \/ Moved(hand[w].job, "completed")
      BY <1>2, <2>2, CompletedIs DEF Finish
    <3>. QED  BY <3>1 DEF States
  <2>3. CASE Crash(w)
    <3>1. Moved(hand[w].job, "wait")
      BY <1>2, <2>3, MovedIs DEF Crash, States
    <3>. QED  BY <3>1 DEF States
  <2>. QED  BY <2>1, <2>2, <2>3
<1>. QED  BY <1>1, <1>3, <1>4, ReleaseShapes

LEMMA TickShapes ==
  ASSUME QueueShapes, Tick \/ UNCHANGED vars
  PROVE  QueueShapes'
<1>1. /\ UNCHANGED <<row, todo, jobs, hand, log, faults, mailed, clean>>
      /\ now' = now \/ (now < Horizon /\ now' = now + 1)
  BY DEF Tick, vars, row
<1>2. NoticesShapes /\ Horizon \in Nat /\ now \in 0..Horizon
  BY FollowIs DEF QueueShapes, NoticesShapes
<1>3. now' \in 0..Horizon /\ now <= now'
  BY <1>1, <1>2
<1>4. NoticesShapes'
  BY <1>1, <1>2, <1>3, FollowSame DEF NoticesShapes, row
<1>5. \A id \in DOMAIN jobs : jobs[id].due \in Int
  BY <1>2, JobIs
<1>6. JobsAreDue'
  BY <1>1, <1>2, <1>3, <1>5 DEF QueueShapes, JobsAreDue
<1>7. TodoInForm'
  BY <1>1, TodoSame DEF QueueShapes, row
<1>8. Held'
  BY <1>1 DEF QueueShapes, Held
<1>. QED  BY <1>4, <1>6, <1>7, <1>8 DEF QueueShapes

(* Jobs that no worker holds go. *)
LEMMA DropShapes ==
  ASSUME QueueShapes, NEW ids, Dropped(ids), \A id \in ids : ~Locked(id),
         NoticesShapes', TodoInForm', UNCHANGED <<hand, now>>
  PROVE  QueueShapes'
<1>1. Held
  BY DEF QueueShapes
<1>2. \A w \in Worker : hand[w] # Idle => hand[w].job \in DOMAIN jobs \ ids
  BY <1>1 DEF Held, Locked
<1>3. Held'
  BY <1>1, <1>2 DEF Held, Dropped
<1>. QED  BY <1>3, DroppedAreDue DEF QueueShapes

LEMMA PurgeShapes ==
  ASSUME QueueShapes, NEW id \in DOMAIN jobs, Purge(id)
  PROVE  QueueShapes'
<1>1. /\ jobs[id].state \in {"completed", "failed"} /\ jobs' = Without({id})
      /\ UNCHANGED <<now, row, todo, hand, log, faults, mailed, clean>>
  BY DEF Purge
<1>2. NoticesShapes
  BY DEF QueueShapes
<1>3. Dropped({id})
  BY <1>1, <1>2, DroppedIs
<1>4. NoticesShapes'
  BY <1>1, <1>2, <1>3, FollowSame DEF NoticesShapes, row, Dropped
<1>5. TodoInForm'
  BY <1>1, TodoSame DEF QueueShapes, row
<1>. QED  BY <1>1, <1>3, <1>4, <1>5, DropShapes DEF Locked

-----------------------------------------------------------------------------
(* The handlers keep their form *)

LEMMA TodoIs ==
  ASSUME QueueShapes, NEW c \in Call
  PROVE  /\ todo[c] \in Seq(StepRows) /\ InForm(todo[c])
         /\ DOMAIN todo[c] = 1..Len(todo[c]) /\ Len(todo[c]) \in Nat
         /\ todo[c] # << >> => /\ Head(todo[c]) = todo[c][1] /\ Head(todo[c]) \in StepRows
                              /\ 1 \in DOMAIN todo[c]
<1>1. todo[c] \in Seq(StepRows) /\ InForm(todo[c])
  BY DEF QueueShapes, NoticesShapes, TodoInForm
<1>2. DOMAIN todo[c] = 1..Len(todo[c]) /\ Len(todo[c]) \in Nat
  BY <1>1, LenProperties
<1>3. ASSUME todo[c] # << >>
      PROVE  Head(todo[c]) = todo[c][1] /\ 1 \in DOMAIN todo[c]
  BY <1>1, <1>2, <1>3, EmptySeq
<1>4. \A i \in DOMAIN todo[c] : todo[c][i] \in StepRows
  BY <1>1, <1>2, ElementOfSeq
<1>. QED  BY <1>1, <1>2, <1>3, <1>4

LEMMA TailIs ==
  ASSUME QueueShapes, NEW c \in Call, todo[c] # << >>
  PROVE  /\ Tail(todo[c]) \in Seq(StepRows) /\ InForm(Tail(todo[c]))
         /\ \A i \in DOMAIN Tail(todo[c]) :
              /\ i + 1 \in DOMAIN todo[c] /\ Tail(todo[c])[i] = todo[c][i + 1]
              /\ Tail(todo[c])[i].do = "add"
         /\ \A i \in DOMAIN todo[c] : i # 1 =>
              i - 1 \in DOMAIN Tail(todo[c]) /\ Tail(todo[c])[i - 1] = todo[c][i]
         /\ Tail(todo[c]) # << >> => Head(Tail(todo[c])).do = "add"
<1>. DEFINE s == todo[c]
            t == Tail(s)
<1>1. /\ s \in Seq(StepRows) /\ InForm(s) /\ s # << >>
      /\ DOMAIN s = 1..Len(s) /\ Len(s) \in Nat
  BY TodoIs
<1>. HIDE DEF s
<1>2. /\ t \in Seq(StepRows) /\ Len(t) = Len(s) - 1
      /\ \A i \in 1..Len(t) : t[i] = s[i + 1]
  BY <1>1, HeadTailProperties
<1>3. DOMAIN t = 1..Len(t) /\ Len(t) \in Nat
  BY <1>2, LenProperties
<1>4. t # << >> => 1 \in DOMAIN t /\ Head(t) = t[1]
  BY <1>2, <1>3, EmptySeq
<1>. HIDE DEF t
<1>5. \A i \in DOMAIN t : i + 1 \in 2..Len(s) /\ t[i] = s[i + 1]
  BY <1>1, <1>2, <1>3
<1>6. \A i \in DOMAIN t : t[i].do = "add"
  BY <1>1, <1>5 DEF InForm
<1>7. \A i \in DOMAIN s : i # 1 => i - 1 \in DOMAIN t /\ t[i - 1] = s[i]
  <2>1. ASSUME NEW i \in DOMAIN s, i # 1
        PROVE  i - 1 \in DOMAIN t /\ (i - 1) + 1 = i
    BY <1>1, <1>2, <1>3, <2>1
  <2>. QED  BY <1>5, <2>1
<1>8. InForm(t)
  BY <1>3, <1>4, <1>6 DEF InForm
<1>9. \A i \in DOMAIN t : i + 1 \in DOMAIN s /\ t[i] = s[i + 1] /\ t[i].do = "add"
  BY <1>1, <1>5, <1>6
<1>10. t # << >> => Head(t).do = "add"
  BY <1>4, <1>6
<1>. QED  BY <1>2, <1>7, <1>8, <1>9, <1>10 DEF s, t

(* The handler of c has t to do now. *)
LEMMA TodoTo ==
  ASSUME QueueShapes, NEW c \in Call, NEW t \in Seq(StepRows), InForm(t),
         todo' = [todo EXCEPT ![c] = t], UNCHANGED follow,
         apt' = apt \/ apt' # NoAppointment,
         t # << >> /\ Head(t).do = "write" => apt' # NoAppointment,
         \A i \in DOMAIN t : t[i].do = "add" /\ t[i].id[1] \in Timed => t[i].start \in Start
  PROVE  /\ todo' \in [Call -> Seq(StepRows')] /\ TodoInForm'
         /\ todo'[c] = t /\ \A d \in Call : d # c => todo'[d] = todo[d]
<1>1. todo \in [Call -> Seq(StepRows)] /\ TodoInForm
  BY DEF QueueShapes, NoticesShapes
<1>2. /\ todo' \in [Call -> Seq(StepRows)]
      /\ todo'[c] = t /\ \A d \in Call : d # c => todo'[d] = todo[d]
  BY <1>1
<1>3. ASSUME NEW d \in Call
      PROVE  /\ InForm(todo'[d])
             /\ todo'[d] # << >> /\ Head(todo'[d]).do = "write" => apt' # NoAppointment
             /\ \A i \in DOMAIN todo'[d] :
                  todo'[d][i].do = "add" /\ todo'[d][i].id[1] \in Timed => todo'[d][i].start \in Start
  <2>1. CASE d = c
    BY <1>2, <2>1
  <2>2. CASE d # c
    BY <1>1, <1>2, <2>2 DEF TodoInForm
  <2>. QED  BY <2>1, <2>2
<1>4. TodoInForm'
  BY <1>3 DEF TodoInForm, InForm
<1>. QED  BY <1>2, <1>4, FollowSame

LEMMA TodoAloneShapes ==
  ASSUME QueueShapes, TodoInForm', todo' \in [Call -> Seq(StepRows')],
         UNCHANGED <<follow, now, jobs, hand, faults, mailed>>,
         apt' \in AptRows \cup {NoAppointment}, ops' \in 0..MaxOps[follow], clean' \in BOOLEAN
  PROVE  QueueShapes'
<1>1. NoticesShapes'
  BY FollowSame DEF QueueShapes, NoticesShapes
<1>2. Held' /\ JobsAreDue'
  BY DEF QueueShapes, Held, JobsAreDue
<1>. QED  BY <1>1, <1>2 DEF QueueShapes

LEMMA WrittenIs ==
  ASSUME QueueShapes, NEW c \in Call, NEW a \in AptRows, NEW t, NEW undisturbed,
         NEW cancels, Wrote(c, a, t, undisturbed, cancels)
  PROVE  /\ t \in Seq(StepRows) /\ InForm(t)
         /\ t # << >> => Head(t).do # "write" /\ 1 \in DOMAIN t /\ Head(t) = t[1]
         /\ \A i \in DOMAIN t : t[i].do = "add" => t[i] \in AddsFor(a)
         /\ \A i \in DOMAIN t : t[i].do = "add" /\ t[i].id[1] \in Timed =>
              t[i].start = a.start /\ a.status = "CONFIRMED"
         /\ todo' = [todo EXCEPT ![c] = t] /\ apt' = a /\ ops' = ops + 1 /\ ops < MaxOps[follow]
         /\ UNCHANGED <<follow, now, jobs, hand, log, faults, mailed>>
         /\ clean' = (undisturbed /\ Quiet(c))
<1>1. /\ t \in Seq(StepRows) /\ InForm(t)
      /\ \A i \in DOMAIN t :
           t[i].do \in {"add", "cancelReminders"} /\ (t[i].do = "add" => t[i] \in AddsFor(a))
  BY DEF Wrote, Planned
<1>2. t # << >> => 1 \in DOMAIN t /\ Head(t) = t[1]
  BY <1>1, EmptySeq, LenProperties
<1>3. t # << >> => Head(t).do # "write"
  BY <1>1, <1>2
<1>4. ASSUME NEW i \in DOMAIN t, t[i] \in AddsFor(a), t[i].id[1] \in Timed
      PROVE  t[i].start = a.start /\ a.status = "CONFIRMED"
  <2>1. t[i] \notin [do : {"add"}, id : (Prompt \cap follow) \X Nat, start : {0}]
    BY <1>4, NoticesAssumption
  <2>. QED  BY <1>4, <2>1 DEF AddsFor, Arm
<1>. QED  BY <1>1, <1>2, <1>3, <1>4 DEF Wrote, Write

LEMMA WritingShapes ==
  ASSUME QueueShapes, NEW c \in Call, Writing(c)
  PROVE  QueueShapes'
<1>1. PICK a \in AptRows, t \in Seq(StepRows), undisturbed, cancels \in BOOLEAN :
             Wrote(c, a, t, undisturbed, cancels)
  BY DEF Writing
<1>2. NoticesShapes
  BY DEF QueueShapes
<1>3. a # NoAppointment /\ a.start \in Start
  BY <1>2, AptIs DEF Statuses
<1>4. todo' \in [Call -> Seq(StepRows')] /\ TodoInForm'
  <2>. HIDE DEF Wrote
  <2>1. /\ InForm(t) /\ todo' = [todo EXCEPT ![c] = t] /\ UNCHANGED follow /\ apt' = a
        /\ t # << >> => Head(t).do # "write"
        /\ \A i \in DOMAIN t : t[i].do = "add" /\ t[i].id[1] \in Timed => t[i].start \in Start
    BY <1>1, <1>3, WrittenIs
  <2>. QED  BY <1>3, <2>1, TodoTo
<1>5. ops' \in 0..MaxOps[follow]
  BY <1>1, <1>2, WrittenIs, FollowIs DEF NoticesShapes
<1>6. clean' \in BOOLEAN
  <2>1. clean' = (undisturbed /\ Quiet(c))
    BY <1>1, WrittenIs
  <2>. QED  BY <2>1
<1>7. UNCHANGED <<follow, now, jobs, hand, faults, mailed>> /\ apt' \in AptRows
  BY <1>1, WrittenIs
<1>. QED  BY <1>4, <1>5, <1>6, <1>7, TodoAloneShapes

LEMMA RequestStatusShapes ==
  ASSUME QueueShapes, NEW c \in Call, NEW status \in Statuses \ {"PENDING"}, RequestStatus(c, status)
  PROVE  QueueShapes'
<1>. DEFINE k == [do |-> "write", status |-> status]
<1>1. /\ Free(c) /\ apt.status \in DOMAIN ValidTransitions
      /\ todo' = [todo EXCEPT ![c] = <<k>>]
      /\ UNCHANGED <<row, now, jobs, hand, log, faults, mailed, clean>>
  BY DEF RequestStatus
<1>2. NoticesShapes
  BY DEF QueueShapes
<1>3. apt # NoAppointment
  BY <1>1 DEF ValidTransitions, NoAppointment
<1>4. k \in StepRows /\ k.do = "write"
  BY DEF StepRows
<1>. HIDE DEF k
<1>5. <<k>> \in Seq(StepRows) /\ InForm(<<k>>)
      /\ \A i \in DOMAIN <<k>> : <<k>>[i].do # "add"
  BY <1>4 DEF InForm
<1>6. UNCHANGED <<follow, apt, ops>>
  BY <1>1 DEF row
<1>7. todo' \in [Call -> Seq(StepRows')] /\ TodoInForm'
  BY <1>1, <1>3, <1>5, <1>6, TodoTo
<1>. QED  BY <1>1, <1>2, <1>6, <1>7, TodoAloneShapes DEF NoticesShapes

LEMMA CutOffShapes ==
  ASSUME QueueShapes, NEW c \in Call, CutOff(c)
  PROVE  QueueShapes'
<1>1. /\ todo' = [todo EXCEPT ![c] = << >>]
      /\ clean' = (clean /\ Head(todo[c]).do = "write")
      /\ UNCHANGED <<row, now, jobs, hand, log, faults, mailed>>
  BY DEF CutOff
<1>2. << >> \in Seq(StepRows) /\ InForm(<< >>) /\ DOMAIN << >> = {}
  BY DEF InForm
<1>3. UNCHANGED <<follow, apt, ops>>
  BY <1>1 DEF row
<1>4. todo' \in [Call -> Seq(StepRows')] /\ TodoInForm'
  BY <1>1, <1>2, <1>3, TodoTo
<1>5. clean' \in BOOLEAN
  BY <1>1
<1>. QED  BY <1>1, <1>3, <1>4, <1>5, TodoAloneShapes DEF QueueShapes, NoticesShapes

(* The head of a handler is done. *)
LEMMA TailShapes ==
  ASSUME QueueShapes, NEW c \in Call, todo[c] # << >>, todo' = [todo EXCEPT ![c] = Tail(@)],
         UNCHANGED row
  PROVE  /\ todo' \in [Call -> Seq(StepRows')] /\ TodoInForm'
         /\ todo'[c] = Tail(todo[c]) /\ \A d \in Call : d # c => todo'[d] = todo[d]
<1>. DEFINE t == Tail(todo[c])
<1>1. /\ t \in Seq(StepRows) /\ InForm(t) /\ (t # << >> => Head(t).do = "add")
      /\ \A i \in DOMAIN t : i + 1 \in DOMAIN todo[c] /\ t[i] = todo[c][i + 1]
  BY TailIs
<1>2. todo' = [todo EXCEPT ![c] = t] /\ UNCHANGED <<follow, apt>>
  BY DEF row
<1>3. \A i \in DOMAIN t : t[i].do = "add" /\ t[i].id[1] \in Timed => t[i].start \in Start
  BY <1>1 DEF QueueShapes, TodoInForm
<1>. HIDE DEF t
<1>4. /\ todo' \in [Call -> Seq(StepRows')] /\ TodoInForm'
      /\ todo'[c] = t /\ \A d \in Call : d # c => todo'[d] = todo[d]
  BY <1>1, <1>2, <1>3, TodoTo
<1>. QED  BY <1>4 DEF t

LEMMA CancelRemindersShapes ==
  ASSUME QueueShapes, NEW c \in Call, CancelReminders(c)
  PROVE  QueueShapes'
<1>. DEFINE ids == {Id(type, 0) : type \in Timed}
            gone == {i \in ids : ~Locked(i)}
<1>1. /\ todo[c] # << >> /\ todo' = [todo EXCEPT ![c] = Tail(@)]
      /\ jobs' = Without(gone) /\ clean' = (clean /\ \A i \in ids : ~Locked(i))
      /\ UNCHANGED <<row, now, hand, log, faults, mailed>>
  BY DEF CancelReminders
<1>2. NoticesShapes
  BY DEF QueueShapes
<1>3. \A i \in gone : ~Locked(i)
  OBVIOUS
<1>4. clean' \in BOOLEAN
  <2>1. clean' = (clean /\ \A i \in ids : ~Locked(i))
    BY <1>1
  <2>. HIDE DEF ids
  <2>. QED  BY <2>1
<1>. HIDE DEF ids, gone
<1>5. Dropped(gone)
  BY <1>1, <1>2, DroppedIs
<1>6. todo' \in [Call -> Seq(StepRows')] /\ TodoInForm'
  BY <1>1, TailShapes
<1>7. NoticesShapes'
  BY <1>1, <1>2, <1>4, <1>5, <1>6, FollowSame DEF NoticesShapes, row, Dropped
<1>. QED  BY <1>1, <1>3, <1>5, <1>6, <1>7, DropShapes

(* One job is added, or it is late, or its id is taken. *)
LEMMA AddJobIs ==
  ASSUME QueueShapes, NEW c \in Call, AddJob(c)
  PROVE  /\ todo[c] # << >> /\ Head(todo[c]) \in AddRows /\ Head(todo[c]) = todo[c][1]
         /\ todo' = [todo EXCEPT ![c] = Tail(@)]
         /\ UNCHANGED <<row, now, hand, log, faults, mailed, clean>>
         /\ Head(todo[c]).id[1] \in Timed => Head(todo[c]).start \in Start
         /\ jobs' \in [DOMAIN jobs' -> JobRows]
         /\ DOMAIN jobs \subseteq DOMAIN jobs'
         /\ DOMAIN jobs' \subseteq DOMAIN jobs \cup {Head(todo[c]).id}
         /\ \A j \in DOMAIN jobs : jobs'[j] = jobs[j]
         /\ Head(todo[c]).id[1] \in Timed /\ Head(todo[c]).start + Offset[Head(todo[c]).id[1]] > now
              => Head(todo[c]).id \in DOMAIN jobs'
         /\ Head(todo[c]).id \in DOMAIN jobs' \ DOMAIN jobs =>
              /\ jobs'[Head(todo[c]).id].state = "wait"
              /\ jobs'[Head(todo[c]).id].expected = Head(todo[c]).start
              /\ Head(todo[c]).id[1] \in Timed =>
                   jobs'[Head(todo[c]).id].due = Head(todo[c]).start + Offset[Head(todo[c]).id[1]]
<1>. DEFINE step == Head(todo[c])
            type == step.id[1]
            due == IF type \in Timed THEN step.start + Offset[type] ELSE now
<1>1. /\ todo[c] # << >> /\ step.do = "add" /\ todo' = [todo EXCEPT ![c] = Tail(@)]
      /\ UNCHANGED <<row, now, hand, log, faults, mailed, clean>>
      /\ jobs' = IF type \in Timed /\ due <= now THEN jobs ELSE Add(step.id, due, step.start)
  BY DEF AddJob
<1>2. NoticesShapes
  BY DEF QueueShapes
<1>3. step = todo[c][1] /\ step \in StepRows /\ 1 \in DOMAIN todo[c]
  BY <1>1, TodoIs
<1>4. step \in AddRows
  BY <1>1, <1>3 DEF StepRows
<1>5. type \in Timed => step.start \in Start
  BY <1>1, <1>3 DEF QueueShapes, TodoInForm
<1>6. step.id \in follow \X Nat /\ step.start \in Nat
  BY <1>4 DEF AddRows
<1>7. now \in Int /\ due \in Int
  <2>1. now \in Int
    BY <1>2, FollowIs DEF NoticesShapes
  <2>2. Offset \in [Timed -> Int]
    BY <1>2, FollowIs
  <2>. HIDE DEF type, step
  <2>3. CASE type \in Timed
    <3>1. Offset[type] \in Int
      BY <2>2, <2>3
    <3>2. step.start \in Int
      BY <1>6
    <3>. QED  BY <2>1, <2>3, <3>1, <3>2
  <2>4. CASE type \notin Timed
    BY <2>1, <2>4
  <2>. QED  BY <2>1, <2>3, <2>4
<1>8. jobs \in [DOMAIN jobs -> JobRows]
  BY <1>2 DEF NoticesShapes
<1>. HIDE DEF step
<1>9. CASE type \in Timed /\ due <= now
  <2>1. jobs' = jobs
    BY <1>1, <1>9
  <2>2. ~(step.start + Offset[type] > now)
    BY <1>7, <1>9
  <2>. QED  BY <1>1, <1>3, <1>4, <1>5, <1>8, <2>1, <2>2 DEF step
<1>10. CASE ~(type \in Timed /\ due <= now)
  <2>1. jobs' = Add(step.id, due, step.start)
    BY <1>1, <1>10
  <2>. HIDE DEF due
  <2>2. /\ DOMAIN jobs' = DOMAIN jobs \cup {step.id}
        /\ jobs' \in [DOMAIN jobs' -> JobRows]
        /\ \A j \in DOMAIN jobs : jobs'[j] = jobs[j]
        /\ step.id \notin DOMAIN jobs =>
             /\ jobs'[step.id].state = "wait" /\ jobs'[step.id].due = due
             /\ jobs'[step.id].expected = step.start
    BY <1>2, <1>6, <1>7, <2>1, AddIs
  <2>3. type \in Timed => due = step.start + Offset[type]
    BY DEF due
  <2>. QED  BY <1>1, <1>3, <1>4, <1>5, <2>2, <2>3 DEF step
<1>. QED  BY <1>9, <1>10

LEMMA AddJobShapes ==
  ASSUME QueueShapes, NEW c \in Call, AddJob(c)
  PROVE  QueueShapes'
<1>. DEFINE step == Head(todo[c])
<1>1. /\ todo[c] # << >> /\ step \in AddRows
      /\ todo' = [todo EXCEPT ![c] = Tail(@)]
      /\ UNCHANGED <<row, now, hand, log, faults, mailed, clean>>
      /\ step.id[1] \in Timed => step.start \in Start
  BY AddJobIs
<1>2. /\ jobs' \in [DOMAIN jobs' -> JobRows] /\ DOMAIN jobs \subseteq DOMAIN jobs'
      /\ DOMAIN jobs' \subseteq DOMAIN jobs \cup {step.id}
      /\ \A j \in DOMAIN jobs : jobs'[j] = jobs[j]
      /\ step.id \in DOMAIN jobs' \ DOMAIN jobs =>
           /\ jobs'[step.id].state = "wait" /\ jobs'[step.id].expected = step.start
           /\ step.id[1] \in Timed => jobs'[step.id].due = step.start + Offset[step.id[1]]
  BY AddJobIs
<1>3. NoticesShapes /\ Held /\ JobsAreDue
  BY DEF QueueShapes
<1>4. step.id \in follow \X Nat
  BY <1>1 DEF AddRows
<1>. HIDE DEF step
<1>5. todo' \in [Call -> Seq(StepRows')] /\ TodoInForm'
  BY <1>1, TailShapes
<1>6. NoticesShapes'
  BY <1>1, <1>2, <1>3, <1>4, <1>5, FollowSame DEF NoticesShapes, row
<1>7. Held'
  BY <1>1, <1>2, <1>3 DEF Held
<1>8. JobsAreDue'
  BY <1>1, <1>2, <1>3 DEF JobsAreDue
<1>. QED  BY <1>5, <1>6, <1>7, <1>8 DEF QueueShapes

-----------------------------------------------------------------------------
(* Types, and the rows of the queue *)

LEMMA NothingQueued == \A S : << >> \in [{} -> S] /\ DOMAIN << >> = {}
  OBVIOUS

LEMMA QueueShapesInit == Init => QueueShapes
<1>. SUFFICES ASSUME Init PROVE QueueShapes
  OBVIOUS
<1>1. jobs = << >> /\ mailed = << >> /\ follow \in Followed /\ now = 0 /\ apt = NoAppointment
      /\ ops = 0 /\ faults = 0 /\ clean = TRUE /\ todo = [c \in Call |-> << >>]
      /\ hand = [w \in Worker |-> Idle]
  BY DEF Init
<1>2. jobs \in [DOMAIN jobs -> JobRows] /\ DOMAIN jobs = {} /\ mailed \in [DOMAIN mailed -> Nat]
  BY <1>1, NothingQueued
<1>3. MaxOps[follow] \in Nat /\ MaxFaults[follow] \in Nat /\ Horizon \in Nat
  BY <1>1, NoticesAssumption
<1>4. todo \in [Call -> Seq(StepRows)]
  BY <1>1, EmptySeq
<1>5. NoticesShapes
  BY <1>1, <1>2, <1>3, <1>4 DEF NoticesShapes, HandRows
<1>6. Held /\ JobsAreDue
  BY <1>1, <1>2 DEF Held, JobsAreDue
<1>7. TodoInForm
  BY <1>1 DEF TodoInForm, InForm
<1>. QED  BY <1>5, <1>6, <1>7 DEF QueueShapes

LEMMA RequestIs ==
  ASSUME QueueShapes, NEW c \in Call, Request(c) \/ Continue(c) \/ CutOff(c)
  PROVE  \/ Writing(c) \/ CancelReminders(c) \/ AddJob(c) \/ CutOff(c)
         \/ \E status \in Statuses \ {"PENDING"} : RequestStatus(c, status)
<1>1. NoticesShapes /\ TodoInForm
  BY DEF QueueShapes
<1>2. ASSUME Request(c)
      PROVE  Writing(c) \/ \E status \in Statuses \ {"PENDING"} : RequestStatus(c, status)
  <2>1. ASSUME NEW start \in Start, Create(c, start)
        PROVE  Writing(c)
    BY <1>1, <2>1, CreateWrites
  <2>2. ASSUME NEW start \in Start, NEW byClient \in BOOLEAN, Reschedule(c, start, byClient)
        PROVE  Writing(c)
    BY <1>1, <2>2, RescheduleWrites
  <2>3. ASSUME NEW start \in Start, NEW notifyClient \in BOOLEAN,
               UpdateDetails(c, start, notifyClient)
        PROVE  Writing(c)
    BY <1>1, <2>3, UpdateDetailsWrites
  <2>4. Confirm(c) \/ DepositFailed(c) => Writing(c)
    BY <1>1, ConfirmWrites, DepositFailedWrites
  <2>5. ASSUME NEW status \in {"CONFIRMED", "CANCELLED", "COMPLETED", "NO_SHOW"},
               RequestStatus(c, status)
        PROVE  status \in Statuses \ {"PENDING"}
    BY DEF Statuses
  <2>. QED  BY <1>2, <2>1, <2>2, <2>3, <2>4, <2>5 DEF Request
<1>3. UpdateStatus(c) => Writing(c)
  BY <1>1, UpdateStatusWrites
<1>. QED  BY <1>2, <1>3 DEF Continue

LEMMA QueueShapesStep ==
  QueueShapes /\ [Next]_vars => QueueShapes'
<1>. SUFFICES ASSUME QueueShapes, [Next]_vars PROVE QueueShapes'
  OBVIOUS
<1>1. ASSUME NEW c \in Call, Request(c) \/ Continue(c) \/ CutOff(c)
      PROVE  QueueShapes'
  BY <1>1, RequestIs, WritingShapes, CancelRemindersShapes, AddJobShapes, CutOffShapes,
     RequestStatusShapes
<1>2. ASSUME NEW w \in Worker, Work(w) \/ Crash(w)
      PROVE  QueueShapes'
  BY <1>2, TakeShapes, SuppressShapes, SendShapes, LogSentShapes, LetGoShapes DEF Work
<1>3. ASSUME NEW id \in DOMAIN jobs, Purge(id)
      PROVE  QueueShapes'
  BY <1>3, PurgeShapes
<1>. QED  BY <1>1, <1>2, <1>3, TickShapes DEF Next

(* Every variable keeps its type; jobs are kept for the followed types alone, *)
(* and a job is active exactly while a worker holds it.                       *)
THEOREM NoticesTyped == Spec => []TypeOK
<1>1. ASSUME QueueShapes
      PROVE  TypeOK
  <2>1. NoticesShapes /\ Held
    BY <1>1 DEF QueueShapes
  <2>2. ASSUME NEW c \in Call, NEW i \in DOMAIN todo[c]
        PROVE  todo[c][i].do \in {"write", "add", "cancelReminders"}
    <3>1. todo[c] \in Seq(StepRows) /\ DOMAIN todo[c] = 1..Len(todo[c])
      BY <1>1, TodoIs
    <3>2. todo[c][i] \in StepRows
      BY <3>1, ElementOfSeq
    <3>. QED  BY <3>2 DEF StepRows, AddRows
  <2>3. ASSUME NEW id \in DOMAIN jobs
        PROVE  /\ id[1] \in follow /\ jobs[id].state \in States /\ jobs[id].left \in 1..Attempts
               /\ jobs[id].state = "active" <=> \E w \in Worker : hand[w].job = id
    <3>1. id \in follow \X Nat /\ id[1] \in follow /\ jobs[id].state \in States
          /\ jobs[id].left \in 1..Attempts
      BY <2>1, JobIs
    <3>2. \A w \in Worker : hand[w].job = id => hand[w] # Idle
      BY <2>1, <3>1, HandIs
    <3>. QED  BY <2>1, <3>1, <3>2 DEF Held
  <2>4. apt \in [status : Statuses, start : Start] \cup {NoAppointment}
    BY <2>1 DEF NoticesShapes, AptRows
  <2>. QED  BY <2>1, <2>2, <2>3, <2>4 DEF TypeOK, NoticesShapes, States
<1>. QED  BY <1>1, QueueShapesInit, QueueShapesStep, PTL DEF Spec

-----------------------------------------------------------------------------
(* What a job has told the client *)

Sending(w, key) ==
    /\ hand[w] # Idle /\ hand[w].sent
    /\ key = <<hand[w].job, Head(hand[w].left), hand[w].start>>

(* A message beyond those that faults account for is in the delivery log, or  *)
(* is about to be written there by the worker that sent it.                   *)
MailCounted ==
    \A key \in DOMAIN mailed :
        \/ mailed[key] <= faults
        \/ /\ mailed[key] = faults + 1
           /\ <<key[1][1], key[2]>> \in log \/ \E w \in Worker : Sending(w, key)

LEMMA MailBound ==
  ASSUME QueueShapes, MailCounted, NEW key \in DOMAIN mailed
  PROVE  mailed[key] \in Nat /\ faults \in Nat /\ mailed[key] <= faults + 1
<1>1. mailed[key] \in Nat /\ faults \in Nat
  BY FollowIs DEF QueueShapes, NoticesShapes
<1>2. mailed[key] <= faults \/ mailed[key] = faults + 1
  BY DEF MailCounted
<1>. QED  BY <1>1, <1>2

LEMMA MailKept ==
  ASSUME QueueShapes, MailCounted, UNCHANGED <<mailed, log>>, faults' = faults,
         \A v \in Worker : hand[v] # Idle /\ hand[v].sent => hand'[v] = hand[v]
  PROVE  MailCounted'
<1>1. \A v \in Worker : \A key : Sending(v, key) => Sending(v, key)'
  BY DEF Sending
<1>. QED  BY <1>1 DEF MailCounted

LEMMA FaultAccounts ==
  ASSUME QueueShapes, MailCounted, UNCHANGED mailed, faults' = faults + 1
  PROVE  MailCounted'
<1>1. \A key \in DOMAIN mailed : mailed[key] <= faults + 1
  BY MailBound
<1>2. \A key \in DOMAIN mailed' : mailed'[key] <= faults'
  BY <1>1
<1>. QED  BY <1>2 DEF MailCounted

LEMMA SendCounted ==
  ASSUME QueueShapes, MailCounted, NEW w \in Worker, Send(w)
  PROVE  MailCounted'
<1>. DEFINE key == <<hand[w].job, Head(hand[w].left), hand[w].start>>
            n == IF key \in DOMAIN mailed THEN mailed[key] + 1 ELSE 1
<1>1. /\ Busy(w) /\ ~hand[w].sent /\ hand' = [hand EXCEPT ![w].sent = TRUE]
      /\ mailed' = Put(mailed, key, n) /\ ~IsDuplicate(w)
      /\ UNCHANGED <<row, now, todo, jobs, log, faults, clean>>
  BY DEF Send
<1>2. NoticesShapes /\ Held /\ hand[w] # Idle
  BY <1>1 DEF QueueShapes, Busy
<1>3. key[1] = hand[w].job /\ key[2] = Head(hand[w].left)
  OBVIOUS
<1>4. <<key[1][1], key[2]>> \notin log
  BY <1>1, <1>3 DEF IsDuplicate, DedupeKey
<1>5. \A v \in Worker : ~Sending(v, key)
  <2>1. ASSUME NEW v \in Worker, Sending(v, key)
        PROVE  FALSE
    <3>1. hand[v] # Idle /\ hand[v].sent /\ hand[v].job = hand[w].job
      BY <2>1 DEF Sending
    <3>2. v = w
      BY <1>2, <3>1 DEF Held
    <3>. QED  BY <1>1, <3>1, <3>2
  <2>. QED  BY <2>1
<1>6. faults \in Nat /\ \A k \in DOMAIN mailed : mailed[k] \in Nat
  BY <1>2, FollowIs DEF NoticesShapes
<1>7. n \in Nat /\ n <= faults + 1
  BY <1>4, <1>5, <1>6 DEF MailCounted
<1>8. /\ hand'[w] = [hand[w] EXCEPT !.sent = TRUE]
      /\ \A v \in Worker : v # w => hand'[v] = hand[v]
  BY <1>1, <1>2 DEF NoticesShapes
<1>9. ASSUME NEW k, k = key
      PROVE  Sending(w, k)'
  <2>1. hand[w] = [job |-> hand[w].job, start |-> hand[w].start, sent |-> hand[w].sent,
                   left |-> hand[w].left]
        /\ hand[w].job \in follow \X Nat
    BY <1>2, HandIs
  <2>2. hand'[w] = [job |-> hand[w].job, start |-> hand[w].start, sent |-> TRUE,
                    left |-> hand[w].left]
    BY <1>8, <2>1, HandWith
  <2>3. hand'[w] # Idle
    BY <2>1, <2>2, NoPair DEF Idle
  <2>4. hand'[w].sent /\ hand'[w].job = hand[w].job /\ hand'[w].left = hand[w].left
        /\ hand'[w].start = hand[w].start
    BY <2>2
  <2>. QED  BY <1>9, <2>3, <2>4 DEF Sending
<1>10. \A v \in Worker : \A k : Sending(v, k) => Sending(v, k)'
  BY <1>1, <1>8 DEF Sending
<1>. HIDE DEF key, n
<1>11. /\ DOMAIN mailed' = DOMAIN mailed \cup {key} /\ mailed'[key] = n
       /\ \A k \in DOMAIN mailed : k # key => mailed'[k] = mailed[k]
  BY <1>1 DEF Put
<1>12. ASSUME NEW k \in DOMAIN mailed'
       PROVE  \/ mailed'[k] <= faults
              \/ /\ mailed'[k] = faults + 1
                 /\ <<k[1][1], k[2]>> \in log \/ \E v \in Worker : Sending(v, k)'
  <2>1. CASE k = key
    <3>1. n <= faults \/ n = faults + 1
      BY <1>6, <1>7
    <3>2. mailed'[k] = n
      BY <1>11, <2>1
    <3>3. \E v \in Worker : Sending(v, k)'
      BY <1>9, <2>1
    <3>. QED  BY <3>1, <3>2, <3>3
  <2>2. CASE k # key
    BY <1>10, <1>11, <2>2 DEF MailCounted
  <2>. QED  BY <2>1, <2>2
<1>. QED  BY <1>1, <1>12 DEF MailCounted

LEMMA LogSentCounted ==
  ASSUME QueueShapes, MailCounted, NEW w \in Worker, LogSent(w)
  PROVE  MailCounted'
<1>1. /\ Busy(w) /\ hand[w].sent
      /\ hand' = [hand EXCEPT ![w].sent = FALSE, ![w].left = Tail(@)]
      /\ UNCHANGED <<row, now, todo, jobs, mailed, clean>>
  BY DEF LogSent
<1>2. NoticesShapes
  BY DEF QueueShapes
<1>3. CASE UNCHANGED faults /\ log' = log \cup {DedupeKey(w)}
  <2>1. \A v \in Worker : v # w => hand'[v] = hand[v]
    BY <1>1, <1>2 DEF NoticesShapes
  <2>2. \A v \in Worker : \A key : v # w /\ Sending(v, key) => Sending(v, key)'
    BY <2>1 DEF Sending
  <2>3. \A key : Sending(w, key) => <<key[1][1], key[2]>> \in log'
    BY <1>3 DEF Sending, DedupeKey
  <2>4. log \subseteq log'
    BY <1>3
  <2>5. ASSUME NEW key \in DOMAIN mailed
        PROVE  \/ mailed[key] <= faults
               \/ /\ mailed[key] = faults + 1
                  /\ <<key[1][1], key[2]>> \in log' \/ \E v \in Worker : Sending(v, key)'
    BY <2>2, <2>3, <2>4 DEF MailCounted
  <2>. QED  BY <1>1, <1>3, <2>5 DEF MailCounted
<1>4. CASE faults' = faults + 1
  BY <1>1, <1>4, FaultAccounts
<1>. QED  BY <1>3, <1>4 DEF LogSent

LEMMA MailCountedStep ==
  ASSUME QueueShapes, MailCounted, [Next]_vars
  PROVE  MailCounted'
<1>1. ASSUME NEW c \in Call, Request(c) \/ Continue(c) \/ CutOff(c)
      PROVE  MailCounted'
  <2>1. Writing(c) => UNCHANGED <<hand, log, faults, mailed>>
    BY DEF Writing, Wrote, Write
  <2>2. UNCHANGED <<hand, log, faults, mailed>>
    BY <1>1, <2>1, RequestIs DEF CancelReminders, AddJob, CutOff, RequestStatus
  <2>. QED  BY <2>2, MailKept
<1>2. ASSUME NEW w \in Worker,
             \/ \E id \in DOMAIN jobs : Take(w, id)
             \/ Suppress(w) \/ Throw(w) \/ Finish(w)
      PROVE  MailCounted'
  <2>1. NoticesShapes /\ Held
    BY DEF QueueShapes
  <2>2. UNCHANGED <<log, faults, mailed>>
    BY <1>2 DEF Take, Suppress, Throw, Finish
  <2>3. hand[w] = Idle \/ ~hand[w].sent
    BY <1>2, <2>1 DEF Take, Suppress, Throw, Finish, Held
  <2>4. \A v \in Worker : v # w => hand'[v] = hand[v]
    BY <1>2, <2>1 DEF Take, Suppress, Throw, Finish, NoticesShapes
  <2>. QED  BY <2>2, <2>3, <2>4, MailKept
<1>3. ASSUME NEW w \in Worker, Crash(w)
      PROVE  MailCounted'
  BY <1>3, FaultAccounts DEF Crash
<1>4. CASE Tick \/ (\E id \in DOMAIN jobs : Purge(id)) \/ UNCHANGED vars
  BY <1>4, MailKept DEF Tick, Purge, vars
<1>. QED  BY <1>1, <1>2, <1>3, <1>4, SendCounted, LogSentCounted DEF Next, Work

(* However often a job is tried again, and on whichever worker, the client    *)
(* hears of one start at most once on each channel, apart from the faults.    *)
THEOREM OncePerJobAlways == Spec => []OncePerJob
<1>1. Init => QueueShapes /\ MailCounted
  <2>1. Init => MailCounted
    BY NothingQueued DEF Init, MailCounted
  <2>. QED  BY <2>1, QueueShapesInit
<1>2. QueueShapes /\ MailCounted /\ [Next]_vars => QueueShapes' /\ MailCounted'
  BY QueueShapesStep, MailCountedStep
<1>3. QueueShapes /\ MailCounted => OncePerJob
  <2>1. ASSUME QueueShapes, MailCounted, NEW key \in DOMAIN mailed
        PROVE  mailed[key] <= 1 + faults
    <3>1. faults \in Nat /\ mailed[key] \in Nat /\ mailed[key] <= faults + 1
      BY <2>1, MailBound
    <3>. QED  BY <3>1
  <2>. QED  BY <2>1 DEF OncePerJob
<1>. QED  BY <1>1, <1>2, <1>3, PTL DEF Spec

-----------------------------------------------------------------------------
(* What the queue has of the row, and what is on its way there *)

Following(c) == todo[c] # << >> /\ Head(todo[c]).do # "write"

OneFollows == clean => \A c, d \in Call : Following(c) /\ Following(d) => c = d

CancelDue == \E c \in Call : todo[c] # << >> /\ Head(todo[c]).do = "cancelReminders"

ArmDue(r) == \E c \in Call : \E i \in DOMAIN todo[c] : Arms(todo[c][i], r)

(* Once the reminders of before are removed, a job of r is one for the row,   *)
(* and what is missing is still to be added.                                  *)
OnItsWay(r) ==
    /\ \A c \in Call : \A i \in DOMAIN todo[c] :
         Arms(todo[c][i], r) => apt.status = "CONFIRMED" /\ todo[c][i].start = apt.start
    /\ apt.status = "CONFIRMED" /\ CancelDue => ArmDue(r)
    /\ ~CancelDue /\ Id(r, 0) \in DOMAIN jobs =>
         /\ jobs[Id(r, 0)].expected = apt.start
         /\ jobs[Id(r, 0)].state \in {"wait", "active"} => apt.status \in Alive
    /\ apt.status = "CONFIRMED" /\ ~CancelDue /\ ~ArmDue(r) /\ apt.start + Offset[r] > now =>
         Id(r, 0) \in DOMAIN jobs

QueueCatchesUp == OneFollows /\ (clean => \A r \in Reminder \cap follow : OnItsWay(r))

LEMMA ReminderIs ==
  ASSUME QueueShapes, NEW r \in Reminder \cap follow
  PROVE  /\ r \in Timed /\ follow \cap Timed # {} /\ Offset[r] \in Int
         /\ Id(r, 0)[1] = r
         /\ \A step : Arms(step, r) => step.id[1] \in Timed
         /\ apt.start \in Nat /\ now \in Int
         /\ Id(r, 0) \in DOMAIN jobs =>
              /\ jobs[Id(r, 0)].expected \in Start /\ jobs[Id(r, 0)].expected # 0
              /\ jobs[Id(r, 0)].due = jobs[Id(r, 0)].expected + Offset[r]
              /\ jobs[Id(r, 0)].state # "wait" => jobs[Id(r, 0)].due <= now
<1>1. NoticesShapes /\ JobsAreDue
  BY DEF QueueShapes
<1>2. r \in Timed /\ Offset[r] \in Int /\ Start \subseteq Nat \ {0} /\ Horizon \in Nat
  BY <1>1, FollowIs
<1>3. apt.start \in Nat /\ now \in Int
  BY <1>1, <1>2, AptIs DEF NoticesShapes
<1>4. Id(r, 0)[1] = r
  BY DEF Id
<1>. QED  BY <1>1, <1>2, <1>3, <1>4 DEF JobsAreDue, Arms

(* Who does not follow a write has at most a status to write.                 *)
LEMMA NotFollowing ==
  ASSUME QueueShapes, NEW c \in Call, ~Following(c)
  PROVE  /\ \A i \in DOMAIN todo[c] : todo[c][i].do = "write"
         /\ todo[c] # << >> => Head(todo[c]).do = "write"
<1>1. CASE todo[c] = << >>
  BY <1>1, NothingQueued
<1>2. CASE todo[c] # << >>
  <2>1. Head(todo[c]).do = "write" /\ Head(todo[c]) = todo[c][1] /\ InForm(todo[c])
    BY <1>2, TodoIs DEF Following
  <2>2. Len(todo[c]) = 1 /\ DOMAIN todo[c] = 1..Len(todo[c])
    BY <1>2, <2>1, TodoIs DEF InForm
  <2>. QED  BY <2>1, <2>2
<1>. QED  BY <1>1, <1>2

(* The workers and the clock: a job that goes was due. *)
LEMMA WorkersCatchUp ==
  ASSUME QueueShapes, QueueCatchesUp, UNCHANGED <<row, todo, clean>>,
         now' \in Int, now <= now',
         \A id \in DOMAIN jobs' :
             /\ id \in DOMAIN jobs /\ jobs'[id].expected = jobs[id].expected
             /\ jobs'[id].state \in {"wait", "active"} => jobs[id].state \in {"wait", "active"},
         \A id \in DOMAIN jobs \ DOMAIN jobs' : id[1] \in Timed => jobs[id].due <= now
  PROVE  QueueCatchesUp'
<1>1. UNCHANGED <<follow, apt>>
  BY DEF row
<1>2. /\ CancelDue' <=> CancelDue
      /\ \A r : ArmDue(r)' <=> ArmDue(r)
      /\ \A c : Following(c)' <=> Following(c)
  BY DEF CancelDue, ArmDue, Following
<1>3. ASSUME NEW r \in Reminder \cap follow, OnItsWay(r)
      PROVE  OnItsWay(r)'
  <2>. DEFINE id == Id(r, 0)
  <2>1. /\ r \in Timed /\ Offset[r] \in Int /\ id[1] = r /\ apt.start \in Nat /\ now \in Int
        /\ id \in DOMAIN jobs => jobs[id].due = jobs[id].expected + Offset[r]
    BY ReminderIs
  <2>2. id' = id
    BY DEF Id
  <2>. HIDE DEF id
  <2>3. OnItsWay(r)!1'
    BY <1>1, <1>3 DEF OnItsWay
  <2>4. OnItsWay(r)!2'
    BY <1>1, <1>2, <1>3 DEF OnItsWay
  <2>5. ASSUME ~CancelDue, id \in DOMAIN jobs'
        PROVE  /\ jobs'[id].expected = apt.start
               /\ jobs'[id].state \in {"wait", "active"} => apt.status \in Alive
    BY <1>3, <2>5 DEF OnItsWay, id
  <2>6. ASSUME apt.status = "CONFIRMED", ~CancelDue, ~ArmDue(r), apt.start + Offset[r] > now'
        PROVE  id \in DOMAIN jobs'
    <3>1. apt.start + Offset[r] > now
      BY <2>1, <2>6
    <3>2. id \in DOMAIN jobs /\ jobs[id].expected = apt.start
      BY <1>3, <2>6, <3>1 DEF OnItsWay, id
    <3>3. ~(jobs[id].due <= now)
      BY <2>1, <3>1, <3>2
    <3>. QED  BY <2>1, <3>2, <3>3
  <2>. QED  BY <1>1, <1>2, <2>2, <2>3, <2>4, <2>5, <2>6 DEF OnItsWay, id
<1>. QED  BY <1>1, <1>2, <1>3 DEF QueueCatchesUp, OneFollows

LEMMA TakeCatchesUp ==
  ASSUME QueueShapes, QueueCatchesUp, NEW w \in Worker, NEW id \in DOMAIN jobs, Take(w, id)
  PROVE  QueueCatchesUp'
<1>1. /\ UNCHANGED <<row, todo, clean, now>> /\ jobs[id].state = "wait"
      /\ jobs' = [jobs EXCEPT ![id].state = "active"]
  BY DEF Take
<1>2. NoticesShapes /\ now \in Int
  BY FollowIs DEF QueueShapes, NoticesShapes
<1>3. Moved(id, "active")
  BY <1>1, <1>2, MovedIs DEF States
<1>4. DOMAIN jobs' = DOMAIN jobs
  BY <1>3 DEF Moved
<1>5. ASSUME NEW j \in DOMAIN jobs'
      PROVE  /\ j \in DOMAIN jobs /\ jobs'[j].expected = jobs[j].expected
             /\ jobs'[j].state \in {"wait", "active"} => jobs[j].state \in {"wait", "active"}
  BY <1>1, <1>3, <1>4 DEF Moved
<1>. QED  BY <1>1, <1>2, <1>4, <1>5, WorkersCatchUp

(* A worker lets go of its job, which was due. *)
LEMMA LetGoCatchesUp ==
  ASSUME QueueShapes, QueueCatchesUp, NEW w \in Worker, Throw(w) \/ Finish(w) \/ Crash(w)
  PROVE  QueueCatchesUp'
<1>. DEFINE id == hand[w].job
<1>1. /\ UNCHANGED <<row, todo, clean, now>> /\ hand[w] # Idle
      /\ \/ jobs' = Thrown(id)
         \/ jobs' = Completed(id)
         \/ jobs' = [jobs EXCEPT ![id].state = "wait"]
  BY DEF Throw, Finish, Crash
<1>2. NoticesShapes /\ now \in Int
  BY FollowIs DEF QueueShapes, NoticesShapes
<1>3. id \in DOMAIN jobs /\ jobs[id].state = "active" /\ (id[1] \in Timed => jobs[id].due <= now)
  BY <1>1, HeldOf
<1>. HIDE DEF id
<1>4. Dropped({id}) \/ Moved(id, "wait") \/ Moved(id, "failed") \/ Moved(id, "completed")
  BY <1>1, <1>2, <1>3, ThrownIs, CompletedIs, MovedIs DEF States
<1>5. CASE Dropped({id})
  <2>1. DOMAIN jobs' = DOMAIN jobs \ {id} /\ \A j \in DOMAIN jobs \ {id} : jobs'[j] = jobs[j]
    BY <1>5 DEF Dropped
  <2>. QED  BY <1>1, <1>2, <1>3, <2>1, WorkersCatchUp
<1>6. ASSUME NEW state, Moved(id, state)
      PROVE  QueueCatchesUp'
  <2>1. DOMAIN jobs' = DOMAIN jobs
    BY <1>6 DEF Moved
  <2>2. ASSUME NEW j \in DOMAIN jobs'
        PROVE  /\ j \in DOMAIN jobs /\ jobs'[j].expected = jobs[j].expected
               /\ jobs'[j].state \in {"wait", "active"} => jobs[j].state \in {"wait", "active"}
    BY <1>3, <1>6, <2>1 DEF Moved
  <2>. QED  BY <1>1, <1>2, <2>1, <2>2, WorkersCatchUp
<1>. QED  BY <1>4, <1>5, <1>6

LEMMA PurgeCatchesUp ==
  ASSUME QueueShapes, QueueCatchesUp, NEW id \in DOMAIN jobs, Purge(id)
  PROVE  QueueCatchesUp'
<1>1. /\ UNCHANGED <<row, todo, clean, now>> /\ jobs[id].state \in {"completed", "failed"}
      /\ jobs' = Without({id})
  BY DEF Purge
<1>2. NoticesShapes /\ now \in Int /\ JobsAreDue
  BY FollowIs DEF QueueShapes, NoticesShapes
<1>3. DOMAIN jobs' = DOMAIN jobs \ {id} /\ \A j \in DOMAIN jobs \ {id} : jobs'[j] = jobs[j]
  BY <1>1, <1>2, DroppedIs DEF Dropped
<1>4. id[1] \in Timed => jobs[id].due <= now
  BY <1>1, <1>2 DEF JobsAreDue
<1>. QED  BY <1>1, <1>2, <1>3, <1>4, WorkersCatchUp

LEMMA NoJobCatchesUp ==
  ASSUME QueueShapes, QueueCatchesUp, UNCHANGED <<row, todo, clean, jobs>>,
         now' = now \/ now' = now + 1
  PROVE  QueueCatchesUp'
<1>1. now \in Int /\ now' \in Int /\ now <= now'
  BY FollowIs DEF QueueShapes, NoticesShapes
<1>. QED  BY <1>1, WorkersCatchUp

-----------------------------------------------------------------------------
(* The handlers: one at a time follows a write *)

(* What the others have to do arms nothing and removes nothing.               *)
LEMMA OneFollower ==
  ASSUME QueueShapes, OneFollows, clean, NEW c \in Call, Following(c)
  PROVE  /\ CancelDue <=> Head(todo[c]).do = "cancelReminders"
         /\ \A r : ArmDue(r) <=> \E i \in DOMAIN todo[c] : Arms(todo[c][i], r)
         /\ \A d \in Call : d # c =>
              /\ ~Following(d) /\ (todo[d] # << >> => Head(todo[d]).do = "write")
              /\ \A i \in DOMAIN todo[d] : todo[d][i].do = "write"
<1>1. ASSUME NEW d \in Call, d # c
      PROVE  /\ ~Following(d) /\ (todo[d] # << >> => Head(todo[d]).do = "write")
             /\ \A i \in DOMAIN todo[d] : todo[d][i].do = "write"
  BY <1>1, NotFollowing DEF OneFollows
<1>2. todo[c] # << >>
  BY DEF Following
<1>3. \A r : ArmDue(r) <=> \E i \in DOMAIN todo[c] : Arms(todo[c][i], r)
  BY <1>1 DEF ArmDue, Arms
<1>. QED  BY <1>1, <1>2, <1>3 DEF CancelDue

LEMMA NobodyFollows ==
  ASSUME QueueShapes, \A c \in Call : ~Following(c)
  PROVE  ~CancelDue /\ \A r : ~ArmDue(r)
<1>1. \A c \in Call : /\ todo[c] # << >> => Head(todo[c]).do = "write"
                      /\ \A i \in DOMAIN todo[c] : todo[c][i].do = "write"
  BY NotFollowing
<1>. QED  BY <1>1 DEF CancelDue, ArmDue, Arms

(* The steps of a handler that arm reminders, or say a status.                *)
LEMMA WriteStepsCatchUp ==
  ASSUME QueueShapes, QueueCatchesUp, NEW c \in Call, NEW t, QueueShapes',
         todo' = [todo EXCEPT ![c] = t], clean' => clean,
         UNCHANGED <<row, now, jobs>>,
         clean' => ~Following(c), t # << >> => Head(t).do = "write",
         \A i \in DOMAIN t : t[i].do = "write"
  PROVE  QueueCatchesUp'
<1>1. UNCHANGED <<follow, apt>>
  BY DEF row
<1>2. todo'[c] = t /\ \A d \in Call : d # c => todo'[d] = todo[d]
  BY DEF QueueShapes, NoticesShapes
<1>3. SUFFICES ASSUME clean', clean, ~Following(c)
               PROVE  OneFollows' /\ \A r \in Reminder \cap follow : OnItsWay(r)'
  BY <1>1 DEF QueueCatchesUp, OneFollows
<1>4. /\ todo[c] # << >> => Head(todo[c]).do = "write"
      /\ \A i \in DOMAIN todo[c] : todo[c][i].do = "write"
  BY <1>3, NotFollowing
<1>5. \A d \in Call : Following(d)' <=> Following(d)
  BY <1>2, <1>3 DEF Following
<1>6. CancelDue' <=> CancelDue
  BY <1>2, <1>4 DEF CancelDue
<1>7. \A r : ArmDue(r)' <=> ArmDue(r)
  BY <1>2, <1>4 DEF ArmDue, Arms
<1>8. OneFollows'
  BY <1>3, <1>5 DEF QueueCatchesUp, OneFollows
<1>9. ASSUME NEW r \in Reminder \cap follow
      PROVE  OnItsWay(r)'
  <2>1. OnItsWay(r)
    BY <1>3 DEF QueueCatchesUp
  <2>2. \A d \in Call : \A i \in DOMAIN todo'[d] :
          Arms(todo'[d][i], r) => apt.status = "CONFIRMED" /\ todo'[d][i].start = apt.start
    BY <1>2, <2>1 DEF OnItsWay, Arms
  <2>. QED  BY <1>1, <1>6, <1>7, <2>1, <2>2 DEF OnItsWay, Id, Arms
<1>. QED  BY <1>8, <1>9

LEMMA CutOffCatchesUp ==
  ASSUME QueueShapes, QueueCatchesUp, NEW c \in Call, CutOff(c)
  PROVE  QueueCatchesUp'
<1>1. /\ todo' = [todo EXCEPT ![c] = << >>]
      /\ clean' = (clean /\ Head(todo[c]).do = "write")
      /\ UNCHANGED <<row, now, jobs>>
  BY DEF CutOff
<1>2. QueueShapes'
  BY CutOffShapes
<1>3. (clean' => clean) /\ (clean' => ~Following(c))
  BY <1>1 DEF Following
<1>4. \A i \in DOMAIN << >> : << >>[i].do = "write"
  BY NothingQueued
<1>. QED  BY <1>1, <1>2, <1>3, <1>4, WriteStepsCatchUp

LEMMA RequestStatusCatchesUp ==
  ASSUME QueueShapes, QueueCatchesUp, NEW c \in Call, NEW status \in Statuses \ {"PENDING"},
         RequestStatus(c, status)
  PROVE  QueueCatchesUp'
<1>. DEFINE t == <<[do |-> "write", status |-> status]>>
<1>1. todo[c] = << >> /\ todo' = [todo EXCEPT ![c] = t] /\ UNCHANGED <<row, now, jobs, clean>>
  BY DEF RequestStatus, Free
<1>2. QueueShapes'
  BY RequestStatusShapes
<1>3. Head(t).do = "write" /\ \A i \in DOMAIN t : t[i].do = "write"
  OBVIOUS
<1>. HIDE DEF t
<1>4. ~Following(c)
  BY <1>1 DEF Following
<1>. QED  BY <1>1, <1>2, <1>3, <1>4, WriteStepsCatchUp

(* A follower goes on to its next step, which adds a job. *)
LEMMA TailFollows ==
  ASSUME QueueShapes, OneFollows, clean, clean', NEW c \in Call, Following(c),
         todo' = [todo EXCEPT ![c] = Tail(@)], UNCHANGED row
  PROVE  /\ OneFollows' /\ ~CancelDue'
         /\ \A r : ArmDue(r)' <=> \E i \in DOMAIN todo[c] : i # 1 /\ Arms(todo[c][i], r)
         /\ \A d \in Call : \A i \in DOMAIN todo'[d] : \A r :
              Arms(todo'[d][i], r) => \E j \in DOMAIN todo[d] : todo'[d][i] = todo[d][j]
<1>. DEFINE t == Tail(todo[c])
<1>1. todo[c] # << >>
  BY DEF Following
<1>2. /\ \A i \in DOMAIN t : i + 1 \in DOMAIN todo[c] /\ t[i] = todo[c][i + 1]
      /\ \A i \in DOMAIN todo[c] : i # 1 => i - 1 \in DOMAIN t /\ t[i - 1] = todo[c][i]
      /\ t # << >> => Head(t).do = "add"
  BY <1>1, TailIs
<1>3. todo'[c] = t /\ \A d \in Call : d # c => todo'[d] = todo[d]
  BY DEF QueueShapes, NoticesShapes
<1>4. DOMAIN todo[c] = 1..Len(todo[c]) /\ Len(todo[c]) \in Nat
  BY TodoIs
<1>5. \A i \in DOMAIN t : i + 1 \in DOMAIN todo[c] /\ i + 1 # 1 /\ t[i] = todo[c][i + 1]
  <2>1. t \in Seq(StepRows)
    BY <1>1, TailIs
  <2>. HIDE DEF t
  <2>2. DOMAIN t = 1..Len(t) /\ Len(t) \in Nat
    BY <2>1, LenProperties
  <2>3. \A i \in DOMAIN t : i + 1 # 1
    BY <2>2
  <2>. QED  BY <1>2, <2>3
<1>. HIDE DEF t
<1>6. \A d \in Call : d # c =>
        /\ ~Following(d) /\ (todo[d] # << >> => Head(todo[d]).do = "write")
        /\ \A i \in DOMAIN todo[d] : todo[d][i].do = "write"
  BY OneFollower
<1>7. OneFollows'
  BY <1>3, <1>6 DEF OneFollows, Following
<1>8. ~CancelDue'
  BY <1>2, <1>3, <1>6 DEF CancelDue
<1>9. ASSUME NEW r
      PROVE  ArmDue(r)' <=> \E i \in DOMAIN todo[c] : i # 1 /\ Arms(todo[c][i], r)
  <2>1. ArmDue(r)' <=> \E i \in DOMAIN t : Arms(t[i], r)
    BY <1>3, <1>6 DEF ArmDue, Arms, Id
  <2>2. ASSUME NEW i \in DOMAIN t, Arms(t[i], r)
        PROVE  \E j \in DOMAIN todo[c] : j # 1 /\ Arms(todo[c][j], r)
    BY <1>5, <2>2
  <2>3. ASSUME NEW i \in DOMAIN todo[c], i # 1, Arms(todo[c][i], r)
        PROVE  \E j \in DOMAIN t : Arms(t[j], r)
    BY <1>2, <2>3
  <2>. QED  BY <2>1, <2>2, <2>3
<1>10. ASSUME NEW d \in Call, NEW i \in DOMAIN todo'[d]
       PROVE  \E j \in DOMAIN todo[d] : todo'[d][i] = todo[d][j]
  BY <1>3, <1>5, <1>10
<1>. QED  BY <1>7, <1>8, <1>9, <1>10

LEMMA CancelRemindersCatchesUp ==
  ASSUME QueueShapes, QueueCatchesUp, NEW c \in Call, CancelReminders(c)
  PROVE  QueueCatchesUp'
<1>. DEFINE ids == {Id(type, 0) : type \in Timed}
            gone == {i \in ids : ~Locked(i)}
<1>1. /\ todo[c] # << >> /\ Head(todo[c]).do = "cancelReminders"
      /\ todo' = [todo EXCEPT ![c] = Tail(@)]
      /\ jobs' = Without(gone) /\ clean' = (clean /\ \A i \in ids : ~Locked(i))
      /\ UNCHANGED <<row, now, hand, log, faults, mailed>>
  BY DEF CancelReminders
<1>2. UNCHANGED <<follow, apt>>
  BY <1>1 DEF row
<1>3. SUFFICES ASSUME clean' PROVE OneFollows' /\ \A r \in Reminder \cap follow : OnItsWay(r)'
  BY <1>2 DEF QueueCatchesUp, OneFollows
<1>4. clean /\ OneFollows /\ Following(c) /\ gone = ids
  BY <1>1, <1>3 DEF QueueCatchesUp, Following
<1>5. /\ OneFollows' /\ ~CancelDue'
      /\ \A r : ArmDue(r)' <=> \E i \in DOMAIN todo[c] : i # 1 /\ Arms(todo[c][i], r)
      /\ \A d \in Call : \A i \in DOMAIN todo'[d] : \A r :
           Arms(todo'[d][i], r) => \E j \in DOMAIN todo[d] : todo'[d][i] = todo[d][j]
  BY <1>1, <1>3, <1>4, TailFollows
<1>6. \A r \in Timed : Id(r, 0) \notin DOMAIN jobs'
  BY <1>1, <1>4 DEF Without
<1>7. CancelDue /\ todo[c][1].do = "cancelReminders"
  BY <1>1, TodoIs DEF CancelDue
<1>. HIDE DEF ids, gone
<1>8. ASSUME NEW r \in Reminder \cap follow
      PROVE  OnItsWay(r)'
  <2>1. OnItsWay(r) /\ r \in Timed
    BY <1>4, ReminderIs DEF QueueCatchesUp
  <2>2. apt.status = "CONFIRMED" => ArmDue(r)'
    <3>1. apt.status = "CONFIRMED" => \E i \in DOMAIN todo[c] : Arms(todo[c][i], r)
      BY <1>4, <1>7, <2>1, OneFollower DEF OnItsWay
    <3>2. ~Arms(todo[c][1], r)
      BY <1>7 DEF Arms
    <3>. QED  BY <1>5, <3>1, <3>2
  <2>3. \A d \in Call : \A i \in DOMAIN todo'[d] :
          Arms(todo'[d][i], r) => apt.status = "CONFIRMED" /\ todo'[d][i].start = apt.start
    <3>1. ASSUME NEW d \in Call, NEW i \in DOMAIN todo'[d], Arms(todo'[d][i], r)
          PROVE  apt.status = "CONFIRMED" /\ todo'[d][i].start = apt.start
      <4>1. PICK j \in DOMAIN todo[d] : todo'[d][i] = todo[d][j]
        BY <1>5, <3>1
      <4>. QED  BY <2>1, <3>1, <4>1 DEF OnItsWay
    <3>. QED  BY <3>1
  <2>. QED  BY <1>2, <1>5, <1>6, <2>1, <2>2, <2>3 DEF OnItsWay, Id, Arms
<1>. QED  BY <1>5, <1>8

LEMMA AddJobCatchesUp ==
  ASSUME QueueShapes, QueueCatchesUp, NEW c \in Call, AddJob(c)
  PROVE  QueueCatchesUp'
<1>. DEFINE step == Head(todo[c])
<1>1. /\ todo[c] # << >> /\ step \in AddRows /\ step = todo[c][1]
      /\ todo' = [todo EXCEPT ![c] = Tail(@)]
      /\ UNCHANGED <<row, now, hand, log, faults, mailed, clean>>
      /\ DOMAIN jobs \subseteq DOMAIN jobs' /\ DOMAIN jobs' \subseteq DOMAIN jobs \cup {step.id}
      /\ \A j \in DOMAIN jobs : jobs'[j] = jobs[j]
      /\ step.id[1] \in Timed /\ step.start + Offset[step.id[1]] > now => step.id \in DOMAIN jobs'
      /\ step.id \in DOMAIN jobs' \ DOMAIN jobs => jobs'[step.id].expected = step.start
  BY AddJobIs
<1>2. UNCHANGED <<follow, apt, clean>> /\ step.do = "add" /\ 1 \in DOMAIN todo[c]
  BY <1>1, TodoIs DEF row, AddRows
<1>. HIDE DEF step
<1>3. SUFFICES ASSUME clean PROVE OneFollows' /\ \A r \in Reminder \cap follow : OnItsWay(r)'
  BY <1>2 DEF QueueCatchesUp, OneFollows
<1>4. OneFollows /\ Following(c)
  BY <1>1, <1>2, <1>3 DEF QueueCatchesUp, Following, step
<1>5. ~CancelDue
  BY <1>2, <1>3, <1>4, OneFollower DEF step
<1>6. /\ OneFollows' /\ ~CancelDue'
      /\ \A r : ArmDue(r)' <=> \E i \in DOMAIN todo[c] : i # 1 /\ Arms(todo[c][i], r)
      /\ \A d \in Call : \A i \in DOMAIN todo'[d] : \A r :
           Arms(todo'[d][i], r) => \E j \in DOMAIN todo[d] : todo'[d][i] = todo[d][j]
  BY <1>1, <1>2, <1>3, <1>4, TailFollows
<1>7. ASSUME NEW r \in Reminder \cap follow
      PROVE  OnItsWay(r)'
  <2>. DEFINE id == Id(r, 0)
  <2>1. OnItsWay(r) /\ r \in Timed /\ id[1] = r
    BY <1>3, ReminderIs DEF QueueCatchesUp
  <2>2. id' = id
    BY DEF Id
  <2>. HIDE DEF id
  <2>3. step.id = id => Arms(step, r)
    BY <1>2 DEF Arms, id
  <2>4. step.id = id => apt.status = "CONFIRMED" /\ step.start = apt.start
    BY <1>1, <1>2, <2>1, <2>3 DEF OnItsWay
  <2>5. ASSUME id \in DOMAIN jobs'
        PROVE  /\ jobs'[id].expected = apt.start
               /\ jobs'[id].state \in {"wait", "active"} => apt.status \in Alive
    <3>1. CASE id \in DOMAIN jobs
      BY <1>1, <1>5, <2>1, <3>1 DEF OnItsWay, id
    <3>2. CASE id \notin DOMAIN jobs
      <4>1. step.id = id
        BY <1>1, <2>5, <3>2
      <4>. QED  BY <1>1, <2>4, <2>5, <3>2, <4>1 DEF Alive
    <3>. QED  BY <3>1, <3>2
  <2>6. ASSUME apt.status = "CONFIRMED", ~ArmDue(r)', apt.start + Offset[r] > now
        PROVE  id \in DOMAIN jobs'
    <3>1. CASE step.id = id
      BY <1>1, <2>1, <2>4, <2>6, <3>1
    <3>2. CASE step.id # id
      <4>1. ~Arms(todo[c][1], r)
        BY <1>1, <3>2 DEF Arms, id
      <4>2. ~ArmDue(r)
        BY <1>3, <1>4, <1>6, <2>6, <4>1, OneFollower
      <4>. QED  BY <1>1, <1>5, <2>1, <2>6, <4>2 DEF OnItsWay, id
    <3>. QED  BY <3>1, <3>2
  <2>7. \A d \in Call : \A i \in DOMAIN todo'[d] :
          Arms(todo'[d][i], r) => apt.status = "CONFIRMED" /\ todo'[d][i].start = apt.start
    <3>1. ASSUME NEW d \in Call, NEW i \in DOMAIN todo'[d], Arms(todo'[d][i], r)
          PROVE  apt.status = "CONFIRMED" /\ todo'[d][i].start = apt.start
      <4>1. PICK j \in DOMAIN todo[d] : todo'[d][i] = todo[d][j]
        BY <1>6, <3>1
      <4>. QED  BY <2>1, <3>1, <4>1 DEF OnItsWay
    <3>. QED  BY <3>1
  <2>8. UNCHANGED <<apt, now>>
    BY <1>1, <1>2
  <2>. QED  BY <1>6, <2>2, <2>5, <2>6, <2>7, <2>8 DEF OnItsWay, id, Arms, Id
<1>. QED  BY <1>6, <1>7

(* A write that nothing disturbs leaves its handler the only one that follows. *)
LEMMA WritingCatchesUp ==
  ASSUME QueueShapes, QueueCatchesUp, NEW c \in Call, Writing(c)
  PROVE  QueueCatchesUp'
<1>1. PICK a \in AptRows, t \in Seq(StepRows), undisturbed \in BOOLEAN, cancels \in BOOLEAN :
             Wrote(c, a, t, undisturbed, cancels)
  BY DEF Writing
<1>2. /\ InForm(t)
      /\ t # << >> => Head(t).do # "write" /\ 1 \in DOMAIN t /\ Head(t) = t[1]
      /\ \A i \in DOMAIN t : t[i].do = "add" /\ t[i].id[1] \in Timed =>
           t[i].start = a.start /\ a.status = "CONFIRMED"
      /\ todo' = [todo EXCEPT ![c] = t] /\ apt' = a
      /\ UNCHANGED <<follow, now, jobs>> /\ clean' = (undisturbed /\ Quiet(c))
  BY <1>1, WrittenIs
<1>3. /\ t # << >> /\ Head(t).do = "cancelReminders" <=> cancels /\ follow \cap Timed # {}
      /\ todo[c] = << >> \/ Head(todo[c]).do = "write"
      /\ undisturbed =>
           \/ cancels /\ (a.status = "CONFIRMED" => ArmsAll(t))
           \/ /\ clean /\ ~cancels
              /\ \/ apt = NoAppointment
                 \/ apt.start = a.start /\ (apt.status \in Alive => a.status \in Alive)
              /\ a.status = "CONFIRMED" => ArmsAll(t) \/ a = apt
  BY <1>1 DEF Wrote, Planned
<1>. HIDE DEF Wrote
<1>4. SUFFICES ASSUME clean', undisturbed, Quiet(c)
               PROVE  OneFollows' /\ \A r \in Reminder \cap follow : OnItsWay(r)'
  BY <1>2 DEF QueueCatchesUp, OneFollows
<1>5. todo'[c] = t /\ \A d \in Call : d # c => todo[d] = << >> /\ todo'[d] = << >>
  BY <1>2, <1>4 DEF QueueShapes, NoticesShapes, Quiet
<1>6. OneFollows'
  BY <1>5 DEF OneFollows, Following
<1>7. \A r : ArmDue(r)' <=> \E i \in DOMAIN t : Arms(t[i], r)
  <2>1. \A i \in DOMAIN << >> : FALSE
    BY NothingQueued
  <2>. QED  BY <1>5, <2>1 DEF ArmDue, Arms, Id
<1>8. CancelDue' <=> t # << >> /\ Head(t).do = "cancelReminders"
  BY <1>5 DEF CancelDue
<1>9. \A d \in Call : ~Following(d)
  BY <1>3, <1>5 DEF Following
<1>10. ~CancelDue /\ \A r : ~ArmDue(r)
  BY <1>9, NobodyFollows
<1>11. ASSUME NEW r \in Reminder \cap follow
       PROVE  OnItsWay(r)'
  <2>. DEFINE id == Id(r, 0)
  <2>1. /\ r \in Timed /\ follow \cap Timed # {} /\ id[1] = r
        /\ \A step : Arms(step, r) => step.id[1] \in Timed
        /\ id \in DOMAIN jobs => jobs[id].expected # 0
    BY ReminderIs
  <2>2. id' = id
    BY DEF Id
  <2>. HIDE DEF id
  <2>3. \A d \in Call : \A i \in DOMAIN todo'[d] :
          Arms(todo'[d][i], r) => a.status = "CONFIRMED" /\ todo'[d][i].start = a.start
    <3>1. ASSUME NEW d \in Call, NEW i \in DOMAIN todo'[d], Arms(todo'[d][i], r)
          PROVE  d = c
      BY <1>5, <3>1, NothingQueued
    <3>2. \A i \in DOMAIN t : Arms(t[i], r) => a.status = "CONFIRMED" /\ t[i].start = a.start
      BY <1>2, <2>1 DEF Arms
    <3>. QED  BY <1>5, <3>1, <3>2
  <2>4. CASE cancels
    <3>1. CancelDue' /\ (a.status = "CONFIRMED" => ArmDue(r)')
      BY <1>3, <1>4, <1>7, <1>8, <2>1, <2>4 DEF ArmsAll
    <3>. QED  BY <1>2, <2>2, <2>3, <3>1 DEF OnItsWay, id, Arms, Id
  <2>5. CASE ~cancels
    <3>1. ~CancelDue'
      BY <1>3, <1>8, <2>5
    <3>2. OnItsWay(r)
      BY <1>3, <1>4, <2>5 DEF QueueCatchesUp
    <3>3. \/ apt = NoAppointment
          \/ apt.start = a.start /\ (apt.status \in Alive => a.status \in Alive)
      BY <1>3, <1>4, <2>5
    <3>4. ASSUME id \in DOMAIN jobs
          PROVE  /\ jobs[id].expected = a.start
                 /\ jobs[id].state \in {"wait", "active"} => a.status \in Alive
      <4>1. /\ jobs[id].expected = apt.start
            /\ jobs[id].state \in {"wait", "active"} => apt.status \in Alive
        BY <1>10, <3>2, <3>4 DEF OnItsWay, id
      <4>2. apt # NoAppointment
        BY <2>1, <3>4, <4>1 DEF NoAppointment
      <4>. QED  BY <3>3, <4>1, <4>2
    <3>5. ASSUME a.status = "CONFIRMED", ~ArmDue(r)', a.start + Offset[r] > now
          PROVE  id \in DOMAIN jobs
      <4>1. ~ArmsAll(t)
        BY <1>7, <3>5 DEF ArmsAll
      <4>2. a = apt
        BY <1>3, <1>4, <2>5, <3>5, <4>1
      <4>. QED  BY <1>10, <3>2, <3>5, <4>2 DEF OnItsWay, id
    <3>. QED  BY <1>2, <2>2, <2>3, <3>1, <3>4, <3>5 DEF OnItsWay, id, Arms, Id
  <2>. QED  BY <2>4, <2>5
<1>. QED  BY <1>6, <1>11

LEMMA QueueCatchesUpInit == Init => QueueCatchesUp
<1>. SUFFICES ASSUME Init PROVE QueueCatchesUp
  OBVIOUS
<1>1. /\ jobs = << >> /\ apt = NoAppointment /\ \A c \in Call : todo[c] = << >>
  BY DEF Init
<1>2. DOMAIN jobs = {} /\ apt.status # "CONFIRMED"
  BY <1>1, NothingQueued DEF NoAppointment
<1>3. \A c \in Call : \A i \in DOMAIN todo[c] : FALSE
  BY <1>1, NothingQueued
<1>4. \A r \in Reminder : OnItsWay(r)
  BY <1>2, <1>3 DEF OnItsWay
<1>5. OneFollows
  BY <1>1 DEF OneFollows, Following
<1>. QED  BY <1>4, <1>5 DEF QueueCatchesUp

LEMMA QueueCatchesUpStep ==
  QueueShapes /\ QueueCatchesUp /\ [Next]_vars => QueueCatchesUp'
<1>. SUFFICES ASSUME QueueShapes, QueueCatchesUp, [Next]_vars PROVE QueueCatchesUp'
  OBVIOUS
<1>1. ASSUME NEW c \in Call, Request(c) \/ Continue(c) \/ CutOff(c)
      PROVE  QueueCatchesUp'
  BY <1>1, RequestIs, WritingCatchesUp, CancelRemindersCatchesUp, AddJobCatchesUp,
     CutOffCatchesUp, RequestStatusCatchesUp
<1>2. ASSUME NEW w \in Worker, Work(w) \/ Crash(w)
      PROVE  QueueCatchesUp'
  <2>1. CASE Suppress(w) \/ Send(w) \/ LogSent(w)
    <3>1. UNCHANGED <<row, todo, clean, jobs, now>>
      BY <2>1 DEF Suppress, Send, LogSent
    <3>. QED  BY <3>1, NoJobCatchesUp
  <2>. QED  BY <1>2, <2>1, TakeCatchesUp, LetGoCatchesUp DEF Work
<1>3. ASSUME NEW id \in DOMAIN jobs, Purge(id)
      PROVE  QueueCatchesUp'
  BY <1>3, PurgeCatchesUp
<1>4. CASE Tick \/ UNCHANGED vars
  <2>1. UNCHANGED <<row, todo, clean, jobs>> /\ (now' = now \/ now' = now + 1)
    BY <1>4 DEF Tick, vars, row
  <2>. QED  BY <2>1, NoJobCatchesUp
<1>. QED  BY <1>1, <1>2, <1>3, <1>4 DEF Next

(* When no handler is at work and none was disturbed, the reminders in the    *)
(* queue are those of the row: each that is still to come for a CONFIRMED     *)
(* appointment, and none for another start or a pending or cancelled one.     *)
THEOREM QueueFollowsRowAlways == Spec => []QueueFollowsRow
<1>1. ASSUME QueueShapes, QueueCatchesUp, clean, \A c \in Call : todo[c] = << >>,
             NEW r \in Reminder \cap follow
      PROVE  LET id == Id(r, 0)
                 armed == id \in DOMAIN jobs /\ jobs[id].state = "wait"
             IN /\ apt.status = "CONFIRMED" /\ apt.start + Offset[r] > now =>
                       armed /\ jobs[id].expected = apt.start
                /\ armed => /\ jobs[id].expected = apt.start
                            /\ apt.status \in {"CONFIRMED", "COMPLETED", "NO_SHOW"}
  <2>. DEFINE id == Id(r, 0)
  <2>1. OnItsWay(r) /\ \A c \in Call : ~Following(c)
    BY <1>1 DEF QueueCatchesUp, Following
  <2>2. ~CancelDue /\ ~ArmDue(r)
    BY <1>1, <2>1, NobodyFollows
  <2>3. /\ apt.start \in Nat /\ now \in Int /\ Offset[r] \in Int
        /\ id \in DOMAIN jobs =>
             /\ jobs[id].due = jobs[id].expected + Offset[r]
             /\ jobs[id].state # "wait" => jobs[id].due <= now
    BY <1>1, ReminderIs
  <2>. HIDE DEF id
  <2>4. id \in DOMAIN jobs =>
          /\ jobs[id].expected = apt.start
          /\ jobs[id].state \in {"wait", "active"} => apt.status \in Alive
    BY <2>1, <2>2 DEF OnItsWay, id
  <2>5. apt.status = "CONFIRMED" /\ apt.start + Offset[r] > now => id \in DOMAIN jobs
    BY <2>1, <2>2 DEF OnItsWay, id
  <2>6. apt.status = "CONFIRMED" /\ apt.start + Offset[r] > now => jobs[id].state = "wait"
    BY <2>3, <2>4, <2>5
  <2>. QED  BY <2>4, <2>5, <2>6 DEF Alive, id
<1>2. QueueShapes /\ QueueCatchesUp => QueueFollowsRow
  BY <1>1 DEF QueueFollowsRow
<1>3. Init => QueueShapes /\ QueueCatchesUp
  BY QueueShapesInit, QueueCatchesUpInit
<1>4. QueueShapes /\ QueueCatchesUp /\ [Next]_vars => QueueShapes' /\ QueueCatchesUp'
  BY QueueShapesStep, QueueCatchesUpStep
<1>. QED  BY <1>2, <1>3, <1>4, PTL DEF Spec
=============================================================================
