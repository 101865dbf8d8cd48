---------------------------- MODULE MergerProofs ----------------------------
(***************************************************************************)
(* Proofs about the merger, for reports of any size.  The argument is in   *)
(* terms of what an entry of the result says of its two findings (Sound),  *)
(* and of what the loop at work has already placed (Fresh, Placed).        *)
(***************************************************************************)
EXTENDS Merger, WellFoundedInduction, TLAPS

(* Least picks an element of the set: there is a least one.                *)
LEMMA LeastIsMember ==
  ASSUME NEW S \in SUBSET Nat, S # {}
  PROVE  Least(S) \in S
<1> DEFINE Less == {p \in Nat \X Nat : p[1] < p[2]}
<1>1. IsWellFoundedOn(Less, Nat)
  BY NatLessThanWellFounded DEF OpToRel
<1> HIDE DEF Less
<1>2. PICK i \in S : \A j \in S : ~ (<<j, i>> \in Less)
  BY <1>1, WFMin
<1>3. ASSUME NEW j \in S PROVE i <= j
  <2>1. <<j, i>> \in Nat \X Nat /\ <<j, i>>[1] = j /\ <<j, i>>[2] = i
    OBVIOUS
  <2>2. ~ (j < i)
    BY <1>2, <2>1 DEF Less
  <2> QED  BY <2>2
<1> QED  BY <1>3 DEF Least

-----------------------------------------------------------------------------
Tiered(e) ==
  /\ e.tier \in {"static_only", "runtime_confirmed"} \/ e.s = 0
  /\ e.tier = "static_only" => e.s # 0 /\ e.r = 0
  /\ e.tier = "runtime_confirmed" => e.r # 0 /\ runtime[e.r].status = "confirmed"
  /\ e.tier = "runtime_only" => e.r # 0 /\ runtime[e.r].status = "runtime_only"

(* What an entry says of its findings.                                     *)
Sound(e) ==
  /\ e.key \in selected /\ e.key <= key
  /\ e.s # 0 => e.s \in DOMAIN static /\ static[e.s].key = e.key
  /\ e.r # 0 => e.r \in DOMAIN runtime /\ runtime[e.r].key = e.key
  /\ Tiered(e)
  /\ e.s # 0 /\ e.r # 0 => SameSink(e.s, e.r)

(* What a loop has still to place is in no entry.                          *)
Fresh(e) ==
  /\ pc = "static" =>
       e.s \notin todo /\ (e.key = key /\ e.r # 0 => e.r \in used)
  /\ pc = "alone" => e.r \notin todo
  /\ pc \in {"static", "alone"} => e.key # key \/ e.tier # "runtime_only"
  /\ pc = "only" => e.r \notin todo

IInv ==
  /\ TypeOK
  /\ pc \in {"static", "alone", "only"} => key \in selected /\ key \in Keys
  /\ \A n \in DOMAIN combined : Sound(combined[n]) /\ Fresh(combined[n])
  /\ NothingTwice

-----------------------------------------------------------------------------
LEMMA Appending ==
  ASSUME combined \in Seq(Entries), NEW e \in Entries, combined' = Append(combined, e)
  PROVE  /\ combined' \in Seq(Entries)
         /\ Len(combined) \in Nat
         /\ DOMAIN combined = 1 .. Len(combined)
         /\ DOMAIN combined' = 1 .. Len(combined) + 1
         /\ \A n \in DOMAIN combined : combined'[n] = combined[n]
         /\ combined'[Len(combined) + 1] = e
  OBVIOUS

(* One more entry, which shares no finding with those before it.           *)
LEMMA AppendTwice ==
  ASSUME combined \in Seq(Entries), NEW e \in Entries, combined' = Append(combined, e),
         NothingTwice,
         \A n \in DOMAIN combined :
           /\ e.s # 0 => combined[n].s # e.s
           /\ e.r # 0 => combined[n].r # e.r
  PROVE  NothingTwice'
<1> SUFFICES ASSUME NEW m \in DOMAIN combined', NEW n \in DOMAIN combined', m # n
             PROVE  /\ combined'[m].s # 0 => combined'[m].s # combined'[n].s
                    /\ combined'[m].r # 0 => combined'[m].r # combined'[n].r
  BY DEF NothingTwice
<1>1. CASE m \in DOMAIN combined /\ n \in DOMAIN combined
  BY <1>1, Appending DEF NothingTwice
<1>2. CASE m = Len(combined) + 1
  BY <1>2, Appending
<1>3. CASE n = Len(combined) + 1
  BY <1>3, Appending
<1> QED  BY <1>1, <1>2, <1>3, Appending

LEMMA IndexesAreNat ==
  ASSUME TypeOK
  PROVE  /\ DOMAIN static = 1 .. Len(static) /\ Len(static) \in 0 .. MaxFindings
         /\ DOMAIN runtime = 1 .. Len(runtime) /\ Len(runtime) \in 0 .. MaxFindings
         /\ \A k : StaticOf(k) \subseteq 1 .. MaxFindings
         /\ \A k, st : RuntimeOf(k, st) \subseteq 1 .. MaxFindings
  BY MergerAssumption DEF TypeOK, StaticOf, RuntimeOf

LEMMA InitIInv == Init => IInv
<1> SUFFICES ASSUME Init PROVE IInv
  OBVIOUS
<1> USE MergerAssumption
<1>1. static \in Seq(StaticFindings) /\ Len(static) <= MaxFindings
  BY DEF Init
<1>2. runtime \in Seq(RuntimeFindings) /\ Len(runtime) <= MaxFindings
  BY DEF Init
<1>3. combined \in Seq(Entries) /\ DOMAIN combined = {}
  BY DEF Init
<1>4. TypeOK
  BY <1>1, <1>2, <1>3 DEF Init, TypeOK
<1> QED  BY <1>3, <1>4 DEF Init, IInv, NothingTwice

(* A step that appends the entry e keeps the invariant if it keeps the     *)
(* variables typed, e is new and the loop stays clear of every entry.      *)
LEMMA AppendIInv ==
  ASSUME IInv, NEW e \in Entries, combined' = Append(combined, e), TypeOK',
         UNCHANGED <<static, runtime, selected, pc, key>>,
         pc \in {"static", "alone", "only"},
         \A x : Sound(x) /\ Fresh(x) => Fresh(x)',
         Sound(e), Fresh(e)',
         \A n \in DOMAIN combined :
           /\ e.s # 0 => combined[n].s # e.s
           /\ e.r # 0 => combined[n].r # e.r
  PROVE  IInv'
<1>1. combined \in Seq(Entries)
  BY DEF IInv, TypeOK
<1>2. NothingTwice'
  BY <1>1, AppendTwice DEF IInv
<1>3. \A x : Sound(x) => Sound(x)'
  BY DEF Sound, Tiered, SameSink
<1>4. ASSUME NEW n \in DOMAIN combined' PROVE Sound(combined[n])' /\ Fresh(combined[n])'
  <2>1. CASE n \in DOMAIN combined
    <3>1. combined'[n] = combined[n] /\ Sound(combined[n]) /\ Fresh(combined[n])
      BY <1>1, <2>1, Appending DEF IInv
    <3>2. PICK x : x = combined[n]
      OBVIOUS
    <3>3. Sound(x)' /\ Fresh(x)'
      BY <1>3, <3>1, <3>2
    <3> QED  BY <3>1, <3>2, <3>3 DEF Sound, Fresh, Tiered, SameSink
  <2>2. CASE n = Len(combined) + 1
    <3>1. combined'[n] = e
      BY <1>1, <2>2, Appending
    <3>2. Sound(e)' /\ Fresh(e)'
      BY <1>3
    <3> QED  BY <3>1, <3>2 DEF Sound, Fresh, Tiered, SameSink
  <2> QED  BY <1>1, <2>1, <2>2, Appending
<1> QED  BY <1>2, <1>4 DEF IInv

LEMMA NextIInv == IInv /\ [Next]_vars => IInv'
<1> SUFFICES ASSUME IInv, [Next]_vars PROVE IInv'
  OBVIOUS
<1> USE MergerAssumption
<1>0. TypeOK /\ combined \in Seq(Entries) /\ key \in Nat
  BY DEF IInv, TypeOK
<1>a. todo \in SUBSET Nat /\ todo \subseteq 1 .. MaxFindings
  BY IndexesAreNat, <1>0 DEF TypeOK, Confirmed
<1>b. \A n \in DOMAIN combined :
        Sound(combined[n]) /\ Fresh(combined[n]) /\ combined[n].key \in Nat
  <2>1. \A n \in DOMAIN combined : combined[n] \in Entries
    BY <1>0
  <2> QED  BY <2>1 DEF IInv, Entries, Keys
<1>1. CASE Group
  <2>1. TypeOK'
    BY <1>1, <1>0 DEF Group, TypeOK, inputs, Keys, StaticOf, Confirmed, RuntimeOf
  <2>2. ASSUME NEW n \in DOMAIN combined PROVE Sound(combined[n])' /\ Fresh(combined[n])'
    <3>1. combined[n].key < key'
      BY <1>1, <1>0, <1>b DEF Group, Sound
    <3>2. Sound(combined[n])'
      BY <1>1, <1>0, <1>b, <3>1 DEF Group, Sound, Tiered, SameSink, inputs
    <3>3. Fresh(combined[n])'
      BY <1>1, <1>0, <1>b, <3>1, IndexesAreNat
      DEF Group, Sound, Fresh, StaticOf, inputs
    <3> QED  BY <3>2, <3>3
  <2>3. (pc \in {"static", "alone", "only"} => key \in selected /\ key \in Keys)'
    BY <1>1, <1>0 DEF Group, inputs, Keys, TypeOK
  <2> QED  BY <1>1, <2>1, <2>2, <2>3 DEF IInv, Group, NothingTwice
<1>2. CASE Finish
  BY <1>2 DEF Finish, IInv, TypeOK, Sound, Fresh, Tiered, SameSink, NothingTwice,
              inputs, StaticOf, Confirmed, RuntimeOf
<1>3. CASE Match
  <2>1. PICK i : i = Least(todo)
    OBVIOUS
  <2>2. i \in todo /\ i \in StaticOf(key) /\ i \in 1 .. MaxFindings
    BY <1>3, <1>a, <1>0, <2>1, LeastIsMember DEF Match, TypeOK
  <2>3. PICK free : free = {j \in Confirmed \ used : SameSink(i, j)}
    OBVIOUS
  <2>4. free # {} => Least(free) \in free /\ Least(free) \in 1 .. MaxFindings
    <3>1. free \in SUBSET Nat /\ free \subseteq 1 .. MaxFindings
      BY <2>3, IndexesAreNat, <1>0 DEF Confirmed
    <3> QED  BY <3>1, LeastIsMember
  <2>5. PICK j : j = IF free = {} THEN 0 ELSE Least(free)
    OBVIOUS
  <2>6. PICK e : e = Entry(IF free = {} THEN "static_only" ELSE "runtime_confirmed", i, j)
    OBVIOUS
  <2>7. key \in selected /\ key \in Keys /\ pc = "static"
    BY <1>3 DEF Match, IInv
  <2>8. /\ combined' = Append(combined, e)
        /\ used' = IF free = {} THEN used ELSE used \union {j}
        /\ todo' = todo \ {i}
        /\ UNCHANGED <<static, runtime, selected, pc, key>>
    BY <1>3, <2>1, <2>3, <2>5, <2>6 DEF Match, inputs
  <2>9. /\ j \in 0 .. MaxFindings /\ (j = 0 <=> free = {})
        /\ j # 0 => j \in Confirmed \ used /\ SameSink(i, j)
    BY <2>3, <2>4, <2>5
  <2>10. /\ e \in Entries /\ e.s = i /\ e.key = key /\ e.r = j
         /\ e.tier = IF j = 0 THEN "static_only" ELSE "runtime_confirmed"
    BY <2>2, <2>6, <2>7, <2>9 DEF Entry, Entries, Tiers
  <2>11. Sound(e)
    BY <2>2, <2>7, <2>9, <2>10, <1>0
    DEF Sound, Tiered, StaticOf, Confirmed, RuntimeOf
  <2>12. TypeOK'
    <3>1. used' \subseteq Confirmed'
      BY <2>8, <2>9, <1>0 DEF TypeOK, Confirmed, RuntimeOf
    <3>2. todo' \subseteq StaticOf(key)'
      BY <2>7, <2>8, <1>0 DEF TypeOK, StaticOf
    <3>3. combined' \in Seq(Entries)
      BY <2>8, <2>10, <1>0
    <3> QED  BY <3>1, <3>2, <3>3, <2>7, <2>8, <1>0 DEF TypeOK
  <2>13. \A x : Sound(x) /\ Fresh(x) => Fresh(x)'
    BY <2>7, <2>8 DEF Fresh
  <2>14. Fresh(e)'
    BY <2>7, <2>8, <2>9, <2>10, <1>0 DEF Fresh
  <2>15. \A n \in DOMAIN combined :
           /\ e.s # 0 => combined[n].s # e.s
           /\ e.r # 0 => combined[n].r # e.r
    BY <1>b, <2>2, <2>7, <2>9, <2>10 DEF Fresh, Sound, Confirmed, RuntimeOf
  <2> QED  BY <2>7, <2>8, <2>10, <2>11, <2>12, <2>13, <2>14, <2>15, AppendIInv
<1>4. CASE MatchEnds
  <2>1. TypeOK'
    BY <1>4, <1>0 DEF MatchEnds, TypeOK, inputs, Confirmed, RuntimeOf
  <2>2. ASSUME NEW n \in DOMAIN combined PROVE Sound(combined[n])' /\ Fresh(combined[n])'
    BY <1>4, <1>b, <1>0, IndexesAreNat
    DEF MatchEnds, Sound, Tiered, SameSink, Fresh, inputs, Confirmed, RuntimeOf
  <2> QED  BY <1>4, <2>1, <2>2 DEF IInv, MatchEnds, NothingTwice, inputs
<1>5. CASE Alone
  <2>1. PICK j : j = Least(todo)
    OBVIOUS
  <2>2. PICK e : e = Entry("runtime_confirmed", 0, j)
    OBVIOUS
  <2>3. key \in selected /\ key \in Keys /\ pc = "alone"
    BY <1>5 DEF Alone, IInv
  <2>4. j \in todo /\ j \in Confirmed \ used /\ j \in 1 .. MaxFindings
    BY <1>5, <1>a, <1>0, <2>1, <2>3, LeastIsMember DEF Alone, TypeOK
  <2>5. /\ combined' = Append(combined, e) /\ todo' = todo \ {j}
        /\ UNCHANGED <<static, runtime, selected, pc, key, used>>
    BY <1>5, <2>1, <2>2 DEF Alone, inputs
  <2>6. /\ e \in Entries /\ e.s = 0 /\ e.key = key /\ e.r = j
        /\ e.tier = "runtime_confirmed"
    BY <2>2, <2>3, <2>4 DEF Entry, Entries, Tiers
  <2>7. Sound(e)
    BY <2>3, <2>4, <2>6, <1>0 DEF Sound, Tiered, Confirmed, RuntimeOf
  <2>8. TypeOK'
    <3>1. combined' \in Seq(Entries)
      BY <2>5, <2>6, <1>0
    <3> QED  BY <3>1, <2>3, <2>5, <1>0 DEF TypeOK, Confirmed, RuntimeOf
  <2>9. \A x : Sound(x) /\ Fresh(x) => Fresh(x)'
    BY <2>3, <2>5 DEF Fresh
  <2>10. Fresh(e)'
    BY <2>3, <2>5, <2>6 DEF Fresh
  <2>11. \A n \in DOMAIN combined : combined[n].r # e.r
    BY <1>b, <2>3, <2>4, <2>6 DEF Fresh
  <2> QED  BY <2>3, <2>5, <2>6, <2>7, <2>8, <2>9, <2>10, <2>11, AppendIInv
<1>6. CASE AloneEnds
  <2>1. TypeOK'
    BY <1>6, <1>0 DEF AloneEnds, TypeOK, inputs, Confirmed, RuntimeOf
  <2>2. ASSUME NEW n \in DOMAIN combined PROVE Sound(combined[n])' /\ Fresh(combined[n])'
    <3>1. Sound(combined[n])'
      BY <1>6, <1>b DEF AloneEnds, Sound, Tiered, SameSink, inputs
    <3>2. ASSUME combined[n].r \in RuntimeOf(key, "runtime_only") PROVE FALSE
      <4>1. combined[n].r # 0 /\ runtime[combined[n].r].key = key
            /\ runtime[combined[n].r].status = "runtime_only"
        BY <3>2, <1>0, IndexesAreNat DEF RuntimeOf
      <4>2. combined[n] \in Entries
        BY <1>0
      <4> QED  BY <1>6, <1>b, <4>1, <4>2
               DEF AloneEnds, Sound, Tiered, Fresh, Entries, Tiers
    <3>3. Fresh(combined[n])'
      BY <1>6, <3>2 DEF AloneEnds, Fresh, inputs
    <3> QED  BY <3>1, <3>3
  <2> QED  BY <1>6, <2>1, <2>2 DEF IInv, AloneEnds, NothingTwice, inputs
<1>7. CASE Only
  <2>1. PICK j : j = Least(todo)
    OBVIOUS
  <2>2. PICK e : e = Entry("runtime_only", 0, j)
    OBVIOUS
  <2>3. key \in selected /\ key \in Keys /\ pc = "only"
    BY <1>7 DEF Only, IInv
  <2>4. j \in todo /\ j \in RuntimeOf(key, "runtime_only") /\ j \in 1 .. MaxFindings
    BY <1>7, <1>a, <1>0, <2>1, <2>3, LeastIsMember DEF Only, TypeOK
  <2>5. /\ combined' = Append(combined, e) /\ todo' = todo \ {j}
        /\ UNCHANGED <<static, runtime, selected, pc, key, used>>
    BY <1>7, <2>1, <2>2 DEF Only, inputs
  <2>6. /\ e \in Entries /\ e.s = 0 /\ e.key = key /\ e.r = j
        /\ e.tier = "runtime_only"
    BY <2>2, <2>3, <2>4 DEF Entry, Entries, Tiers
  <2>7. Sound(e)
    BY <2>3, <2>4, <2>6, <1>0 DEF Sound, Tiered, RuntimeOf
  <2>8. TypeOK'
    <3>1. combined' \in Seq(Entries)
      BY <2>5, <2>6, <1>0
    <3> QED  BY <3>1, <2>3, <2>5, <1>0 DEF TypeOK, Confirmed, RuntimeOf
  <2>9. \A x : Sound(x) /\ Fresh(x) => Fresh(x)'
    BY <2>3, <2>5 DEF Fresh
  <2>10. Fresh(e)'
    BY <2>3, <2>5, <2>6 DEF Fresh
  <2>11. \A n \in DOMAIN combined : combined[n].r # e.r
    BY <1>b, <2>3, <2>4, <2>6 DEF Fresh
  <2> QED  BY <2>3, <2>5, <2>6, <2>7, <2>8, <2>9, <2>10, <2>11, AppendIInv
<1>8. CASE OnlyEnds
  BY <1>8 DEF OnlyEnds, IInv, TypeOK, Sound, Fresh, Tiered, SameSink, NothingTwice,
              inputs, StaticOf, Confirmed, RuntimeOf
<1>9. CASE UNCHANGED vars
  BY <1>9 DEF vars, IInv, TypeOK, Sound, Fresh, Tiered, SameSink, NothingTwice,
              inputs, StaticOf, Confirmed, RuntimeOf
<1> QED  BY <1>1, <1>2, <1>3, <1>4, <1>5, <1>6, <1>7, <1>8, <1>9 DEF Next

LEMMA Inductive == Spec => []IInv
  BY InitIInv, NextIInv, PTL DEF Spec

(* The variables have their types: a loop only ever holds findings of the  *)
(* group, and of the status it is for.                                     *)
THEOREM TypeCorrect == Spec => []TypeOK
  BY Inductive, PTL DEF IInv

(* No finding of either report is in two results.                          *)
THEOREM NothingTwiceHolds == Spec => []NothingTwice
  BY Inductive, PTL DEF IInv

(* runtime_confirmed with a static finding: same key, confirmed, same sink.*)
THEOREM OnlyTheExercisedSinkHolds == Spec => []OnlyTheExercisedSink
<1>1. IInv => OnlyTheExercisedSink
  <2> SUFFICES ASSUME IInv, NEW n \in DOMAIN combined,
                      combined[n].s # 0, combined[n].r # 0
               PROVE  /\ combined[n].tier = "runtime_confirmed"
                      /\ runtime[combined[n].r].status = "confirmed"
                      /\ static[combined[n].s].key = combined[n].key
                      /\ runtime[combined[n].r].key = combined[n].key
                      /\ SameSink(combined[n].s, combined[n].r)
    BY DEF OnlyTheExercisedSink, SameSink
  <2>1. Sound(combined[n]) /\ combined[n] \in Entries
    BY DEF IInv, TypeOK
  <2> QED  BY <2>1 DEF Sound, Tiered, Entries, Tiers
<1> QED  BY <1>1, Inductive, PTL

-----------------------------------------------------------------------------
(* Completeness.  Placed: the static finding i is in the result; Shown:    *)
(* the runtime finding j is; Paired: it is, and confirms a static one.     *)
Placed(i) == \E n \in DOMAIN combined : combined[n].s = i
Shown(j) == \E n \in DOMAIN combined : combined[n].r = j
Paired(j) == \E n \in DOMAIN combined : combined[n].r = j /\ combined[n].s # 0

Reached(f) == f.key \in selected /\ f.key <= key

(* Of the groups reached so far every finding is in the result, or still   *)
(* before the loop that places it.                                         *)
Covered ==
  /\ \A i \in DOMAIN static : Reached(static[i]) => Placed(i) \/ (pc = "static" /\ i \in todo)
  /\ \A j \in DOMAIN runtime : Reached(runtime[j]) /\ runtime[j].status = "confirmed" =>
       \/ Shown(j)
       \/ pc = "static" /\ runtime[j].key = key
       \/ pc = "alone" /\ j \in todo
  /\ \A j \in DOMAIN runtime : Reached(runtime[j]) /\ runtime[j].status = "runtime_only" =>
       \/ Shown(j)
       \/ pc \in {"static", "alone"} /\ runtime[j].key = key
       \/ pc = "only" /\ j \in todo

(* What has been used is in a pair, and a static finding that is alone has *)
(* the sink of no confirmed finding but such.                              *)
FirstFit ==
  /\ \A j \in used : Paired(j)
  /\ \A n \in DOMAIN combined : combined[n].s # 0 /\ combined[n].r = 0 =>
       \A j \in RuntimeOf(combined[n].key, "confirmed") : SameSink(combined[n].s, j) => Paired(j)

CInv ==
  /\ pc = "done" => key = LastKey
  /\ Covered
  /\ FirstFit

LEMMA Growing ==
  ASSUME combined \in Seq(Entries), NEW e \in Entries, combined' = Append(combined, e)
  PROVE  /\ \A x : Placed(x) => Placed(x)'
         /\ \A x : Shown(x) => Shown(x)'
         /\ \A x : Paired(x) => Paired(x)'
         /\ Placed(e.s)' /\ Shown(e.r)' /\ (e.s # 0 => Paired(e.r)')
<1>1. \A n \in DOMAIN combined : n \in DOMAIN combined' /\ combined'[n] = combined[n]
  BY Appending
<1>2. Len(combined) + 1 \in DOMAIN combined' /\ combined'[Len(combined) + 1] = e
  BY Appending
<1> QED  BY <1>1, <1>2 DEF Placed, Shown, Paired

(* A step that appends keeps FirstFit if what it adds to used is in the    *)
(* new entry, and that entry, if alone, had no free finding of its sink.   *)
LEMMA AppendFirstFit ==
  ASSUME IInv, FirstFit, NEW e \in Entries, combined' = Append(combined, e),
         UNCHANGED <<static, runtime>>,
         \A j \in used' : j \in used \/ (j = e.r /\ e.s # 0),
         e.s # 0 /\ e.r = 0 =>
           \A j \in RuntimeOf(e.key, "confirmed") : SameSink(e.s, j) => j \in used
  PROVE  FirstFit'
<1>0. combined \in Seq(Entries)
  BY DEF IInv, TypeOK
<1>1. \A j \in used' : Paired(j)'
  BY <1>0, Growing DEF FirstFit
<1>2. ASSUME NEW n \in DOMAIN combined', combined'[n].s # 0, combined'[n].r = 0,
             NEW j \in RuntimeOf(combined'[n].key, "confirmed"), SameSink(combined'[n].s, j)
      PROVE  Paired(j)'
  <2>1. CASE n \in DOMAIN combined
    BY <1>0, <1>2, <2>1, Appending, Growing DEF FirstFit
  <2>2. CASE n = Len(combined) + 1
    BY <1>0, <1>2, <2>2, Appending, Growing DEF FirstFit
  <2> QED  BY <1>0, <2>1, <2>2, Appending
<1>3. \A k, i, j : RuntimeOf(k, "confirmed")' = RuntimeOf(k, "confirmed") /\ (SameSink(i, j)' <=> SameSink(i, j))
  BY DEF RuntimeOf, SameSink
<1>4. ASSUME NEW n \in DOMAIN combined', combined'[n].s # 0, combined'[n].r = 0
      PROVE  (\A j \in RuntimeOf(combined[n].key, "confirmed") : SameSink(combined[n].s, j) => Paired(j))'
  BY <1>2, <1>4 DEF RuntimeOf, SameSink
<1> QED  BY <1>1, <1>4 DEF FirstFit

LEMMA FindingsTyped ==
  ASSUME TypeOK
  PROVE  /\ \A i \in DOMAIN static :
              /\ i \in 1 .. MaxFindings /\ static[i] \in StaticFindings
              /\ static[i].key \in Keys /\ static[i].key \in Nat
         /\ \A j \in DOMAIN runtime :
              /\ j \in 1 .. MaxFindings /\ runtime[j] \in RuntimeFindings
              /\ runtime[j].key \in Keys /\ runtime[j].key \in Nat
              /\ runtime[j].status \in Statuses
<1>1. ASSUME NEW i \in DOMAIN static
      PROVE  /\ i \in 1 .. MaxFindings /\ static[i] \in StaticFindings
             /\ static[i].key \in Keys /\ static[i].key \in Nat
  <2>1. i \in 1 .. MaxFindings
    BY IndexesAreNat, MergerAssumption
  <2>2. static[i] \in StaticFindings
    BY DEF TypeOK
  <2>3. static[i].key \in Keys
    BY <2>2 DEF StaticFindings
  <2> QED  BY <2>1, <2>2, <2>3, MergerAssumption DEF Keys
<1>2. ASSUME NEW j \in DOMAIN runtime
      PROVE  /\ j \in 1 .. MaxFindings /\ runtime[j] \in RuntimeFindings
             /\ runtime[j].key \in Keys /\ runtime[j].key \in Nat
             /\ runtime[j].status \in Statuses
  <2>1. j \in 1 .. MaxFindings
    BY IndexesAreNat, MergerAssumption
  <2>2. runtime[j] \in RuntimeFindings
    BY DEF TypeOK
  <2>3. runtime[j].key \in Keys /\ runtime[j].status \in Statuses
    BY <2>2 DEF RuntimeFindings
  <2> QED  BY <2>1, <2>2, <2>3, MergerAssumption DEF Keys
<1> QED  BY <1>1, <1>2

LEMMA InitCInv == Init => CInv
  BY MergerAssumption DEF Init, CInv, Covered, FirstFit, Reached, StaticFindings, RuntimeFindings, Keys

LEMMA NextCInv == IInv /\ IInv' /\ CInv /\ [Next]_vars => CInv'
<1> SUFFICES ASSUME IInv, IInv', CInv, [Next]_vars PROVE CInv'
  OBVIOUS
<1> USE MergerAssumption
<1>0. /\ TypeOK /\ combined \in Seq(Entries) /\ key \in Nat
      /\ pc \in {"static", "alone", "only"} => key \in Keys
      /\ todo \in SUBSET Nat
  BY IndexesAreNat DEF IInv, TypeOK, Confirmed
<1>a. /\ \A i \in DOMAIN static : static[i].key \in Keys /\ static[i].key \in Nat
      /\ \A j \in DOMAIN runtime : runtime[j].key \in Keys /\ runtime[j].key \in Nat
  BY <1>0, FindingsTyped
<1>1. CASE Group
  <2>1. \A k \in Nat : k <= key' <=> k <= key \/ k = key'
    BY <1>0, <1>1 DEF Group
  <2>2. \A x : (Placed(x) <=> Placed(x)') /\ (Shown(x) <=> Shown(x)')
    BY <1>1 DEF Group, Placed, Shown
  <2>3. Covered'
    BY <1>0, <1>1, <1>a, <2>1, <2>2 DEF Group, CInv, Covered, Reached, inputs, StaticOf
  <2>4. FirstFit'
    BY <1>1 DEF Group, CInv, FirstFit, Paired, inputs, RuntimeOf, SameSink
  <2> QED  BY <1>1, <2>3, <2>4 DEF CInv, Group
<1>2. CASE Finish
  BY <1>2 DEF Finish, CInv, Covered, FirstFit, Reached, Placed, Shown, Paired, inputs, RuntimeOf, SameSink
<1>3. CASE Match
  <2>1. PICK i : i = Least(todo)
    OBVIOUS
  <2>2. PICK free : free = {j \in Confirmed \ used : SameSink(i, j)}
    OBVIOUS
  <2>3. PICK j : j = IF free = {} THEN 0 ELSE Least(free)
    OBVIOUS
  <2>4. PICK e : e = Entry(IF free = {} THEN "static_only" ELSE "runtime_confirmed", i, j)
    OBVIOUS
  <2>5. /\ combined' = Append(combined, e) /\ pc = "static"
        /\ used' = IF free = {} THEN used ELSE used \union {j}
        /\ todo' = todo \ {i}
        /\ UNCHANGED <<static, runtime, selected, pc, key>>
    BY <1>3, <2>1, <2>2, <2>3, <2>4 DEF Match, inputs
  <2>6. e.s = i /\ e.r = j /\ e.key = key
    BY <2>4 DEF Entry
  <2>7. i \in todo /\ i \in 1 .. MaxFindings
    <3>1. todo \subseteq 1 .. MaxFindings
      BY <2>5, <1>0, IndexesAreNat DEF TypeOK
    <3> QED  BY <1>3, <1>0, <2>1, <3>1, LeastIsMember DEF Match
  <2>8. free # {} => j \in free /\ j \in 1 .. MaxFindings
    <3>1. free \in SUBSET Nat /\ free \subseteq 1 .. MaxFindings
      BY <2>2, IndexesAreNat, <1>0 DEF Confirmed
    <3> QED  BY <2>3, <3>1, LeastIsMember
  <2>9. e \in Entries
    BY <1>0, <2>3, <2>4, <2>5, <2>7, <2>8 DEF Entry, Entries, Tiers
  <2>10. Covered'
    <3>1. \A x : Placed(x) => Placed(x)'
      BY <1>0, <2>5, <2>9, Growing
    <3>2. \A x : Shown(x) => Shown(x)'
      BY <1>0, <2>5, <2>9, Growing
    <3>3. Placed(i)'
      BY <1>0, <2>5, <2>6, <2>9, Growing
    <3> QED  BY <3>1, <3>2, <3>3, <2>5 DEF CInv, Covered, Reached
  <2>11. FirstFit'
    <3>1. \A x \in used' : x \in used \/ (x = e.r /\ e.s # 0)
      BY <2>5, <2>6, <2>7
    <3>2. e.r = 0 => \A x \in RuntimeOf(e.key, "confirmed") : SameSink(e.s, x) => x \in used
      BY <2>2, <2>6, <2>8 DEF Confirmed
    <3> QED  BY <3>1, <3>2, <2>5, <2>9, AppendFirstFit DEF CInv
  <2> QED  BY <2>5, <2>10, <2>11 DEF CInv
<1>4. CASE MatchEnds
  <2>1. \A j \in used : Shown(j)
    BY DEF CInv, FirstFit, Paired, Shown
  <2>2. \A x : (Placed(x) <=> Placed(x)') /\ (Shown(x) <=> Shown(x)')
    BY <1>4 DEF MatchEnds, Placed, Shown
  <2>3. Covered'
    BY <1>4, <2>1, <2>2 DEF MatchEnds, CInv, Covered, Reached, inputs, Confirmed, RuntimeOf
  <2>4. FirstFit'
    BY <1>4 DEF MatchEnds, CInv, FirstFit, Paired, inputs, RuntimeOf, SameSink
  <2> QED  BY <1>4, <2>3, <2>4 DEF CInv, MatchEnds
<1>5. CASE Alone
  <2>1. PICK j : j = Least(todo)
    OBVIOUS
  <2>2. PICK e : e = Entry("runtime_confirmed", 0, j)
    OBVIOUS
  <2>3. /\ combined' = Append(combined, e) /\ todo' = todo \ {j} /\ pc = "alone"
        /\ UNCHANGED <<static, runtime, selected, pc, key, used>>
    BY <1>5, <2>1, <2>2 DEF Alone, inputs
  <2>4. e.s = 0 /\ e.r = j /\ e \in Entries
    <3>1. todo \subseteq 1 .. MaxFindings
      BY <2>3, <1>0, IndexesAreNat DEF TypeOK, Confirmed
    <3>2. j \in todo
      BY <1>5, <1>0, <2>1, LeastIsMember DEF Alone
    <3> QED  BY <1>0, <2>2, <2>3, <3>1, <3>2 DEF Entry, Entries, Tiers
  <2>5. Covered'
    <3>1. \A x : (Placed(x) => Placed(x)') /\ (Shown(x) => Shown(x)')
      BY <1>0, <2>3, <2>4, Growing
    <3>2. Shown(j)'
      BY <1>0, <2>3, <2>4, Growing
    <3> QED  BY <3>1, <3>2, <2>3 DEF CInv, Covered, Reached
  <2>6. FirstFit'
    BY <2>3, <2>4, AppendFirstFit DEF CInv
  <2> QED  BY <2>3, <2>5, <2>6 DEF CInv
<1>6. CASE AloneEnds
  <2>1. \A x : (Placed(x) <=> Placed(x)') /\ (Shown(x) <=> Shown(x)')
    BY <1>6 DEF AloneEnds, Placed, Shown
  <2>2. Covered'
    BY <1>6, <2>1 DEF AloneEnds, CInv, Covered, Reached, inputs, RuntimeOf
  <2>3. FirstFit'
    BY <1>6 DEF AloneEnds, CInv, FirstFit, Paired, inputs, RuntimeOf, SameSink
  <2> QED  BY <1>6, <2>2, <2>3 DEF CInv, AloneEnds
<1>7. CASE Only
  <2>1. PICK j : j = Least(todo)
    OBVIOUS
  <2>2. PICK e : e = Entry("runtime_only", 0, j)
    OBVIOUS
  <2>3. /\ combined' = Append(combined, e) /\ todo' = todo \ {j} /\ pc = "only"
        /\ UNCHANGED <<static, runtime, selected, pc, key, used>>
    BY <1>7, <2>1, <2>2 DEF Only, inputs
  <2>4. e.s = 0 /\ e.r = j /\ e \in Entries
    <3>1. todo \subseteq 1 .. MaxFindings
      BY <2>3, <1>0, IndexesAreNat DEF TypeOK
    <3>2. j \in todo
      BY <1>7, <1>0, <2>1, LeastIsMember DEF Only
    <3> QED  BY <1>0, <2>2, <2>3, <3>1, <3>2 DEF Entry, Entries, Tiers
  <2>5. Covered'
    <3>1. \A x : (Placed(x) => Placed(x)') /\ (Shown(x) => Shown(x)')
      BY <1>0, <2>3, <2>4, Growing
    <3>2. Shown(j)'
      BY <1>0, <2>3, <2>4, Growing
    <3> QED  BY <3>1, <3>2, <2>3 DEF CInv, Covered, Reached
  <2>6. FirstFit'
    BY <2>3, <2>4, AppendFirstFit DEF CInv
  <2> QED  BY <2>3, <2>5, <2>6 DEF CInv
<1>8. CASE OnlyEnds
  BY <1>8 DEF OnlyEnds, CInv, Covered, FirstFit, Reached, Placed, Shown, Paired, inputs, RuntimeOf, SameSink
<1>9. CASE UNCHANGED vars
  BY <1>9 DEF vars, CInv, Covered, FirstFit, Reached, Placed, Shown, Paired, inputs, RuntimeOf, SameSink
<1> QED  BY <1>1, <1>2, <1>3, <1>4, <1>5, <1>6, <1>7, <1>8, <1>9 DEF Next

LEMMA CompleteInductive == Spec => [](IInv /\ CInv)
<1>1. IInv /\ CInv /\ [Next]_vars => (IInv /\ CInv)'
  BY NextIInv, NextCInv
<1> QED  BY InitIInv, InitCInv, <1>1, PTL DEF Spec

-----------------------------------------------------------------------------
(* At the end every key has been reached.                                  *)
LEMMA AtTheEnd ==
  ASSUME IInv, CInv, pc = "done"
  PROVE  /\ \A i \in DOMAIN static : static[i].key \in selected => Placed(i)
         /\ \A j \in DOMAIN runtime :
              runtime[j].key \in selected /\ runtime[j].status \in {"confirmed", "runtime_only"}
                => Shown(j)
<1>1. \A k \in Keys : k <= key
  BY MergerAssumption DEF CInv, Keys
<1> QED  BY <1>1, FindingsTyped DEF IInv, CInv, Covered, Reached

LEMMA LosesNothing == IInv /\ CInv => NothingLost
<1> SUFFICES ASSUME IInv, CInv, pc = "done"
             PROVE  /\ \A i \in DOMAIN static : static[i].key \in selected <=> Placed(i)
                    /\ \A j \in DOMAIN runtime :
                         (runtime[j].key \in selected
                            /\ runtime[j].status # "unconfirmed_static_flag_stands")
                           <=> Shown(j)
  BY DEF NothingLost, Placed, Shown
<1>1. \A n \in DOMAIN combined : Sound(combined[n]) /\ combined[n] \in Entries
  BY DEF IInv, TypeOK
<1>2. ASSUME NEW i \in DOMAIN static, Placed(i) PROVE static[i].key \in selected
  <2>1. i # 0
    BY FindingsTyped DEF IInv
  <2> QED  BY <1>1, <1>2, <2>1 DEF Placed, Sound
<1>3. ASSUME NEW j \in DOMAIN runtime, Shown(j)
      PROVE  runtime[j].key \in selected /\ runtime[j].status # "unconfirmed_static_flag_stands"
  <2>1. j # 0
    BY FindingsTyped DEF IInv
  <2> QED  BY <1>1, <1>3, <2>1 DEF Shown, Sound, Tiered, Entries, Tiers
<1>4. \A j \in DOMAIN runtime : runtime[j].status \in Statuses
  BY FindingsTyped DEF IInv
<1> QED  BY <1>2, <1>3, <1>4, AtTheEnd DEF Statuses

(* Every finding of a selected key, and no other, is in the result; a      *)
(* runtime finding that only lets a flag stand is not.                     *)
THEOREM NothingLostHolds == Spec => []NothingLost
  BY LosesNothing, CompleteInductive, PTL

(* A confirmed finding on its own is in no other result, so it is no pair; *)
(* of a static finding on its own every finding of its sink is in one.     *)
LEMMA LeavesNoPair == IInv /\ CInv => NoPairLeft
<1> SUFFICES ASSUME IInv, CInv,
                    NEW m \in DOMAIN combined, NEW n \in DOMAIN combined,
                    combined[m].r = 0, combined[n].s = 0,
                    combined[n].tier = "runtime_confirmed",
                    combined[m].key = combined[n].key,
                    SameSink(combined[m].s, combined[n].r)
             PROVE  FALSE
  BY DEF NoPairLeft
<1>1. \A x \in {m, n} : Sound(combined[x]) /\ combined[x] \in Entries
  BY DEF IInv, TypeOK
<1>2. combined[m].s # 0
  BY <1>1 DEF Sound, Tiered, Entries, Tiers
<1>3. combined[n].r # 0 /\ combined[n].r \in RuntimeOf(combined[m].key, "confirmed")
  BY <1>1 DEF Sound, Tiered, RuntimeOf
<1>4. PICK x \in DOMAIN combined : combined[x].r = combined[n].r /\ combined[x].s # 0
  BY <1>2, <1>3 DEF CInv, FirstFit, Paired
<1> QED  BY <1>3, <1>4 DEF IInv, NothingTwice

(* First fit pairs what can be paired: no static finding is reported alone *)
(* beside a confirmed one of its sink that is reported alone.              *)
THEOREM NoPairLeftHolds == Spec => []NoPairLeft
  BY LeavesNoPair, CompleteInductive, PTL

-----------------------------------------------------------------------------
(* A result is as severe as the more severe of its findings.               *)
LEMMA SeverityOfEntry ==
  ASSUME IInv, NEW n \in DOMAIN combined, NEW threshold \in 3 .. 4
  PROVE  Severity(combined[n]) >= threshold <=>
           \/ combined[n].s # 0 /\ static[combined[n].s].severity >= threshold
           \/ combined[n].r # 0 /\ RuntimeSeverity(combined[n].r) >= threshold
<1>1. Sound(combined[n]) /\ combined[n] \in Entries
  BY DEF IInv, TypeOK
<1>2. combined[n].s # 0 \/ combined[n].r # 0
  BY <1>1 DEF Sound, Tiered, Entries, Tiers
<1>3. combined[n].s # 0 => static[combined[n].s].severity \in 1 .. 4
  BY <1>1, FindingsTyped, MergerAssumption DEF Sound, IInv, StaticFindings
<1>4. RuntimeSeverity(combined[n].r) \in 3 .. 4
  BY DEF RuntimeSeverity
<1> QED  BY <1>2, <1>3, <1>4 DEF Severity

LEMMA Agrees == IInv /\ CInv => GateAgrees
<1> SUFFICES ASSUME IInv, CInv, pc = "done", NEW threshold \in 3 .. 4
             PROVE  FailsOn(threshold) <=>
                      \/ \E i \in DOMAIN static :
                           static[i].key \in selected /\ static[i].severity >= threshold
                      \/ \E j \in DOMAIN runtime :
                           /\ runtime[j].key \in selected
                           /\ runtime[j].status # "unconfirmed_static_flag_stands"
                           /\ RuntimeSeverity(j) >= threshold
  BY DEF GateAgrees
<1>1. NothingLost
  BY LosesNothing
<1>2. ASSUME NEW i \in DOMAIN static, static[i].key \in selected,
             static[i].severity >= threshold
      PROVE  FailsOn(threshold)
  <2>1. PICK n \in DOMAIN combined : combined[n].s = i
    BY <1>1, <1>2 DEF NothingLost
  <2>2. i # 0
    BY FindingsTyped DEF IInv
  <2> QED  BY <1>2, <2>1, <2>2, SeverityOfEntry DEF FailsOn
<1>3. ASSUME NEW j \in DOMAIN runtime, runtime[j].key \in selected,
             runtime[j].status # "unconfirmed_static_flag_stands",
             RuntimeSeverity(j) >= threshold
      PROVE  FailsOn(threshold)
  <2>1. PICK n \in DOMAIN combined : combined[n].r = j
    BY <1>1, <1>3 DEF NothingLost
  <2>2. j # 0
    BY FindingsTyped DEF IInv
  <2> QED  BY <1>3, <2>1, <2>2, SeverityOfEntry DEF FailsOn
<1>4. ASSUME NEW n \in DOMAIN combined, Severity(combined[n]) >= threshold
      PROVE  \/ \E i \in DOMAIN static :
                   static[i].key \in selected /\ static[i].severity >= threshold
             \/ \E j \in DOMAIN runtime :
                   /\ runtime[j].key \in selected
                   /\ runtime[j].status # "unconfirmed_static_flag_stands"
                   /\ RuntimeSeverity(j) >= threshold
  <2>1. Sound(combined[n])
    BY DEF IInv
  <2>2. CASE combined[n].s # 0 /\ static[combined[n].s].severity >= threshold
    BY <1>1, <2>1, <2>2 DEF NothingLost, Sound
  <2>3. CASE combined[n].r # 0 /\ RuntimeSeverity(combined[n].r) >= threshold
    BY <1>1, <2>1, <2>3 DEF NothingLost, Sound
  <2> QED  BY <1>4, <2>2, <2>3, SeverityOfEntry
<1> QED  BY <1>2, <1>3, <1>4 DEF FailsOn

(* The gate of the full command lets through no finding of either report:  *)
(* the merge raises a severity and lowers none.                            *)
THEOREM GateAgreesHolds == Spec => []GateAgrees
  BY Agrees, CompleteInductive, PTL
=============================================================================
