-------------------------- MODULE AttributesProofs --------------------------
(***************************************************************************)
(* What the kernel knows of a file: proofs about Attributes.tla, for all   *)
(* sets of attributes, all timeouts and any number of changes by others.   *)
(***************************************************************************)
EXTENDS Attributes, TLAPS

\* The fields that the calls of SetAttr before the next one are about.
Done == {x \in Fields : \E j \in 1..4 : j < step /\ x \in Steps[j]}

\* A SetAttr is between two calls that have something to set.
StepInv ==
  /\ pc = "apply" => op = "SetAttr" /\ step \in 1..4 /\ Steps[step] \cap toSet # {}
  /\ pc = "stat" /\ op = "SetAttr" => step = 5

\* The calls made so far have done their part and nothing else.
ApplyInv ==
  pc \in {"apply", "stat"} /\ op = "SetAttr" =>
    \A x \in Fields \ touched :
      IF x \in toSet THEN x \in Done => file[x] = Target(x)
      ELSE file[x] = before[x] \/ (x = "mtime" /\ "size" \in toSet)

\* During a request the kernel has what the file was like when it began.
CacheInv ==
  cached # NULL =>
    \A x \in Fields \ behind : cached[x] = IF pc = "idle" THEN file[x] ELSE before[x]

AttrInv ==
  /\ TypeOK
  /\ StepInv
  /\ ApplyInv
  /\ SetAttrSetsWhatWasAsked
  /\ CacheInv
-----------------------------------------------------------------------------
(***************************************************************************)
(* The next call of SetAttr: no field to be set is passed over.            *)
(***************************************************************************)
LEMMA FirstCallSpec ==
  ASSUME NEW k \in 1..5, NEW S
  PROVE  /\ FirstCall(k, S) \in k..5
         /\ FirstCall(k, S) # 5 => Steps[FirstCall(k, S)] \cap S # {}
         /\ \A j \in k..4 : j < FirstCall(k, S) => Steps[j] \cap S = {}
<1> DEFINE C == {j \in k..4 : Steps[j] \cap S # {}} \cup {5}
<1>1. \E m \in C : \A j \in C : m <= j
  <2>1. C \subseteq 1..5 /\ 5 \in C
    OBVIOUS
  <2> HIDE DEF C
  <2> QED
    BY <2>1
<1>2. FirstCall(k, S) \in C /\ \A j \in C : FirstCall(k, S) <= j
  BY <1>1 DEF FirstCall, Min
<1> QED
  BY <1>2

\* Every attribute is set by some call.
LEMMA StepsCover == \A x \in Fields : \E j \in 1..4 : x \in Steps[j]
  BY AttributesAssumption DEF Steps

LEMMA OldTyped == [x \in Fields |-> "old"] \in Attrs
  BY DEF Attrs, Values

LEMMA AttrInitially == Init => AttrInv
  BY AttributesAssumption, OldTyped
     DEF Init, AttrInv, TypeOK, StepInv, ApplyInv, SetAttrSetsWhatWasAsked, CacheInv

LEMMA AttrTick == ASSUME AttrInv, Tick PROVE AttrInv'
<1>1. TypeOK'
  BY AttributesAssumption DEF Tick, AttrInv, TypeOK, kernelVars, reqVars
<1>2. StepInv' /\ ApplyInv' /\ SetAttrSetsWhatWasAsked'
  BY DEF Tick, AttrInv, StepInv, ApplyInv, SetAttrSetsWhatWasAsked, Done, Target, reqVars
<1>3. CacheInv'
  BY DEF Tick, AttrInv, CacheInv, kernelVars, reqVars
<1> QED
  BY <1>1, <1>2, <1>3 DEF AttrInv

LEMMA AttrOutsideChange ==
  ASSUME AttrInv, NEW x \in Fields, NEW v \in {"old", "new"}, OutsideChange(x, v)
  PROVE  AttrInv'
<1>1. TypeOK'
  <2>1. file' \in Attrs
    BY DEF OutsideChange, AttrInv, TypeOK, Attrs, Values
  <2>2. outside' \in 0..MaxOutside
    BY AttributesAssumption DEF OutsideChange, AttrInv, TypeOK
  <2>3. touched' \subseteq Fields /\ behind' \subseteq Fields
    BY DEF OutsideChange, AttrInv, TypeOK, Unseen
  <2> QED
    BY <2>1, <2>2, <2>3 DEF OutsideChange, AttrInv, TypeOK, kernelVars, reqVars
<1>2. \A y \in Fields \ {x} : file'[y] = file[y]
  BY DEF OutsideChange, AttrInv, TypeOK, Attrs
<1>3. StepInv'
  BY DEF OutsideChange, AttrInv, StepInv, kernelVars, reqVars
<1>4. ApplyInv'
  BY <1>2 DEF OutsideChange, AttrInv, ApplyInv, Done, Target, reqVars
<1>5. SetAttrSetsWhatWasAsked'
  BY DEF OutsideChange, AttrInv, SetAttrSetsWhatWasAsked, Target, reqVars
<1>6. CacheInv'
  BY <1>2 DEF OutsideChange, AttrInv, CacheInv, Unseen, kernelVars, reqVars
<1> QED
  BY <1>1, <1>3, <1>4, <1>5, <1>6 DEF AttrInv

\* Lookup and GetAttr.
LEMMA AttrBeginStat ==
  ASSUME AttrInv, BeginLookup \/ BeginGetAttr
  PROVE  AttrInv'
<1>1. TypeOK'
  BY DEF BeginLookup, BeginGetAttr, Begin, AttrInv, TypeOK, fileVars, kernelVars
<1>2. StepInv' /\ ApplyInv' /\ SetAttrSetsWhatWasAsked'
  BY DEF BeginLookup, BeginGetAttr, Begin, StepInv, ApplyInv, SetAttrSetsWhatWasAsked
<1>3. CacheInv'
  BY DEF BeginLookup, BeginGetAttr, Begin, AttrInv, CacheInv, fileVars, kernelVars
<1> QED
  BY <1>1, <1>2, <1>3 DEF AttrInv

LEMMA AttrBeginSetAttr ==
  ASSUME AttrInv, NEW S \in SUBSET Fields, NEW T \in SUBSET S, BeginSetAttr(S, T)
  PROVE  AttrInv'
<1>1. /\ step' \in 1..5
      /\ step' # 5 => Steps[step'] \cap S # {}
      /\ \A j \in 1..4 : j < step' => Steps[j] \cap S = {}
  BY FirstCallSpec DEF BeginSetAttr
<1>2. step' \in 1..4
  <2>1. PICK x \in S : TRUE
    BY DEF BeginSetAttr
  <2>2. PICK j \in 1..4 : x \in Steps[j]
    BY StepsCover
  <2> QED
    BY <1>1, <2>1, <2>2
<1>3. TypeOK'
  BY <1>1 DEF BeginSetAttr, Begin, AttrInv, TypeOK, fileVars, kernelVars
<1>4. StepInv'
  BY <1>1, <1>2 DEF BeginSetAttr, Begin, StepInv
<1>5. Done' \cap S = {}
  BY <1>1, <1>2 DEF Done
<1>6. ApplyInv'
  BY <1>5 DEF BeginSetAttr, Begin, ApplyInv, fileVars
<1>7. SetAttrSetsWhatWasAsked'
  BY DEF BeginSetAttr, Begin, SetAttrSetsWhatWasAsked
<1>8. CacheInv'
  BY DEF BeginSetAttr, Begin, AttrInv, CacheInv, fileVars, kernelVars
<1> QED
  BY <1>3, <1>4, <1>6, <1>7, <1>8 DEF AttrInv

(***************************************************************************)
(* The order of the calls matters here: ftruncate, the third, changes the  *)
(* modification time, which only the fourth sets.                          *)
(***************************************************************************)
LEMMA AttrApply == ASSUME AttrInv, Apply PROVE AttrInv'
<1>1. pc = "apply" /\ op = "SetAttr" /\ step \in 1..4 /\ Steps[step] \cap toSet # {}
  BY DEF Apply, AttrInv, StepInv
<1>2. /\ step' \in (step + 1)..5
      /\ step' # 5 => Steps[step'] \cap toSet # {}
      /\ \A j \in (step + 1)..4 : j < step' => Steps[j] \cap toSet = {}
  BY <1>1, FirstCallSpec DEF Apply
<1>3. TypeOK'
  <2>1. file' \in Attrs
    BY DEF Apply, AfterCall, Target, AttrInv, TypeOK, Attrs, Values
  <2> QED
    BY <1>1, <1>2, <2>1 DEF Apply, AttrInv, TypeOK, kernelVars
<1>4. StepInv'
  BY <1>1, <1>2 DEF Apply, StepInv
<1>5. ApplyInv'
  <2> SUFFICES ASSUME NEW x \in Fields \ touched
               PROVE  IF x \in toSet THEN x \in Done' => file'[x] = Target(x)
                      ELSE file'[x] = before[x] \/ (x = "mtime" /\ "size" \in toSet)
    BY DEF Apply, ApplyInv, Target
  <2>1. file'[x] = IF x \in Steps[step] \cap toSet THEN Target(x)
                   ELSE IF x = "mtime" /\ Steps[step] = {"size"} THEN "now"
                   ELSE file[x]
    BY DEF Apply, AfterCall
  <2>2. CASE x \in toSet
    <3>1. ASSUME x \in Done' PROVE x \in Done \/ x \in Steps[step]
      <4>0. step \in 1..4 /\ step' \in 1..5
        BY <1>1, <1>2
      <4>1. PICK j \in 1..4 : j < step' /\ x \in Steps[j]
        BY <3>1 DEF Done
      <4>2. Steps[j] \cap toSet # {}
        BY <2>2, <4>1
      <4>3. j <= step
        BY <1>2, <4>0, <4>1, <4>2
      <4> QED
        BY <1>1, <4>1, <4>3 DEF Done
    <3>2. ASSUME x \in Done PROVE ~(x = "mtime" /\ Steps[step] = {"size"})
      BY <1>1, <3>2 DEF Done, Steps
    <3> QED
      BY <1>1, <2>1, <2>2, <3>1, <3>2 DEF AttrInv, ApplyInv
  <2>3. CASE x \notin toSet
    <3>1. Steps[step] = {"size"} => "size" \in toSet
      BY <1>1
    <3> QED
      BY <1>1, <2>1, <2>3, <3>1 DEF AttrInv, ApplyInv
  <2> QED
    BY <2>2, <2>3
<1>6. SetAttrSetsWhatWasAsked'
  BY DEF Apply, SetAttrSetsWhatWasAsked
<1>7. CacheInv'
  BY DEF Apply, AttrInv, CacheInv, kernelVars
<1> QED
  BY <1>3, <1>4, <1>5, <1>6, <1>7 DEF AttrInv

LEMMA AttrStat == ASSUME AttrInv, Stat PROVE AttrInv'
<1>1. TypeOK'
  BY DEF Stat, AttrInv, TypeOK, fileVars, kernelVars
<1>2. StepInv' /\ ApplyInv'
  BY DEF Stat, StepInv, ApplyInv
<1>3. SetAttrSetsWhatWasAsked'
  <2>1. op = "SetAttr" => Fields \subseteq Done
    BY StepsCover DEF Stat, AttrInv, StepInv, Done
  <2> QED
    BY <2>1 DEF Stat, AttrInv, ApplyInv, SetAttrSetsWhatWasAsked, Target
<1>4. CacheInv'
  BY DEF Stat, AttrInv, CacheInv, fileVars, kernelVars
<1> QED
  BY <1>1, <1>2, <1>3, <1>4 DEF AttrInv

LEMMA AttrFail == ASSUME AttrInv, Fail PROVE AttrInv'
<1>1. TypeOK'
  BY OldTyped DEF Fail, Finish, Unseen, AttrInv, TypeOK, fileVars, kernelVars
<1>2. StepInv' /\ ApplyInv' /\ SetAttrSetsWhatWasAsked'
  BY DEF Fail, Finish, StepInv, ApplyInv, SetAttrSetsWhatWasAsked
<1>3. CacheInv'
  BY DEF Fail, Finish, Unseen, AttrInv, CacheInv, fileVars, kernelVars
<1> QED
  BY <1>1, <1>2, <1>3 DEF AttrInv

LEMMA AttrReply ==
  ASSUME AttrInv, ReplyWithAttrs \/ ReplyWithLookup
  PROVE  AttrInv'
<1>1. PICK d \in {AttrTimeout, EntryTimeout} : TakeAttrs(d) /\ Finish /\ UNCHANGED fileVars
  BY DEF ReplyWithAttrs, ReplyWithLookup
<1>2. TypeOK'
  BY <1>1, OldTyped, AttributesAssumption DEF TakeAttrs, Finish, AttrInv, TypeOK, fileVars
<1>3. StepInv' /\ ApplyInv' /\ SetAttrSetsWhatWasAsked'
  BY <1>1 DEF Finish, StepInv, ApplyInv, SetAttrSetsWhatWasAsked
<1>4. CacheInv'
  BY <1>1, AttributesAssumption DEF TakeAttrs, Finish, CacheInv, fileVars
<1> QED
  BY <1>2, <1>3, <1>4 DEF AttrInv

LEMMA AttrExpire == ASSUME AttrInv, Expire PROVE AttrInv'
<1>1. TypeOK'
  BY AttributesAssumption DEF Expire, AttrInv, TypeOK, fileVars, reqVars
<1>2. StepInv' /\ ApplyInv' /\ SetAttrSetsWhatWasAsked'
  BY DEF Expire, AttrInv, StepInv, ApplyInv, SetAttrSetsWhatWasAsked, Done, Target, fileVars, reqVars
<1>3. CacheInv'
  BY DEF Expire, CacheInv
<1> QED
  BY <1>1, <1>2, <1>3 DEF AttrInv

LEMMA AttrStep == ASSUME AttrInv, [Next]_vars PROVE AttrInv'
<1>1. CASE UNCHANGED vars
  BY <1>1 DEF vars, fileVars, kernelVars, reqVars, AttrInv, TypeOK, StepInv, ApplyInv,
              SetAttrSetsWhatWasAsked, CacheInv, Done, Target
<1> QED
  BY <1>1, AttrTick, AttrOutsideChange, AttrBeginStat, AttrBeginSetAttr, AttrApply, AttrStat,
     AttrFail, AttrReply, AttrExpire DEF Next

\* The invariant behind the theorems below.
LEMMA AttributesKept == Spec => []AttrInv
  BY AttrInitially, AttrStep, PTL DEF Spec

(***************************************************************************)
(* Type correctness: the clock and the changes by others stay within their *)
(* bounds, and SetAttr never makes a fifth call.                           *)
(***************************************************************************)
THEOREM AttributesTypeCorrect == Spec => []TypeOK
<1>1. AttrInv => TypeOK
  BY DEF AttrInv
<1> QED
  BY <1>1, AttributesKept, PTL

(***************************************************************************)
(* Whichever fields a SetAttr is to set and whatever others change in the  *)
(* meantime, it replies with what was asked for: its four system calls do  *)
(* not undo one another, in the order in which SetAttr makes them.         *)
(***************************************************************************)
THEOREM SetAttrIsRight == Spec => []SetAttrSetsWhatWasAsked
<1>1. AttrInv => SetAttrSetsWhatWasAsked
  BY DEF AttrInv
<1> QED
  BY <1>1, AttributesKept, PTL

(***************************************************************************)
(* Between requests the kernel has the attributes of the file, but for     *)
(* what others changed and what a failed SetAttr left: every reply carries *)
(* attributes read after the last system call of the handler.              *)
(***************************************************************************)
THEOREM CacheIsCurrent == Spec => []CachedIsCurrent
<1>1. AttrInv => CachedIsCurrent
  BY DEF AttrInv, CacheInv, CachedIsCurrent, InUse
<1> QED
  BY <1>1, AttributesKept, PTL
=============================================================================
