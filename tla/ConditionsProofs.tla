-------------------------- MODULE ConditionsProofs --------------------------
(***************************************************************************)
(* What onError and onSuccess make of any list of conditions, however long *)
(* it has become.                                                          *)
(***************************************************************************)
EXTENDS Conditions, TLAPS

\* Conditions are edited in place: a type is there once.
OnePerType(conds) ==
  \A i, j \in DOMAIN conds : conds[i].type = conds[j].type => i = j

\* The condition of type t is there, with that status and message.
Shows(conds, t, status, message) ==
  \E i \in DOMAIN conds :
    conds[i].type = t /\ conds[i].status = status /\ conds[i].message = message

-----------------------------------------------------------------------------
(* One condition is set.                                                   *)

LEMMA SetConditionType ==
  ASSUME NEW conds \in Seq(Condition), NEW t \in ConditionTypes,
         NEW status \in {"True", "False"}, NEW message \in Ptr(Errors)
  PROVE  WithCondition(conds, t, status, message) \in Seq(Condition)
<1> DEFINE new == [type |-> t, status |-> status, message |-> message]
<1>1. new \in Condition
  BY DEF Condition
<1>2. Append(conds, new) \in Seq(Condition)
  BY <1>1
<1>3. [conds EXCEPT ![ConditionAt(conds, t)] = new] \in Seq(Condition)
  <2>1. Len(conds) \in Nat /\ conds \in [1 .. Len(conds) -> Condition]
    OBVIOUS
  <2>2. [conds EXCEPT ![ConditionAt(conds, t)] = new] \in [1 .. Len(conds) -> Condition]
    BY <1>1, <2>1
  <2>3. QED
    BY <2>1, <2>2
<1>4. QED
  BY <1>2, <1>3 DEF WithCondition

LEMMA ClearedType ==
  ASSUME NEW conds \in Seq(Condition), NEW t \in ConditionTypes
  PROVE  Cleared(conds, t) \in Seq(Condition)
BY SetConditionType DEF Cleared, Ptr

\* A condition that is there once is found.
LEMMA ConditionFound ==
  ASSUME NEW conds \in Seq(Condition), OnePerType(conds), NEW t, HasCondition(conds, t)
  PROVE  ConditionAt(conds, t) \in DOMAIN conds /\ conds[ConditionAt(conds, t)].type = t
<1>1. PICK i \in DOMAIN conds : conds[i].type = t
  BY DEF HasCondition
<1>2. \A j \in DOMAIN conds : conds[j].type = t => j =< i
  BY <1>1 DEF OnePerType
<1>3. QED
  BY <1>1, <1>2 DEF ConditionAt

\* The condition is set, those of other types stay as they are, none is
\* doubled and none is lost.
LEMMA SetCondition ==
  ASSUME NEW conds \in Seq(Condition), OnePerType(conds), NEW t \in ConditionTypes,
         NEW status \in {"True", "False"}, NEW message \in Ptr(Errors)
  PROVE  LET new == WithCondition(conds, t, status, message) IN
         /\ OnePerType(new)
         /\ Shows(new, t, status, message)
         /\ \A u \in ConditionTypes \ {t}, s \in {"True", "False"}, m \in Ptr(Errors) :
              Shows(new, u, s, m) <=> Shows(conds, u, s, m)
<1> DEFINE item == [type |-> t, status |-> status, message |-> message]
           new == WithCondition(conds, t, status, message)
<1>1. CASE HasCondition(conds, t)
  <2> DEFINE at == ConditionAt(conds, t)
  <2>1. at \in DOMAIN conds /\ conds[at].type = t
    BY <1>1, ConditionFound
  <2>2. new = [conds EXCEPT ![at] = item]
    BY <1>1 DEF WithCondition
  <2> HIDE DEF at, new
  <2>3. /\ DOMAIN new = DOMAIN conds /\ new[at] = item
        /\ \A i \in DOMAIN conds : i # at => new[i] = conds[i]
    BY <2>1, <2>2
  <2>4. \A i \in DOMAIN conds : new[i].type = conds[i].type
    BY <2>1, <2>3
  <2>5. OnePerType(new)
    BY <2>3, <2>4 DEF OnePerType
  <2>6. Shows(new, t, status, message)
    BY <2>1, <2>3 DEF Shows
  <2>7. ASSUME NEW u \in ConditionTypes \ {t}, NEW s, NEW m
        PROVE  Shows(new, u, s, m) <=> Shows(conds, u, s, m)
    BY <2>1, <2>3, <2>4 DEF Shows
  <2>8. QED
    BY <2>5, <2>6, <2>7 DEF new
<1>2. CASE ~HasCondition(conds, t)
  <2>1. new = Append(conds, item)
    BY <1>2 DEF WithCondition
  <2> HIDE DEF new
  <2>2. /\ Len(conds) \in Nat /\ DOMAIN conds = 1 .. Len(conds)
        /\ DOMAIN new = 1 .. Len(conds) + 1
        /\ new[Len(conds) + 1] = item
        /\ \A i \in DOMAIN conds : new[i] = conds[i]
    BY <2>1
  <2>3. \A i \in DOMAIN conds : conds[i].type # t
    BY <1>2 DEF HasCondition
  <2>4. \A i \in DOMAIN new : i \in DOMAIN conds \/ i = Len(conds) + 1
    BY <2>2
  <2>5. OnePerType(new)
    BY <2>2, <2>3, <2>4 DEF OnePerType
  <2>6. Shows(new, t, status, message)
    BY <2>2 DEF Shows
  <2>7. ASSUME NEW u \in ConditionTypes \ {t}, NEW s, NEW m
        PROVE  Shows(new, u, s, m) <=> Shows(conds, u, s, m)
    BY <2>2, <2>4 DEF Shows
  <2>8. QED
    BY <2>5, <2>6, <2>7 DEF new
<1>3. QED
  BY <1>1, <1>2

\* The condition is not true afterwards, those of other types stay as they are.
LEMMA ClearCondition ==
  ASSUME NEW conds \in Seq(Condition), OnePerType(conds), NEW t \in ConditionTypes
  PROVE  /\ OnePerType(Cleared(conds, t))
         /\ ~IsTrue(Cleared(conds, t), t)
         /\ \A u \in ConditionTypes \ {t}, s \in {"True", "False"}, m \in Ptr(Errors) :
              Shows(Cleared(conds, t), u, s, m) <=> Shows(conds, u, s, m)
<1> DEFINE new == WithCondition(conds, t, "False", Nil)
<1>1. CASE ~HasCondition(conds, t)
  BY <1>1 DEF Cleared, HasCondition, IsTrue
<1>2. CASE HasCondition(conds, t)
  <2>1. Cleared(conds, t) = new
    BY <1>2 DEF Cleared
  <2>2. /\ OnePerType(new) /\ Shows(new, t, "False", Nil)
        /\ \A u \in ConditionTypes \ {t}, s \in {"True", "False"}, m \in Ptr(Errors) :
             Shows(new, u, s, m) <=> Shows(conds, u, s, m)
    BY SetCondition DEF Ptr
  <2> HIDE DEF new
  <2>3. ~IsTrue(new, t)
    BY <2>2 DEF IsTrue, Shows, OnePerType
  <2>4. QED
    BY <2>1, <2>2, <2>3
<1>3. QED
  BY <1>1, <1>2

\* A condition that is true is shown with a message.
LEMMA TrueIsShown ==
  ASSUME NEW conds \in Seq(Condition), NEW t
  PROVE  IsTrue(conds, t) <=> \E m \in Ptr(Errors) : Shows(conds, t, "True", m)
<1>1. \A i \in DOMAIN conds : conds[i] \in Condition
  OBVIOUS
<1>2. \A i \in DOMAIN conds : conds[i].message \in Ptr(Errors)
  BY <1>1 DEF Condition
<1>3. QED
  BY <1>2 DEF IsTrue, Shows

-----------------------------------------------------------------------------
(* The outcome of a call is reported.                                      *)

LEMMA UpdateConditionsType ==
  ASSUME NEW conds \in Seq(Condition), NEW err \in Ptr(Errors)
  PROVE  updateConditions(conds, err) \in Seq(Condition)
<1>1. "ACK.Terminal" \in ConditionTypes /\ "ACK.Recoverable" \in ConditionTypes
  BY DEF ConditionTypes
<1>2. Cleared(conds, "ACK.Terminal") \in Seq(Condition)
  BY <1>1, ClearedType
<1>3. QED
  BY <1>1, <1>2, SetConditionType, ClearedType DEF updateConditions

LEMMA ReportedType ==
  ASSUME NEW conds \in Seq(Condition)
  PROVE  /\ \A err \in Errors : onError(conds, err).conds \in Seq(Condition)
         /\ onSuccess(conds) \in Seq(Condition)
BY UpdateConditionsType DEF onError, onSuccess, Ptr

\* Whatever earlier calls left in the status, after a call of the manager it has
\* one condition of each type, shows the error of this call under the condition
\* of its kind and no error after a success (sdk.updateConditions); the
\* condition ACK.ResourceSynced, which the runtime writes, stays as it was.
THEOREM OutcomeIsReported ==
  ASSUME NEW conds \in Seq(Condition), OnePerType(conds), NEW err \in Ptr(Errors)
  PROVE  LET new == updateConditions(conds, err) IN
         /\ OnePerType(new)
         /\ err = Nil => ~IsTrue(new, "ACK.Terminal") /\ ~IsTrue(new, "ACK.Recoverable")
         /\ err = "TerminalError" => Shows(new, "ACK.Terminal", "True", err)
         /\ err \in Errors \ {"TerminalError"} =>
              Shows(new, "ACK.Recoverable", "True", err) /\ ~IsTrue(new, "ACK.Terminal")
         /\ \A s \in {"True", "False"}, m \in Ptr(Errors) :
              Shows(new, "ACK.ResourceSynced", s, m)
                <=> Shows(conds, "ACK.ResourceSynced", s, m)
<1> DEFINE new == updateConditions(conds, err)
           cleared == Cleared(conds, "ACK.Terminal")
<1>1. /\ "ACK.Terminal" \in ConditionTypes /\ "ACK.Recoverable" \in ConditionTypes
      /\ "ACK.ResourceSynced" \in ConditionTypes
  BY DEF ConditionTypes
<1>2. cleared \in Seq(Condition) /\ OnePerType(cleared) /\ ~IsTrue(cleared, "ACK.Terminal")
  BY <1>1, ClearedType, ClearCondition
<1>3. \A s \in {"True", "False"}, m \in Ptr(Errors) :
        Shows(cleared, "ACK.ResourceSynced", s, m) <=> Shows(conds, "ACK.ResourceSynced", s, m)
  BY <1>1, ClearCondition
<1>4. new \in Seq(Condition)
  BY UpdateConditionsType
<1>5. CASE err = "TerminalError"
  <2>1. new = WithCondition(conds, "ACK.Terminal", "True", err)
    BY <1>5 DEF updateConditions
  <2>2. QED
    BY <1>1, <1>5, <2>1, SetCondition, ConditionConstants DEF Errors
<1>6. CASE err \in Errors \ {"TerminalError"}
  <2>1. new = WithCondition(cleared, "ACK.Recoverable", "True", err)
    BY <1>6, ConditionConstants DEF updateConditions
  <2> HIDE DEF cleared, new
  <2>2. /\ OnePerType(new) /\ Shows(new, "ACK.Recoverable", "True", err)
        /\ \A s \in {"True", "False"}, m \in Ptr(Errors) :
             /\ Shows(new, "ACK.ResourceSynced", s, m) <=> Shows(cleared, "ACK.ResourceSynced", s, m)
             /\ Shows(new, "ACK.Terminal", s, m) <=> Shows(cleared, "ACK.Terminal", s, m)
    BY <1>1, <1>2, <2>1, SetCondition
  <2>3. ~IsTrue(new, "ACK.Terminal")
    BY <1>2, <1>4, <2>2, TrueIsShown
  <2>4. QED
    BY <1>3, <1>6, <2>2, <2>3, ConditionConstants DEF new
<1>7. CASE err = Nil
  <2>1. new = Cleared(cleared, "ACK.Recoverable")
    BY <1>7, ConditionConstants DEF updateConditions, Errors
  <2> HIDE DEF cleared, new
  <2>2. /\ OnePerType(new) /\ ~IsTrue(new, "ACK.Recoverable")
        /\ \A s \in {"True", "False"}, m \in Ptr(Errors) :
             /\ Shows(new, "ACK.ResourceSynced", s, m) <=> Shows(cleared, "ACK.ResourceSynced", s, m)
             /\ Shows(new, "ACK.Terminal", s, m) <=> Shows(cleared, "ACK.Terminal", s, m)
    BY <1>1, <1>2, <2>1, ClearCondition
  <2>3. ~IsTrue(new, "ACK.Terminal")
    BY <1>2, <1>4, <2>2, TrueIsShown
  <2>4. QED
    BY <1>3, <1>7, <2>2, <2>3, ConditionConstants DEF new, Errors
<1>8. QED
  BY <1>5, <1>6, <1>7 DEF Ptr

\* However the resource failed before, the runtime is told to give up exactly
\* when the error of this call is terminal, and otherwise gets that error: a
\* NotFound is never hidden behind an old terminal condition (manager.onError).
THEOREM OnlyTerminalErrorsReturned ==
  ASSUME NEW conds \in Seq(Condition), OnePerType(conds), NEW err \in Errors
  PROVE  onError(conds, err).err = IF err = "TerminalError" THEN "Terminal" ELSE err
<1> DEFINE new == updateConditions(conds, err)
<1>1. /\ err = "TerminalError" => Shows(new, "ACK.Terminal", "True", err)
      /\ err # "TerminalError" => ~IsTrue(new, "ACK.Terminal")
  BY OutcomeIsReported DEF Ptr
<1>2. onError(conds, err).err = IF IsTrue(new, "ACK.Terminal") THEN "Terminal" ELSE err
  BY DEF onError
<1> HIDE DEF new
<1>3. err = "TerminalError" => IsTrue(new, "ACK.Terminal")
  BY <1>1 DEF Shows, IsTrue
<1>4. QED
  BY <1>1, <1>2, <1>3
=============================================================================
