------------------------ MODULE EmailSettings_proofs ------------------------
(***************************************************************************)
(* Proofs about EmailSettings, for every set of settings, values and       *)
(* workers: what the row lock protects, and that the audit log tells       *)
(* whatever changes.                                                       *)
(***************************************************************************)
EXTENDS EmailSettings, SequenceTheorems, TLAPS

\* A change of the password is the last that l tells of it.
TellsPassword(l) ==
  \E i \in 1..Len(l) :
    /\ l[i].action = "password_changed"
    /\ \A j \in 1..Len(l) : l[j].action = "password_removed" => j < i

TellsRemoval(l) == \E j \in 1..Len(l) : l[j].action = "password_removed"

\* The settings that l names
Named(l) == UNION {l[i].fields : i \in 1..Len(l)}

\* The settings that m names after l
Told(l, m) == UNION {m[i].fields : i \in (Len(l) + 1)..Len(m)}

\* No two workers hold the row.
Exclusive == \A w, r \in Workers : Holds(w) /\ Holds(r) => w = r

EInv ==
  /\ TypeOK
  /\ LockedIsCurrent
  /\ Exclusive
  /\ LogTellsPassword

-----------------------------------------------------------------------------
(* Logs that grow.                                                         *)

\* What a log tells once it has grown.
LEMMA GrownTells ==
  ASSUME NEW l \in Seq(Event), NEW new \in Seq(Event)
  PROVE  TellsPassword(l \o new) <=>
           TellsPassword(new) \/ (TellsPassword(l) /\ ~TellsRemoval(new))
<1> DEFINE m == l \o new
<1>1. /\ Len(m) = Len(l) + Len(new)
      /\ \A i \in 1..Len(l) : i \in 1..Len(m) /\ m[i] = l[i]
      /\ \A i \in 1..Len(new) :
           Len(l) + i \in 1..Len(m) /\ m[Len(l) + i] = new[i]
      /\ Len(l) \in Nat /\ Len(new) \in Nat
      /\ m \in Seq(Event)
  BY ConcatProperties
<1> HIDE DEF m
<1>2. ASSUME NEW j \in 1..Len(m)
      PROVE  \/ j \in 1..Len(l) /\ m[j] = l[j]
             \/ \E k \in 1..Len(new) : j = Len(l) + k /\ m[j] = new[k]
  <2>1. CASE j <= Len(l)
    BY <2>1, <1>1
  <2>2. CASE j > Len(l)
    <3> DEFINE k == j - Len(l)
    <3>1. k \in 1..Len(new) /\ j = Len(l) + k
      BY <2>2, <1>1
    <3> QED
      BY <3>1, <1>1
  <2> QED
    BY <2>1, <2>2, <1>1
<1>3. ASSUME TellsPassword(new)
      PROVE  TellsPassword(m)
  <2>1. PICK i \in 1..Len(new) :
          /\ new[i].action = "password_changed"
          /\ \A j \in 1..Len(new) : new[j].action = "password_removed" => j < i
    BY <1>3 DEF TellsPassword
  <2>2. \A j \in 1..Len(m) :
          m[j].action = "password_removed" => j < Len(l) + i
    <3> SUFFICES ASSUME NEW j \in 1..Len(m), m[j].action = "password_removed"
                 PROVE  j < Len(l) + i
      OBVIOUS
    <3>1. CASE j \in 1..Len(l)
      BY <3>1, <1>1
    <3>2. CASE \E k \in 1..Len(new) : j = Len(l) + k /\ m[j] = new[k]
      <4>1. PICK k \in 1..Len(new) : j = Len(l) + k /\ m[j] = new[k]
        BY <3>2
      <4>2. k < i
        BY <4>1, <2>1
      <4> QED
        BY <4>1, <4>2, <1>1
    <3> QED
      BY <3>1, <3>2, <1>2
  <2> QED
    BY <2>1, <2>2, <1>1 DEF TellsPassword
<1>4. ASSUME TellsPassword(l), ~TellsRemoval(new)
      PROVE  TellsPassword(m)
  <2>1. PICK i \in 1..Len(l) :
          /\ l[i].action = "password_changed"
          /\ \A j \in 1..Len(l) : l[j].action = "password_removed" => j < i
    BY <1>4 DEF TellsPassword
  <2>2. \A j \in 1..Len(m) : m[j].action = "password_removed" => j < i
    BY <2>1, <1>1, <1>2, <1>4 DEF TellsRemoval
  <2> QED
    BY <2>1, <2>2, <1>1 DEF TellsPassword
<1>5. ASSUME TellsPassword(m), ~TellsPassword(new)
      PROVE  TellsPassword(l) /\ ~TellsRemoval(new)
  <2>1. PICK i \in 1..Len(m) :
          /\ m[i].action = "password_changed"
          /\ \A j \in 1..Len(m) : m[j].action = "password_removed" => j < i
    BY <1>5 DEF TellsPassword
  <2>2. ~ \E k \in 1..Len(new) : i = Len(l) + k /\ m[i] = new[k]
    <3> SUFFICES ASSUME NEW k \in 1..Len(new), i = Len(l) + k, m[i] = new[k]
                 PROVE  FALSE
      OBVIOUS
    <3>1. \A j \in 1..Len(new) : new[j].action = "password_removed" => j < k
      BY <2>1, <1>1
    <3> QED
      BY <3>1, <2>1, <1>5 DEF TellsPassword
  <2>3. i \in 1..Len(l) /\ m[i] = l[i]
    BY <2>2, <1>2
  <2>4. TellsPassword(l)
    BY <2>1, <2>3, <1>1 DEF TellsPassword
  <2>5. ~TellsRemoval(new)
    BY <2>1, <2>3, <1>1 DEF TellsRemoval
  <2> QED
    BY <2>4, <2>5
<1> QED
  BY <1>3, <1>4, <1>5 DEF m

\* What a log names after it has grown is what it grew by.
LEMMA GrownNames ==
  ASSUME NEW l \in Seq(Event), NEW new \in Seq(Event)
  PROVE  Told(l, l \o new) = Named(new)
<1> DEFINE m == l \o new
<1>1. /\ Len(m) = Len(l) + Len(new)
      /\ \A i \in 1..Len(new) : m[Len(l) + i] = new[i]
      /\ Len(l) \in Nat /\ Len(new) \in Nat
  BY ConcatProperties
<1> HIDE DEF m
<1>2. ASSUME NEW f \in Told(l, m)
      PROVE  f \in Named(new)
  <2>1. PICK i \in (Len(l) + 1)..Len(m) : f \in m[i].fields
    BY <1>2 DEF Told
  <2>2. i - Len(l) \in 1..Len(new) /\ m[i] = new[i - Len(l)]
    <3>1. i - Len(l) \in 1..Len(new) /\ Len(l) + (i - Len(l)) = i
      BY <1>1
    <3> QED
      BY <3>1, <1>1
  <2> QED
    BY <2>1, <2>2 DEF Named
<1>3. ASSUME NEW f \in Named(new)
      PROVE  f \in Told(l, m)
  <2>1. PICK i \in 1..Len(new) : f \in new[i].fields
    BY <1>3 DEF Named
  <2>2. Len(l) + i \in (Len(l) + 1)..Len(m) /\ m[Len(l) + i] = new[i]
    BY <1>1
  <2> QED
    BY <2>1, <2>2 DEF Told
<1> QED
  BY <1>2, <1>3 DEF m

\* What two pieces of a log name and remove.
LEMMA JoinedNames ==
  ASSUME NEW l \in Seq(Event), NEW new \in Seq(Event)
  PROVE  /\ l \o new \in Seq(Event)
         /\ Named(l \o new) = Named(l) \cup Named(new)
         /\ TellsRemoval(l \o new) <=> TellsRemoval(l) \/ TellsRemoval(new)
<1> DEFINE m == l \o new
<1>1. /\ m \in Seq(Event)
      /\ \A i \in 1..Len(l) : i \in 1..Len(m) /\ m[i] = l[i]
      /\ \A i \in 1..Len(new) :
           Len(l) + i \in 1..Len(m) /\ m[Len(l) + i] = new[i]
  BY ConcatProperties
<1>2. ASSUME NEW j \in 1..Len(m)
      PROVE  \/ \E k \in 1..Len(l) : m[j] = l[k]
             \/ \E k \in 1..Len(new) : m[j] = new[k]
  <2>1. CASE j \in 1..Len(l)
    BY <1>1, <2>1
  <2>2. CASE j \notin 1..Len(l)
    <3> DEFINE k == j - Len(l)
    <3>1. k \in 1..Len(new) /\ j = Len(l) + k
      BY <2>2, ConcatProperties
    <3> QED
      BY <3>1, <1>1
  <2> QED
    BY <2>1, <2>2
<1> HIDE DEF m
<1>3. Named(m) \subseteq Named(l) \cup Named(new)
  <2> SUFFICES ASSUME NEW j \in 1..Len(m), NEW f \in m[j].fields
               PROVE  f \in Named(l) \cup Named(new)
    BY DEF Named
  <2> QED
    BY <1>2 DEF Named
<1>4. Named(l) \cup Named(new) \subseteq Named(m)
  <2>1. ASSUME NEW k \in 1..Len(l), NEW f \in l[k].fields
        PROVE  f \in Named(m)
    BY <1>1, <2>1 DEF Named
  <2>2. ASSUME NEW k \in 1..Len(new), NEW f \in new[k].fields
        PROVE  f \in Named(m)
    BY <1>1, <2>2 DEF Named
  <2> QED
    BY <2>1, <2>2 DEF Named
<1>5. ASSUME TellsRemoval(m)
      PROVE  TellsRemoval(l) \/ TellsRemoval(new)
  BY <1>2, <1>5 DEF TellsRemoval
<1>6. ASSUME TellsRemoval(l) \/ TellsRemoval(new)
      PROVE  TellsRemoval(m)
  BY <1>1, <1>6 DEF TellsRemoval
<1> QED
  BY <1>1, <1>3, <1>4, <1>5, <1>6 DEF m

\* What one event tells.
LEMMA OneEvent ==
  ASSUME NEW e \in Event
  PROVE  /\ <<e>> \in Seq(Event)
         /\ Named(<<e>>) = e.fields
         /\ TellsPassword(<<e>>) <=> e.action = "password_changed"
         /\ TellsRemoval(<<e>>) <=> e.action = "password_removed"
<1>1. <<e>> \in Seq(Event) /\ Len(<<e>>) = 1 /\ <<e>>[1] = e /\ 1..1 = {1}
  OBVIOUS
<1> QED
  BY <1>1 DEF Named, TellsPassword, TellsRemoval

\* No event tells nothing.
LEMMA NoEvent ==
  /\ <<>> \in Seq(Event)
  /\ Named(<<>>) = {}
  /\ ~TellsPassword(<<>>)
  /\ ~TellsRemoval(<<>>)
<1>1. <<>> \in Seq(Event) /\ Len(<<>>) = 0 /\ 1..0 = {}
  OBVIOUS
<1> QED
  BY <1>1 DEF Named, TellsPassword, TellsRemoval

-----------------------------------------------------------------------------
(* What saves and resets tell.                                             *)

\* An update, where settings change, and what is told of the password.
LEMMA SaveTells ==
  ASSUME TypeOK, NEW w \in Workers, pc[w] = "saving"
  PROVE  /\ SaveEvents(w) \in Seq(Event)
         /\ Named(SaveEvents(w)) = Changed(w)
         /\ TellsPassword(SaveEvents(w)) <=> form[w].action = "replace"
         /\ TellsRemoval(SaveEvents(w)) <=>
              form[w].action = "inherit" /\ Password(seen[w]) # None
<1> DEFINE update == [action |-> "updated", fields |-> Changed(w)]
           first  == IF Changed(w) # {} THEN <<update>> ELSE <<>>
           second == IF PasswordChanges(w) THEN <<PasswordEvent(w)>> ELSE <<>>
<1>1. update \in Event /\ update.action = "updated" /\ update.fields = Changed(w)
  BY DEF Event, Changed
<1>2. /\ PasswordEvent(w) \in Event
      /\ PasswordEvent(w).fields = {PASSWORD_SETTING}
      /\ PasswordEvent(w).action = IF form[w].action = "replace"
                                   THEN "password_changed"
                                   ELSE "password_removed"
  BY DEF PasswordEvent, Event
<1>3. PasswordChanges(w) => PASSWORD_SETTING \in Changed(w)
  BY DEF Changed
<1> HIDE DEF update
<1>4. /\ first \in Seq(Event) /\ Named(first) = Changed(w)
      /\ ~TellsPassword(first) /\ ~TellsRemoval(first)
  BY <1>1, OneEvent, NoEvent
<1>5. /\ second \in Seq(Event)
      /\ Named(second) = IF PasswordChanges(w) THEN {PASSWORD_SETTING} ELSE {}
      /\ TellsPassword(second) <=>
           PasswordChanges(w) /\ form[w].action = "replace"
      /\ TellsRemoval(second) <=>
           PasswordChanges(w) /\ form[w].action # "replace"
  BY <1>2, OneEvent, NoEvent
<1>6. SaveEvents(w) = first \o second
  BY DEF SaveEvents, update
<1> HIDE DEF first, second
<1>7. /\ SaveEvents(w) \in Seq(Event)
      /\ Named(SaveEvents(w)) = Named(first) \cup Named(second)
      /\ TellsRemoval(SaveEvents(w)) <=> TellsRemoval(first) \/ TellsRemoval(second)
  BY <1>4, <1>5, <1>6, JoinedNames
<1>8. TellsPassword(SaveEvents(w)) <=>
        TellsPassword(second) \/ (TellsPassword(first) /\ ~TellsRemoval(second))
  BY <1>4, <1>5, <1>6, GrownTells
<1>9. Named(SaveEvents(w)) = Changed(w)
  BY <1>3, <1>4, <1>5, <1>7
<1> QED
  BY <1>4, <1>5, <1>7, <1>8, <1>9 DEF PasswordChanges

\* A reset names what it takes away.
LEMMA ResetTells ==
  ASSUME TypeOK, NEW w \in Workers, seen[w] # None
  PROVE  /\ ResetEvents(w) \in Seq(Event)
         /\ Named(ResetEvents(w)) = Overridden(seen[w])
         /\ ~TellsPassword(ResetEvents(w))
         /\ TellsRemoval(ResetEvents(w)) <=> Password(seen[w]) # None
<1> DEFINE reset   == [action |-> "reset", fields |-> Overridden(seen[w])]
           removed == [action |-> "password_removed",
                       fields |-> {PASSWORD_SETTING}]
           second  == IF Password(seen[w]) # None THEN <<removed>> ELSE <<>>
<1>1. /\ reset \in Event /\ reset.action = "reset"
      /\ reset.fields = Overridden(seen[w])
  BY DEF Event, Overridden
<1>2. /\ removed \in Event /\ removed.action = "password_removed"
      /\ removed.fields = {PASSWORD_SETTING}
  BY DEF Event
<1>3. Password(seen[w]) # None => PASSWORD_SETTING \in Overridden(seen[w])
  BY DEF Overridden, Password
<1>4. ResetEvents(w) = <<reset>> \o second
  BY DEF ResetEvents
<1> HIDE DEF reset, removed
<1>5. /\ <<reset>> \in Seq(Event) /\ Named(<<reset>>) = Overridden(seen[w])
      /\ ~TellsPassword(<<reset>>) /\ ~TellsRemoval(<<reset>>)
  BY <1>1, OneEvent
<1>6. /\ second \in Seq(Event)
      /\ Named(second) \subseteq Overridden(seen[w])
      /\ ~TellsPassword(second)
      /\ TellsRemoval(second) <=> Password(seen[w]) # None
  BY <1>2, <1>3, OneEvent, NoEvent
<1> DEFINE first == <<reset>>
<1> HIDE DEF first, second
<1>7. /\ ResetEvents(w) \in Seq(Event)
      /\ Named(ResetEvents(w)) = Named(first) \cup Named(second)
      /\ TellsRemoval(ResetEvents(w)) <=> TellsRemoval(first) \/ TellsRemoval(second)
  BY <1>4, <1>5, <1>6, JoinedNames DEF first
<1>8. TellsPassword(ResetEvents(w)) <=>
        TellsPassword(second) \/ (TellsPassword(first) /\ ~TellsRemoval(second))
  BY <1>4, <1>5, <1>6, GrownTells DEF first
<1> QED
  BY <1>5, <1>6, <1>7, <1>8 DEF first

-----------------------------------------------------------------------------
(* Types.                                                                  *)

\* At the end of a request its worker is idle.
LEMMA EndType ==
  ASSUME TypeOK, NEW w \in Workers, End(w)
  PROVE  /\ pc' \in [Workers -> {"idle", "save", "reset", "saving",
                                  "resetting", "testing"}]
         /\ form' \in [Workers -> Form \cup {None}]
         /\ \A r \in Workers : pc'[r] \in {"save", "saving"} => form'[r] # None
         /\ seen' \in [Workers -> Record \cup {None}]
BY DEF TypeOK, End

\* A valid form has a row of its values.
LEMMA NewRecordType ==
  ASSUME TypeOK, NEW w \in Workers, pc[w] = "saving"
  PROVE  /\ form[w] \in Form
         /\ NewPassword(w) \in Values \cup {None}
         /\ NewRecord(w) \in Record
         /\ NewRecord(w) # None
<1>1. form[w] \in Form /\ seen[w] \in Record \cup {None}
  BY DEF TypeOK
<1>2. Password(seen[w]) \in Values \cup {None}
  BY <1>1 DEF Password, Record
<1>3. /\ form[w].action \in {"keep", "replace", "inherit"}
      /\ form[w].secret \in Values
      /\ form[w].over \in Overrides
  BY <1>1 DEF Form
<1>4. NewPassword(w) \in Values \cup {None}
  BY <1>2, <1>3 DEF NewPassword
<1>5. NewRecord(w) \in Record
  BY <1>3, <1>4 DEF NewRecord, Record
<1> QED
  BY <1>1, <1>4, <1>5, EmailSettingsAssumption

\* Every step keeps the types.
LEMMA NextType == TypeOK /\ [Next]_vars => TypeOK'
<1> SUFFICES ASSUME TypeOK, [Next]_vars
             PROVE  TypeOK'
  OBVIOUS
<1>1. ASSUME NEW w \in Workers, PostSave(w)
      PROVE  TypeOK'
  <2>1. PICK over \in Overrides, action \in PasswordActions, secret \in Values :
          form' = [form EXCEPT ![w] = [over |-> over, action |-> action,
                                       secret |-> secret]]
    BY <1>1 DEF PostSave
  <2> DEFINE new == [over |-> over, action |-> action, secret |-> secret]
  <2>2. new \in Form /\ new # None
    BY EmailSettingsAssumption DEF Form, PasswordActions
  <2> HIDE DEF new
  <2>3. form' = [form EXCEPT ![w] = new]
    BY <2>1 DEF new
  <2> QED
    BY <1>1, <2>2, <2>3 DEF PostSave, TypeOK
<1>2. ASSUME NEW w \in Workers, PostReset(w)
      PROVE  TypeOK'
  BY <1>2 DEF PostReset, TypeOK
<1>3. ASSUME NEW w \in Workers, LockRecord(w)
      PROVE  TypeOK'
  BY <1>3 DEF LockRecord, Read, TypeOK
<1>4. ASSUME NEW w \in Workers, SaveOverrides(w)
      PROVE  TypeOK'
  <2>1. NewRecord(w) \in Record /\ SaveEvents(w) \in Seq(Event)
    BY <1>4, NewRecordType, SaveTells DEF SaveOverrides
  <2>2. log' \in Seq(Event)
    BY <1>4, <2>1, JoinedNames DEF SaveOverrides, TypeOK
  <2>3. /\ record' \in Record \cup {None}
        /\ record' # None => SaysSomething(record')
    BY <1>4, <2>1 DEF SaveOverrides, Store, TypeOK
  <2> QED
    BY <1>4, <2>2, <2>3, EndType DEF SaveOverrides, TypeOK, SaysSomething
<1>5. ASSUME NEW w \in Workers, Reset(w)
      PROVE  TypeOK'
  <2>1. ResetEvents(w) \in Seq(Event)
    BY <1>5, ResetTells DEF Reset
  <2>2. log' \in Seq(Event)
    BY <1>5, <2>1, JoinedNames DEF Reset, TypeOK
  <2> QED
    BY <1>5, <2>2, EndType DEF Reset, TypeOK
<1>6. ASSUME NEW w \in Workers, OpenTest(w)
      PROVE  TypeOK'
  BY <1>6 DEF OpenTest, TypeOK
<1>7. ASSUME NEW w \in Workers, SendTest(w)
      PROVE  TypeOK'
  <2>1. log' \in Seq(Event)
    BY <1>7 DEF SendTest, TypeOK, Event
  <2> QED
    BY <1>7, <2>1, EndType DEF SendTest, TypeOK, SaysSomething
<1>8. ASSUME NEW w \in Workers, Abort(w)
      PROVE  TypeOK'
  BY <1>8, EndType DEF Abort, TypeOK, SaysSomething
<1>9. CASE UNCHANGED vars
  BY <1>9 DEF vars, TypeOK, SaysSomething
<1> QED
  BY <1>1, <1>2, <1>3, <1>4, <1>5, <1>6, <1>7, <1>8, <1>9 DEF Next

-----------------------------------------------------------------------------
(* The lock and the log.                                                   *)

\* Unless it stores nothing, a save writes over what it read.
LEMMA Overwrites ==
  ASSUME EInv, NEW w \in Workers, pc[w] = "saving", ~Rival(w)
  PROVE  \/ record = seen[w]
         \/ seen[w] = None /\ ~SaysSomething(NewRecord(w))
BY DEF EInv, LockedIsCurrent, Holds, Rival

\* What is stored, and what is told of it.
LEMMA Saved ==
  ASSUME EInv, NEW w \in Workers, SaveOverrides(w)
  PROVE  /\ \A f \in Settings :
              Override(record', f) # Override(record, f) <=> f \in Changed(w)
         /\ Password(record') # Password(record) =>
              PASSWORD_SETTING \in Changed(w)
         /\ Password(record') # None <=>
              \/ form[w].action = "replace"
              \/ /\ Password(record) # None
                 /\ ~(form[w].action = "inherit" /\ Password(seen[w]) # None)
<1>1. pc[w] = "saving" /\ ~Rival(w) /\ record' = Store(w) /\ TypeOK
  BY DEF SaveOverrides, EInv
<1>2. /\ form[w] \in Form /\ NewRecord(w) # None
      /\ form[w].action \in {"keep", "replace", "inherit"}
      /\ form[w].secret # None
  BY <1>1, NewRecordType, EmailSettingsAssumption DEF Form
<1>3. /\ Password(NewRecord(w)) = NewPassword(w)
      /\ \A f \in Settings : Override(NewRecord(w), f) = form[w].over[f]
  BY <1>2 DEF Password, Override, NewRecord
<1>4. SaysSomething(NewRecord(w)) <=>
        NewPassword(w) # None \/ \E f \in Settings : form[w].over[f] # None
  BY DEF SaysSomething, NewRecord
<1>5. \A f \in Settings : f \in Changed(w) <=> Override(seen[w], f) # form[w].over[f]
  BY EmailSettingsAssumption DEF Changed
<1>6. PASSWORD_SETTING \in Changed(w) <=> PasswordChanges(w)
  BY EmailSettingsAssumption DEF Changed
<1>7. NewPassword(w) # Password(seen[w]) => PasswordChanges(w)
  BY <1>2 DEF NewPassword, PasswordChanges
<1>8. NewPassword(w) # None <=>
        \/ form[w].action = "replace"
        \/ form[w].action = "keep" /\ Password(seen[w]) # None
  BY <1>2 DEF NewPassword
<1>9. /\ Password(None) = None
      /\ \A f \in Settings : Override(None, f) = None
  BY DEF Password, Override
<1>10. CASE SaysSomething(NewRecord(w))
  <2>1. record' = NewRecord(w) /\ record = seen[w]
    BY <1>1, <1>10, Overwrites DEF Store
  <2> QED
    BY <2>1, <1>2, <1>3, <1>5, <1>6, <1>7, <1>8
<1>11. CASE ~SaysSomething(NewRecord(w)) /\ seen[w] # None
  <2>1. record' = None /\ record = seen[w]
    BY <1>1, <1>11, Overwrites DEF Store
  <2>2. NewPassword(w) = None /\ \A f \in Settings : form[w].over[f] = None
    BY <1>4, <1>11
  <2> QED
    BY <2>1, <2>2, <1>2, <1>5, <1>6, <1>7, <1>8, <1>9
<1>12. CASE ~SaysSomething(NewRecord(w)) /\ seen[w] = None
  <2>1. record' = record
    BY <1>1, <1>12 DEF Store
  <2>2. NewPassword(w) = None /\ \A f \in Settings : form[w].over[f] = None
    BY <1>4, <1>12
  <2> QED
    BY <2>1, <2>2, <1>5, <1>8, <1>9, <1>12
<1> QED
  BY <1>10, <1>11, <1>12

\* A worker that held the row, or goes on holding it, is the only one.
LEMMA NextLocked ==
  EInv /\ [Next]_vars => LockedIsCurrent' /\ Exclusive'
<1> SUFFICES ASSUME EInv, [Next]_vars
             PROVE  LockedIsCurrent' /\ Exclusive'
  OBVIOUS
<1> USE DEF EInv
<1>1. ASSUME NEW w \in Workers, End(w)
      PROVE  \A r \in Workers : Holds(r)' => Holds(r) /\ r # w /\ seen'[r] = seen[r]
  BY <1>1 DEF End, Holds, TypeOK
<1>2. ASSUME NEW w \in Workers, PostSave(w) \/ PostReset(w) \/ OpenTest(w)
      PROVE  LockedIsCurrent' /\ Exclusive'
  <2>1. \A r \in Workers : Holds(r)' => Holds(r) /\ seen'[r] = seen[r]
    BY <1>2 DEF PostSave, PostReset, OpenTest, Holds, TypeOK
  <2>2. record' = record
    BY <1>2 DEF PostSave, PostReset, OpenTest
  <2> QED
    BY <2>1, <2>2 DEF LockedIsCurrent, Exclusive
<1>3. ASSUME NEW w \in Workers, LockRecord(w)
      PROVE  LockedIsCurrent' /\ Exclusive'
  <2>1. \A r \in Workers \ {w} :
          Holds(r)' => Holds(r) /\ seen'[r] = seen[r]
    BY <1>3 DEF LockRecord, Read, Holds, TypeOK
  <2>2. \A r \in Workers \ {w} : ~Holds(r)
    BY <1>3 DEF LockRecord
  <2>3. record' = record /\ seen'[w] = record
    BY <1>3 DEF LockRecord, Read, TypeOK
  <2> QED
    BY <2>1, <2>2, <2>3 DEF LockedIsCurrent, Exclusive
<1>4. ASSUME NEW w \in Workers, SaveOverrides(w)
      PROVE  LockedIsCurrent' /\ Exclusive'
  <2>1. \A r \in Workers : Holds(r)' => Holds(r) /\ r # w /\ seen'[r] = seen[r]
    BY <1>1, <1>4 DEF SaveOverrides
  <2>2. ASSUME NEW r \in Workers, Holds(r), r # w
        PROVE  record' = record
    <3>1. record = seen[r] /\ seen[r] # None /\ ~Holds(w)
      BY <2>2 DEF LockedIsCurrent, Exclusive, Holds
    <3>2. seen[w] = None
      BY <1>4, <3>1 DEF SaveOverrides, Holds
    <3>3. ~SaysSomething(NewRecord(w))
      BY <1>4, <3>1, <3>2 DEF SaveOverrides, Rival
    <3> QED
      BY <1>4, <3>2, <3>3 DEF SaveOverrides, Store
  <2> QED
    BY <2>1, <2>2 DEF LockedIsCurrent, Exclusive
<1>5. ASSUME NEW w \in Workers, Reset(w)
      PROVE  LockedIsCurrent' /\ Exclusive'
  <2>1. \A r \in Workers : Holds(r)' => Holds(r) /\ r # w
    BY <1>1, <1>5 DEF Reset
  <2>2. Holds(w)
    BY <1>5 DEF Reset, Holds
  <2> QED
    BY <2>1, <2>2 DEF LockedIsCurrent, Exclusive
<1>6. ASSUME NEW w \in Workers, SendTest(w) \/ Abort(w)
      PROVE  LockedIsCurrent' /\ Exclusive'
  <2>1. record' = record /\ End(w)
    BY <1>6 DEF SendTest, Abort
  <2> QED
    BY <2>1, <1>1 DEF LockedIsCurrent, Exclusive
<1>7. CASE UNCHANGED vars
  BY <1>7 DEF vars, LockedIsCurrent, Exclusive, Holds
<1> QED
  BY <1>2, <1>3, <1>4, <1>5, <1>6, <1>7 DEF Next

\* No step makes the log tell wrong of the password.
LEMMA NextTells == EInv /\ [Next]_vars => LogTellsPassword'
<1> SUFFICES ASSUME EInv, [Next]_vars
             PROVE  LogTellsPassword'
  OBVIOUS
<1> USE DEF EInv
<1>1. Password(record) # None <=> TellsPassword(log)
  BY DEF LogTellsPassword, TellsPassword
<1>2. SUFFICES Password(record') # None <=> TellsPassword(log')
  BY DEF LogTellsPassword, TellsPassword, Password
<1>3. log \in Seq(Event)
  BY DEF TypeOK
<1>4. ASSUME NEW w \in Workers, SaveOverrides(w)
      PROVE  Password(record') # None <=> TellsPassword(log')
  <2>1. pc[w] = "saving" /\ log' = log \o SaveEvents(w)
    BY <1>4 DEF SaveOverrides
  <2>2. TellsPassword(log') <=>
          \/ TellsPassword(SaveEvents(w))
          \/ TellsPassword(log) /\ ~TellsRemoval(SaveEvents(w))
    BY <2>1, <1>3, SaveTells, GrownTells
  <2> QED
    BY <1>1, <1>4, <2>1, <2>2, SaveTells, Saved
<1>5. ASSUME NEW w \in Workers, Reset(w)
      PROVE  Password(record') # None <=> TellsPassword(log')
  <2>1. seen[w] # None /\ record' = None /\ log' = log \o ResetEvents(w)
    BY <1>5 DEF Reset
  <2>2. record = seen[w]
    BY <1>5 DEF Reset, LockedIsCurrent, Holds
  <2>3. TellsPassword(log') <=>
          \/ TellsPassword(ResetEvents(w))
          \/ TellsPassword(log) /\ ~TellsRemoval(ResetEvents(w))
    BY <2>1, <1>3, ResetTells, GrownTells
  <2>4. Password(record') = None
    BY <2>1 DEF Password
  <2> QED
    BY <1>1, <2>1, <2>2, <2>3, <2>4, ResetTells
<1>6. ASSUME NEW w \in Workers, SendTest(w)
      PROVE  Password(record') # None <=> TellsPassword(log')
  <2>1. PICK result \in {"test_sent", "test_failed"} :
          log' = Append(log, [action |-> result, fields |-> {}])
    BY <1>6 DEF SendTest
  <2> DEFINE e == [action |-> result, fields |-> {}]
  <2>2. e \in Event /\ e.action \notin {"password_changed", "password_removed"}
    BY DEF Event
  <2> HIDE DEF e
  <2>3. log' = log \o <<e>>
    BY <2>1, <2>2, <1>3, AppendIsConcat DEF e
  <2>4. TellsPassword(log') <=> TellsPassword(log)
    BY <2>2, <2>3, <1>3, OneEvent, GrownTells
  <2>5. record' = record
    BY <1>6 DEF SendTest
  <2> QED
    BY <1>1, <2>4, <2>5
<1>7. ASSUME record' = record, log' = log
      PROVE  Password(record') # None <=> TellsPassword(log')
  BY <1>1, <1>7
<1> QED
  BY <1>4, <1>5, <1>6, <1>7
  DEF Next, vars, PostSave, PostReset, LockRecord, Read, OpenTest, Abort

-----------------------------------------------------------------------------
(* Theorems.                                                               *)

\* The invariant that the theorems rest on.
LEMMA Invariant == Spec => []EInv
<1>1. Init => EInv
  <2> SUFFICES ASSUME Init
               PROVE  EInv
    OBVIOUS
  <2>1. TypeOK
    BY DEF Init, TypeOK
  <2>2. LockedIsCurrent /\ Exclusive
    BY DEF Init, LockedIsCurrent, Exclusive, Holds
  <2>3. LogTellsPassword
    BY NoEvent DEF Init, LogTellsPassword, TellsPassword, Password
  <2> QED
    BY <2>1, <2>2, <2>3 DEF EInv
<1>2. EInv /\ [Next]_vars => EInv'
  BY NextType, NextLocked, NextTells DEF EInv
<1> QED
  BY <1>1, <1>2, PTL DEF Spec

\* The row, the log and the requests in progress keep their types, and a row is
\* there only to override something: record.delete in save_overrides.
THEOREM SettingsTypes == Spec => []TypeOK
<1>1. EInv => TypeOK
  BY DEF EInv
<1> QED
  BY <1>1, Invariant, PTL

\* select_for_update in save_overrides and reset: what a request has locked is
\* what it writes over.
THEOREM LockProtects == Spec => []LockedIsCurrent
<1>1. EInv => LockedIsCurrent
  BY DEF EInv
<1> QED
  BY <1>1, Invariant, PTL

\* The events of save_overrides and reset tell at any time whether a password
\* is stored.
THEOREM PasswordIsTold == Spec => []LogTellsPassword
<1>1. EInv => LogTellsPassword
  BY DEF EInv
<1> QED
  BY <1>1, Invariant, PTL

\* changed_fields and overridden_fields: whatever changes is told in the same
\* transaction, and only that, also when two first saves meet.
THEOREM ChangesAreTold == Spec => LogTellsChanges
<1> DEFINE Telling ==
      LET told == UNION {log'[i].fields : i \in (Len(log) + 1)..Len(log')} IN
      /\ \A f \in Settings :
           Override(record', f) # Override(record, f) <=> f \in told
      /\ Password(record') # Password(record) => PASSWORD_SETTING \in told
<1>1. ASSUME EInv, [Next]_vars
      PROVE  [Telling]_vars
  <2> USE <1>1
  <2>1. log \in Seq(Event) /\ Len(log) \in Nat
    BY DEF EInv, TypeOK
  <2>2. ASSUME NEW w \in Workers, SaveOverrides(w)
        PROVE  Telling
    <3>1. Told(log, log') = Changed(w)
      BY <2>1, <2>2, SaveTells, GrownNames DEF SaveOverrides, EInv
    <3> QED
      BY <2>2, <3>1, Saved DEF Told
  <2>3. ASSUME NEW w \in Workers, Reset(w)
        PROVE  Telling
    <3>1. Told(log, log') = Overridden(seen[w])
      BY <2>1, <2>3, ResetTells, GrownNames DEF Reset, EInv
    <3>2. record = seen[w] /\ record # None /\ record' = None
      BY <2>3 DEF Reset, EInv, LockedIsCurrent, Holds
    <3>3. /\ \A f \in Settings :
               Override(record', f) # Override(record, f) <=>
                 f \in Overridden(record)
          /\ Password(record') # Password(record) =>
               PASSWORD_SETTING \in Overridden(record)
      BY <3>2, EmailSettingsAssumption DEF Override, Password, Overridden
    <3> QED
      BY <3>1, <3>2, <3>3 DEF Told
  <2>4. ASSUME record' = record, Told(log, log') = {}
        PROVE  Telling
    BY <2>4 DEF Told
  <2>5. ASSUME NEW w \in Workers, SendTest(w)
        PROVE  record' = record /\ Told(log, log') = {}
    <3>1. PICK result \in {"test_sent", "test_failed"} :
            log' = Append(log, [action |-> result, fields |-> {}])
      BY <2>5 DEF SendTest
    <3> DEFINE e == [action |-> result, fields |-> {}]
    <3>2. e \in Event /\ e.fields = {}
      BY DEF Event
    <3> HIDE DEF e
    <3>3. log' = log \o <<e>>
      BY <2>1, <3>1, <3>2, AppendIsConcat DEF e
    <3>4. Told(log, log') = {}
      BY <2>1, <3>2, <3>3, OneEvent, GrownNames
    <3> QED
      BY <2>5, <3>4 DEF SendTest
  <2>6. ASSUME log' = log
        PROVE  Told(log, log') = {}
    BY <2>1, <2>6 DEF Told
  <2> QED
    BY <2>2, <2>3, <2>4, <2>5, <2>6
    DEF Next, vars, PostSave, PostReset, LockRecord, Read, OpenTest, Abort
<1> QED
  BY <1>1, Invariant, PTL DEF Spec, LogTellsChanges
=============================================================================
