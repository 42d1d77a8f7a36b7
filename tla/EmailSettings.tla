--------------------------- MODULE EmailSettings ---------------------------
(***************************************************************************)
(* EmailSettings: the settings for sending mail (configuration/services.py *)
(* and the views that call it).  Each comes from the server's settings     *)
(* unless the one row of EmailConfiguration overrides it.  A save replaces *)
(* all overrides; when none is left it deletes the row.  What a save or a  *)
(* reset changes is told in the audit log, by name and not by value.       *)
(*                                                                         *)
(* A request validates its form against the row, locks the row if there is *)
(* one, and writes.  Where there is none it has locked nothing, and two    *)
(* first saves meet in INSERT.                                             *)
(*                                                                         *)
(*   pc[w]                  what w has done                                *)
(*   "save", "reset"        has validated its form                         *)
(*   "saving", "resetting"  has read the row and locked it, if there is it *)
(*   "testing"              has read the settings to send a mail with      *)
(***************************************************************************)
EXTENDS Naturals, Sequences

CONSTANTS Settings,   \* MODEL_TO_SETTING
          PASSWORD_SETTING,
          Values,     \* that overrides may take
          Workers,    \* web processes serving requests
          MaxEvents,  \* bound on the audit log
          None        \* no row; an override that inherits

VARIABLES record,  \* the row of EmailConfiguration
          log,     \* the audit events of EmailConfiguration
          pc, form,
          seen     \* the row as the worker's transaction read it

vars == <<record, log, pc, form, seen>>

Overrides == [Settings -> Values \cup {None}]
Record    == [over : Overrides, password : Values \cup {None}]
Form      == [over : Overrides,
              action : {"keep", "replace", "inherit"},
              secret : Values]
Event     == [action : {"updated", "password_changed", "password_removed",
                        "reset", "test_sent", "test_failed"},
              fields : SUBSET (Settings \cup {PASSWORD_SETTING})]

ASSUME EmailSettingsAssumption ==
  /\ PASSWORD_SETTING \notin Settings
  /\ None \notin Values \cup Record \cup Form
  /\ MaxEvents \in Nat

Override(r, f) == IF r = None THEN None ELSE r.over[f]
Password(r)    == IF r = None THEN None ELSE r.password

SaysSomething(r) ==
  r.password # None \/ \E f \in Settings : r.over[f] # None

TypeOK ==
  /\ record \in Record \cup {None}
  /\ record # None => SaysSomething(record)  \* a row is there to override
  /\ log \in Seq(Event)
  /\ pc \in [Workers -> {"idle", "save", "reset", "saving", "resetting",
                         "testing"}]
  /\ form \in [Workers -> Form \cup {None}]
  /\ \A w \in Workers : pc[w] \in {"save", "saving"} => form[w] # None
  /\ seen \in [Workers -> Record \cup {None}]

-----------------------------------------------------------------------------
Init ==
  /\ record = None
  /\ log = <<>>
  /\ pc = [w \in Workers |-> "idle"]
  /\ form = [w \in Workers |-> None]
  /\ seen = [w \in Workers |-> None]

End(w) ==
  /\ pc' = [pc EXCEPT ![w] = "idle"]
  /\ form' = [form EXCEPT ![w] = None]
  /\ seen' = [seen EXCEPT ![w] = None]

\* The actions that EmailConfigurationForm offers for the password
PasswordActions ==
  {"replace", "inherit"} \cup (IF Password(record) # None THEN {"keep"} ELSE {})

\* email_configuration, with a form that is valid
PostSave(w) ==
  /\ pc[w] = "idle"
  /\ \E over \in Overrides, action \in PasswordActions, secret \in Values :
       form' = [form EXCEPT ![w] = [over |-> over, action |-> action,
                                    secret |-> secret]]
  /\ pc' = [pc EXCEPT ![w] = "save"]
  /\ UNCHANGED <<record, log, seen>>

PostReset(w) ==
  /\ pc[w] = "idle"
  /\ pc' = [pc EXCEPT ![w] = "reset"]
  /\ UNCHANGED <<record, log, form, seen>>

\* Whoever found a row holds it to the end.
Holds(w) == pc[w] \in {"saving", "resetting"} /\ seen[w] # None

Read(w) ==
  /\ pc[w] \in {"save", "reset"}
  /\ pc' = [pc EXCEPT ![w] = IF pc[w] = "save" THEN "saving" ELSE "resetting"]
  /\ seen' = [seen EXCEPT ![w] = record]
  /\ UNCHANGED <<record, log, form>>

\* SELECT ... FOR UPDATE
LockRecord(w) ==
  /\ \A r \in Workers \ {w} : ~Holds(r)
  /\ Read(w)

-----------------------------------------------------------------------------
(* Saving.                                                                 *)

NewPassword(w) ==
  CASE form[w].action = "replace" -> form[w].secret
    [] form[w].action = "inherit" -> None
    [] form[w].action = "keep"    -> Password(seen[w])

NewRecord(w) == [over |-> form[w].over, password |-> NewPassword(w)]

PasswordChanges(w) ==
  \/ form[w].action = "replace"
  \/ form[w].action = "inherit" /\ Password(seen[w]) # None

\* changed_fields
Changed(w) ==
  {f \in Settings : Override(seen[w], f) # form[w].over[f]}
    \cup IF PasswordChanges(w) THEN {PASSWORD_SETTING} ELSE {}

PasswordEvent(w) ==
  [action |-> IF form[w].action = "replace" THEN "password_changed"
                                            ELSE "password_removed",
   fields |-> {PASSWORD_SETTING}]

SaveEvents(w) ==
  (IF Changed(w) # {} THEN <<[action |-> "updated", fields |-> Changed(w)]>>
                      ELSE <<>>)
    \o (IF PasswordChanges(w) THEN <<PasswordEvent(w)>> ELSE <<>>)

\* Variant: a save that leaves no override leaves the row.
StoreAny(w) == NewRecord(w)

\* What is stored in the end
Store(w) ==
  IF SaysSomething(NewRecord(w)) THEN NewRecord(w)
  ELSE IF seen[w] # None THEN None ELSE record

\* Variant: two first saves are both let in.
RivalIgnored(w) == FALSE

\* Somebody stored a row since w found none: INSERT fails.
Rival(w) ==
  seen[w] = None /\ record # None /\ SaysSomething(NewRecord(w))

SaveOverrides(w) ==
  /\ pc[w] = "saving"
  /\ ~Rival(w)
  /\ Len(log) + 2 <= MaxEvents
  /\ record' = Store(w)
  /\ log' = log \o SaveEvents(w)
  /\ End(w)

-----------------------------------------------------------------------------
(* Resetting, testing and failing.                                         *)

Overridden(r) ==
  {f \in Settings : r.over[f] # None}
    \cup IF r.password # None THEN {PASSWORD_SETTING} ELSE {}

\* Variant: the reset does not tell of the password.
ResetSilently(w) == <<[action |-> "reset", fields |-> Overridden(seen[w])]>>

ResetEvents(w) ==
  <<[action |-> "reset", fields |-> Overridden(seen[w])]>>
    \o (IF Password(seen[w]) # None
        THEN <<[action |-> "password_removed", fields |-> {PASSWORD_SETTING}]>>
        ELSE <<>>)

Reset(w) ==
  /\ pc[w] = "resetting"
  /\ seen[w] # None
  /\ Len(log) + 2 <= MaxEvents
  /\ record' = None
  /\ log' = log \o ResetEvents(w)
  /\ End(w)

\* send_test reads the settings once and uses no transaction.
OpenTest(w) ==
  /\ pc[w] = "idle"
  /\ pc' = [pc EXCEPT ![w] = "testing"]
  /\ seen' = [seen EXCEPT ![w] = record]
  /\ UNCHANGED <<record, log, form>>

SendTest(w) ==
  /\ pc[w] = "testing"
  /\ Len(log) + 1 <= MaxEvents
  /\ \E result \in {"test_sent", "test_failed"} :
       log' = Append(log, [action |-> result, fields |-> {}])
  /\ End(w)
  /\ UNCHANGED record

\* A reset that finds nothing, an INSERT that fails, an exception or a worker
\* that dies
Abort(w) ==
  /\ pc[w] # "idle"
  /\ End(w)
  /\ UNCHANGED <<record, log>>

Next ==
  \E w \in Workers :
    \/ PostSave(w) \/ PostReset(w) \/ LockRecord(w)
    \/ SaveOverrides(w) \/ Reset(w)
    \/ OpenTest(w) \/ SendTest(w) \/ Abort(w)

Spec == Init /\ [][Next]_vars

-----------------------------------------------------------------------------
(* Properties.                                                             *)

\* What a request locked is what it writes over, however many save and reset at
\* once: the events it writes are computed from it.
LockedIsCurrent == \A w \in Workers : Holds(w) => record = seen[w]

\* The audit log tells whether a password is stored, though it tells no value:
\* one is if, and only if, it was changed after it was last removed.
LogTellsPassword ==
  Password(record) # None <=>
    \E i \in 1..Len(log) :
      /\ log[i].action = "password_changed"
      /\ \A j \in 1..Len(log) : log[j].action = "password_removed" => j < i

\* Whatever changes is told in the same transaction by an event that names it,
\* also when two first saves meet; and no event names what stays as it was,
\* save that a new password may be the old one.
LogTellsChanges ==
  [][LET told == UNION {log'[i].fields : i \in (Len(log) + 1)..Len(log')} IN
     /\ \A f \in Settings :
          Override(record', f) # Override(record, f) <=> f \in told
     /\ Password(record') # Password(record) => PASSWORD_SETTING \in told]_vars
=============================================================================
