------------------------------ MODULE UserLife ------------------------------
(***************************************************************************)
(* The life of one user record: it is issued, time passes, a philanthropist*)
(* or member renews it at the control terminal, and whenever the file is   *)
(* reloaded (a restart, an edit of the file) the record is the one read    *)
(* back from the CSV file.                                                 *)
(***************************************************************************)
EXTENDS UserRecord

CONSTANTS Instants,     \* the instants the clock shows
          Issuable      \* the records there are before time passes

ASSUME InstantsAssumption == Instants \subseteq Instant
ASSUME IssuableAssumption == Issuable \subseteq UserRecords

VARIABLES user,      \* the record in memory
          now,       \* the present instant
          issued     \* the instant of the last renewal; 0 before the first
vars == <<user, now, issued>>

TypeOK ==
  /\ user \in UserRecords
  /\ now \in Instants
  /\ issued \in Instants \cup {0}

Init ==
  /\ user \in Issuable
  /\ now \in Instants
  /\ issued = 0

\* Time passes.
Tick ==
  /\ \E t \in Instants : t > now /\ now' = t
  /\ UNCHANGED <<user, issued>>

\* HandleRFID in StateUpdateAwaitRFID: only a record that expires is
\* renewed; the updater sets ValidFrom to the present.
Renew ==
  /\ ~IsZero(ExpiryDate(user, Now(now)))
  /\ user' = [user EXCEPT !.from = Now(now)]
  /\ issued' = now
  /\ UNCHANGED now

\* The record goes through the file: writeDatabase or
\* appendDatabaseSingleEntry, later readDatabase.
Reload ==
  /\ IsUserRow(WriteCSV(user))
  /\ user' = Reloaded(user)
  /\ UNCHANGED <<now, issued>>

Next == Tick \/ Renew \/ Reload
Spec == Init /\ [][Next]_vars

-----------------------------------------------------------------------------
Expired(u, instant) ==
  LET expires == ExpiryDate(u, Now(instant))
  IN  ~IsZero(expires) /\ expires.at <= instant

\* Expiry is final: a record that has expired stays expired, through the
\* passing of time and through any number of reloads, until somebody renews
\* it (ExpiryDate, FormatTime's truncation and its loss of the zone).
ExpiryIsFinal ==
  [][Expired(user, now) /\ ~Renew => Expired(user', now')]_vars

\* A reload never lengthens the life of a record: it expires at the same
\* instant or earlier, and a record that expires does not become permanent.
ReloadNeverExtends ==
  [][Reload =>
       LET before == ExpiryDate(user, Now(now))
           after  == ExpiryDate(user', Now(now'))
       IN  ~IsZero(before) => ~IsZero(after) /\ after.at <= before.at]_vars

\* Reloading is idempotent: once a record has been through the file, a
\* further write and read changes nothing, so a long-running host does not
\* drift away from what is stored.
ReloadIsStable == Reloaded(Reloaded(user)) = Reloaded(user)

\* The hours the UI and the user list show (AccessHours) are the hours the
\* door decision uses, outside the holidays: somebody inside the validity
\* period is let in exactly in the hours that are displayed.
ShownHoursDecide ==
  InValidityPeriod(user, Now(now)) /\ ~InHoliday(Now(now)) =>
    LET shown == AccessHours(user.level)
    IN  (AuthResult(user, Now(now)) = "AuthOk")
          <=> (shown[1] <= Hour(Now(now)) /\ Hour(Now(now)) < shown[2])

\* A level that may change other users is never locked out by the hour or
\* the holidays: if the record could authorise an operation now, it opens
\* the door now.
ModifierOpensDoor ==
  CanLevelModify(user.level) /\ InValidityPeriod(user, Now(now)) =>
    AuthResult(user, Now(now)) = "AuthOk"

\* What is shown, what is decided and who may change users go together.
AccessRules == ShownHoursDecide /\ ModifierOpensDoor

\* user.go:28-29 says of LevelUser: "time limited access to the space at
\* 'daytime', 11:00..21:59".
DocumentedUserHours ==
  user.level = "user" /\ AuthResult(user, Now(now)) = "AuthOk" =>
    Hour(Now(now)) \in 11..21

\* user.go:6-7: "if there is no contact info associated (yet), it will
\* expire after 30 days": a renewed card is not expired before the 30 days
\* (to the minute) are over.
AnonymousLastsThirtyDays ==
  /\ issued # 0
  /\ IsZero(user.to)
  /\ now + MinuteLen < issued + ValidityPeriodAnonymousCards
  => ~Expired(user, now)
=============================================================================
