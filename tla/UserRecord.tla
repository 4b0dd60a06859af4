----------------------------- MODULE UserRecord -----------------------------
(***************************************************************************)
(* The user record of earl (user.go) and the access decision made from it  *)
(* (userHasAccess in authenticator.go): who may open a door, when a record *)
(* expires, and what writing a record to the CSV file and reading it back  *)
(* makes of it.                                                            *)
(*                                                                         *)
(* A time is an instant in Unix seconds together with the location it is   *)
(* shown in: clock.Now() is local time, a time parsed from the file is UTC.*)
(* Go's zero time is the instant 0 here; every other instant is positive.  *)
(* A name is one of four kinds: empty, written by the LCD ("<u...>"), one  *)
(* the file would take for a comment ("#..."), or a real one.              *)
(* Codes are the hashed ones (hashAuthCode is taken to be injective).      *)
(***************************************************************************)
EXTENDS Integers

CONSTANTS TzOffset,    \* seconds the host's local time is ahead of UTC
          AllCodes,    \* the hashed codes in use
          NoCode,      \* the empty string, read from an empty code column
          Garbled,     \* a line the CSV reader fails on
          ShortRow     \* a line with other than seven columns

MinuteLen == 60
HourLen == 60 * MinuteLen
DayLen == 24 * HourLen

ASSUME TzAssumption == TzOffset \in -DayLen..DayLen
ASSUME CodeAssumption == NoCode \notin AllCodes

Levels == {"member", "user", "fulltimeuser", "hiatus", "philanthropist",
           "trustedphilanthropist"}
NameKinds == {"none", "auto", "hash", "real"}

\* Clocks run well after 1970, so that no zone moves an instant to the epoch.
Instant == {n \in Nat : n > 2 * DayLen}
\* The file knows whole minutes only.
UtcInstant == {n \in Nat : n > DayLen - MinuteLen /\ n % MinuteLen = 0}

ZeroTime == [at |-> 0, local |-> FALSE]
Times == {ZeroTime} \cup [at: Instant, local: {TRUE}]
                    \cup [at: UtcInstant, local: {FALSE}]
IsZero(t) == t.at = 0
Now(instant) == [at |-> instant, local |-> TRUE]
AddTo(t, d) == [t EXCEPT !.at = @ + d]

UserRecords == [name: NameKinds, contact: BOOLEAN, level: Levels,
                from: Times, to: Times, codes: SUBSET (AllCodes \cup {NoCode})]

-----------------------------------------------------------------------------
(* Validity. *)

ValidityPeriodAnonymousCards == 30 * DayLen

HasContactInfo(u) == u.name \notin {"none", "auto"} /\ u.contact

\* The time limit of a record without contact information.
AnonLimit(u) == AddTo(u.from, ValidityPeriodAnonymousCards)

\* When the record expires; ZeroTime if never.
ExpiryDate(u, now) ==
  IF HasContactInfo(u) THEN u.to
  ELSE IF IsZero(u.from) THEN AddTo(now, -DayLen)
  ELSE IF IsZero(u.to) \/ AnonLimit(u).at < u.to.at THEN AnonLimit(u)
  ELSE u.to

InValidityPeriod(u, now) ==
  LET expires == ExpiryDate(u, now)
  IN  /\ IsZero(u.from) \/ u.from.at < now.at
      /\ IsZero(expires) \/ expires.at > now.at

-----------------------------------------------------------------------------
(* Access. *)

FullAccessLevels == {"member", "philanthropist", "trustedphilanthropist"}

\* <<from, to>>: the hours of the day, from included and to excluded.
AccessHours(level) ==
  CASE level \in FullAccessLevels -> <<0, 24>>
    [] level = "fulltimeuser"     -> <<7, 24>>
    [] level = "user"             -> <<10, 23>>
    [] OTHER                      -> <<0, 0>>

\* Slip: the zone is taken with the wrong sign.
WallClock_WrongSign(t) == t.at - (IF t.local THEN TzOffset ELSE 0)

WallClock(t) == t.at + (IF t.local THEN TzOffset ELSE 0)
Hour(t) == (WallClock(t) \div HourLen) % 24

HolidayHiatusBegin == 1482278400
HolidayHiatusEnd == 1483747200
InHoliday(now) == HolidayHiatusBegin <= now.at /\ now.at <= HolidayHiatusEnd

\* Slip: the closing hour is taken to be included.
UserHasAccess_LateClose(level, now) ==
  LET hours == AccessHours(level)
      isday == hours[1] <= Hour(now) /\ Hour(now) <= hours[2]
  IN  CASE level \in FullAccessLevels -> "AuthOk"
        [] level \in {"fulltimeuser", "user"} ->
             IF isday THEN "AuthOk" ELSE "AuthOkButOutsideTime"
        [] OTHER -> "AuthFail"

UserHasAccess(level, now) ==
  LET hours == AccessHours(level)
      isday == hours[1] <= Hour(now) /\ Hour(now) < hours[2]
  IN  CASE level \in FullAccessLevels -> "AuthOk"
        [] level = "fulltimeuser" ->
             IF isday THEN "AuthOk" ELSE "AuthOkButOutsideTime"
        [] level = "user" ->
             IF isday /\ ~InHoliday(now) THEN "AuthOk"
             ELSE "AuthOkButOutsideTime"
        [] OTHER -> "AuthFail"

\* AuthUser once the record of the code is found.
AuthResult(u, now) ==
  IF u.level = "hiatus" THEN "AuthFail"
  ELSE IF ~InValidityPeriod(u, now) THEN "AuthExpired"
  ELSE UserHasAccess(u.level, now)

CanLevelModify(level) == level \in FullAccessLevels
CanLevelAddDelete(level) == level \in {"member", "trustedphilanthropist"}

-----------------------------------------------------------------------------
(* The CSV file: a row holds times as wall-clock minutes without a zone    *)
(* (0 for an empty column).                                                *)

FormatTime(t) ==
  IF IsZero(t) THEN 0 ELSE WallClock(t) - (WallClock(t) % MinuteLen)

\* Slip: the field is read in the host's zone and not converted.
ParseTime_Local(field) == [at |-> field, local |-> TRUE]
ParseTime(field) == [at |-> field, local |-> FALSE]

WriteCSV(u) ==
  [name |-> u.name, contact |-> u.contact, level |-> u.level,
   from |-> FormatTime(u.from), to |-> FormatTime(u.to), codes |-> u.codes]

\* NewUserFromCSV stops reading at a line the reader cannot parse ...
EndsReading(line) == line = Garbled
\* ... and skips short lines, comments and rows of an unknown level.
IsUserRow(line) ==
  /\ line \notin {Garbled, ShortRow}
  /\ line.name # "hash"
  /\ line.level \in Levels

\* Slips: the level, or the end of the validity, is not taken over.
NewUserFromCSV_NoLevel(row) ==
  [name |-> row.name, contact |-> row.contact, level |-> "",
   from |-> ParseTime(row.from), to |-> ParseTime(row.to), codes |-> row.codes]
NewUserFromCSV_NoEnd(row) ==
  [name |-> row.name, contact |-> row.contact, level |-> row.level,
   from |-> ParseTime(row.from), to |-> ZeroTime, codes |-> row.codes]

\* An empty code column splits into one empty code.
NewUserFromCSV(row) ==
  [name |-> row.name, contact |-> row.contact, level |-> row.level,
   from |-> ParseTime(row.from), to |-> ParseTime(row.to),
   codes |-> IF row.codes = {} THEN {NoCode} ELSE row.codes]

\* What a record becomes when it goes to the file and is read again.
Reloaded(u) == NewUserFromCSV(WriteCSV(u))
=============================================================================
