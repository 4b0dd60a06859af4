--------------------------- MODULE UserLifeProofs ---------------------------
(***************************************************************************)
(* Theorems about a user record, for every zone, every set of codes and    *)
(* every set of instants.                                                  *)
(***************************************************************************)
EXTENDS UserLife, TLAPS

LEMMA DayFacts == DayLen \in Nat /\ DayLen > 120
  BY DEF DayLen, HourLen, MinuteLen

\* Writing a time drops at most a minute of it.
LEMMA Truncation ==
  ASSUME NEW w \in Int
  PROVE  /\ w - (w % MinuteLen) \in Int
         /\ w - (w % MinuteLen) <= w
         /\ w - (w % MinuteLen) > w - MinuteLen
         /\ (w - (w % MinuteLen)) % MinuteLen = 0
<1>1. w % 60 \in 0..59
  OBVIOUS
<1>2. (w - (w % 60)) % 60 = 0
  OBVIOUS
<1> QED
  BY <1>1, <1>2 DEF MinuteLen

\* What the file makes of a local time: a UTC time within a day of it.
LEMMA PersistedLocal ==
  ASSUME NEW t \in [at: Instant, local: {TRUE}]
  PROVE  /\ FormatTime(t) \in UtcInstant
         /\ FormatTime(t) <= t.at + TzOffset
         /\ t.at \in Nat /\ t.at > 0
<1>1. t.at \in Nat /\ t.at > 2 * DayLen /\ t.local
  BY DEF Instant
<1>2. TzOffset \in Int /\ -DayLen <= TzOffset
  BY TzAssumption, DayFacts
<1> DEFINE w == t.at + TzOffset
<1>3. w \in Int /\ w > DayLen
  BY <1>1, <1>2, DayFacts
<1>4. FormatTime(t) = w - (w % MinuteLen)
  BY <1>1, DayFacts DEF FormatTime, WallClock, IsZero
<1>5. MinuteLen = 60
  BY DEF MinuteLen
<1> HIDE DEF w
<1>6. /\ FormatTime(t) \in Int
      /\ FormatTime(t) <= w
      /\ FormatTime(t) > w - MinuteLen
      /\ FormatTime(t) % MinuteLen = 0
  BY <1>3, <1>4, Truncation
<1> QED
  BY <1>1, <1>3, <1>5, <1>6, DayFacts DEF UtcInstant, w

\* A time read from the file is written as it is.
LEMMA PersistedUtc ==
  ASSUME NEW t \in [at: UtcInstant, local: {FALSE}]
  PROVE  /\ FormatTime(t) = t.at
         /\ t.at \in UtcInstant
         /\ t.at \in Nat /\ t.at > 0
<1>1. MinuteLen = 60
  BY DEF MinuteLen
<1>2. t.at \in UtcInstant /\ ~t.local
  OBVIOUS
<1>3. t.at \in Nat /\ t.at > 0 /\ t.at % MinuteLen = 0
  BY <1>1, <1>2, DayFacts DEF UtcInstant
<1> QED
  BY <1>2, <1>3 DEF FormatTime, WallClock, IsZero

\* Going through the file keeps a time a time, keeps the zero time and
\* nothing else zero, and, in a zone not ahead of UTC, never makes it later.
LEMMA PersistedTime ==
  ASSUME NEW t \in Times
  PROVE  LET p == ParseTime(FormatTime(t))
         IN  /\ p \in Times
             /\ p.at \in Nat /\ t.at \in Nat
             /\ IsZero(p) <=> IsZero(t)
             /\ TzOffset <= 0 => p.at <= t.at
             /\ ParseTime(FormatTime(p)) = p
<1> DEFINE p == ParseTime(FormatTime(t))
<1>1. CASE t = ZeroTime
  BY <1>1 DEF ParseTime, FormatTime, ZeroTime, IsZero, Times
<1>2. CASE t \in [at: Instant, local: {TRUE}]
  <2>1. /\ FormatTime(t) \in UtcInstant
        /\ FormatTime(t) <= t.at + TzOffset
        /\ t.at \in Nat /\ t.at > 0
    BY <1>2, PersistedLocal
  <2>2. p \in [at: UtcInstant, local: {FALSE}]
    BY <2>1 DEF ParseTime
  <2>3. FormatTime(p) = p.at /\ p.at \in Nat /\ p.at > 0
    BY <2>2, PersistedUtc
  <2>4. p.at = FormatTime(t) /\ ParseTime(FormatTime(p)) = p
    BY <2>3 DEF ParseTime
  <2>5. p \in Times
    BY <2>2 DEF Times
  <2>6. TzOffset <= 0 => p.at <= t.at
    BY <2>1, <2>3, <2>4, TzAssumption, DayFacts
  <2> QED
    BY <2>1, <2>3, <2>4, <2>5, <2>6 DEF IsZero
<1>3. CASE t \in [at: UtcInstant, local: {FALSE}]
  <2>1. /\ FormatTime(t) = t.at
        /\ t.at \in UtcInstant
        /\ t.at \in Nat /\ t.at > 0
    BY <1>3, PersistedUtc
  <2>2. p = [at |-> t.at, local |-> FALSE]
    BY <2>1 DEF ParseTime
  <2>3. p = t
    BY <2>2, <1>3
  <2>4. ParseTime(FormatTime(p)) = p
    BY <2>3
  <2>5. p.at = t.at /\ p \in Times
    BY <2>3
  <2> QED
    BY <2>1, <2>4, <2>5 DEF IsZero
<1> QED
  BY <1>1, <1>2, <1>3 DEF Times

-----------------------------------------------------------------------------
(* Records. *)

LEMMA ReloadedRecord ==
  ASSUME NEW u \in UserRecords
  PROVE  /\ Reloaded(u) \in UserRecords
         /\ Reloaded(u).from = ParseTime(FormatTime(u.from))
         /\ Reloaded(u).to = ParseTime(FormatTime(u.to))
         /\ HasContactInfo(Reloaded(u)) = HasContactInfo(u)
<1>1. u.from \in Times /\ u.to \in Times
  BY DEF UserRecords
<1>2. /\ ParseTime(FormatTime(u.from)) \in Times
      /\ ParseTime(FormatTime(u.to)) \in Times
  BY <1>1, PersistedTime
<1>3. Reloaded(u) =
        [name |-> u.name, contact |-> u.contact, level |-> u.level,
         from |-> ParseTime(FormatTime(u.from)),
         to |-> ParseTime(FormatTime(u.to)),
         codes |-> IF u.codes = {} THEN {NoCode} ELSE u.codes]
  BY DEF Reloaded, NewUserFromCSV, WriteCSV
<1>4. (IF u.codes = {} THEN {NoCode} ELSE u.codes) \in SUBSET (AllCodes \cup {NoCode})
  BY DEF UserRecords
<1> QED
  BY <1>2, <1>3, <1>4 DEF UserRecords, HasContactInfo

\* A record that was read from the file is written back unchanged
\* (NewUserFromCSV after WriteCSV is idempotent), whatever the zone.
THEOREM ReloadIdempotent ==
  ASSUME NEW u \in UserRecords
  PROVE  Reloaded(Reloaded(u)) = Reloaded(u)
<1> DEFINE v == Reloaded(u)
<1>1. v \in UserRecords /\ u.from \in Times /\ u.to \in Times
  BY ReloadedRecord DEF UserRecords
<1>2. /\ v.from = ParseTime(FormatTime(u.from))
      /\ v.to = ParseTime(FormatTime(u.to))
  BY ReloadedRecord
<1>3. /\ ParseTime(FormatTime(v.from)) = v.from
      /\ ParseTime(FormatTime(v.to)) = v.to
  BY <1>1, <1>2, PersistedTime
<1>4. v.codes # {}
  BY DEF Reloaded, NewUserFromCSV, WriteCSV
<1>5. v = [name |-> v.name, contact |-> v.contact, level |-> v.level,
           from |-> v.from, to |-> v.to, codes |-> v.codes]
  BY <1>1 DEF UserRecords
<1>6. Reloaded(v) =
        [name |-> v.name, contact |-> v.contact, level |-> v.level,
         from |-> ParseTime(FormatTime(v.from)),
         to |-> ParseTime(FormatTime(v.to)),
         codes |-> IF v.codes = {} THEN {NoCode} ELSE v.codes]
  BY DEF Reloaded, NewUserFromCSV, WriteCSV
<1> HIDE DEF v
<1>7. Reloaded(v) = v
  BY <1>3, <1>4, <1>5, <1>6
<1> QED
  BY <1>7 DEF v

\* In a zone not ahead of UTC the file never lengthens a life.
LEMMA ExpiryNeverLater ==
  ASSUME NEW u \in UserRecords, NEW n \in Instant, TzOffset <= 0
  PROVE  LET before == ExpiryDate(u, Now(n))
             after  == ExpiryDate(Reloaded(u), Now(n))
         IN  /\ before.at \in Nat /\ after.at \in Nat
             /\ IsZero(after) <=> IsZero(before)
             /\ after.at <= before.at
<1> DEFINE v == Reloaded(u)
<1>1. /\ u.from \in Times /\ u.to \in Times
      /\ v.from = ParseTime(FormatTime(u.from))
      /\ v.to = ParseTime(FormatTime(u.to))
      /\ HasContactInfo(v) = HasContactInfo(u)
  BY ReloadedRecord DEF UserRecords
<1>2. /\ v.from.at \in Nat /\ u.from.at \in Nat
      /\ (v.from.at = 0) <=> (u.from.at = 0)
      /\ v.from.at <= u.from.at
      /\ v.from \in Times
  BY <1>1, PersistedTime DEF IsZero
<1>3. /\ v.to.at \in Nat /\ u.to.at \in Nat
      /\ (v.to.at = 0) <=> (u.to.at = 0)
      /\ v.to.at <= u.to.at
  BY <1>1, PersistedTime DEF IsZero
<1> DEFINE P == ValidityPeriodAnonymousCards
<1>4. P \in Nat
  BY DayFacts DEF ValidityPeriodAnonymousCards
<1>5. AnonLimit(u).at = u.from.at + P /\ AnonLimit(v).at = v.from.at + P
  <2>1. \A t \in Times, d \in Int : AddTo(t, d).at = t.at + d
    BY DEF AddTo, Times, ZeroTime
  <2> QED
    BY <1>1, <1>2, <1>4, <2>1 DEF AnonLimit
<1>6. /\ n \in Nat /\ n > 2 * DayLen
      /\ AddTo(Now(n), -DayLen).at = n - DayLen
  BY DayFacts DEF Instant, AddTo, Now
<1> HIDE DEF v, P
<1>7. CASE HasContactInfo(u)
  BY <1>1, <1>3, <1>7 DEF ExpiryDate, IsZero, v
<1>8. CASE ~HasContactInfo(u) /\ u.from.at = 0
  <2>1. /\ ExpiryDate(u, Now(n)) = AddTo(Now(n), -DayLen)
        /\ ExpiryDate(v, Now(n)) = AddTo(Now(n), -DayLen)
    BY <1>1, <1>2, <1>8 DEF ExpiryDate, IsZero
  <2> QED
    BY <2>1, <1>6, DayFacts DEF v, IsZero
<1>9. CASE ~HasContactInfo(u) /\ u.from.at # 0
  <2>1. ExpiryDate(u, Now(n)).at =
          IF u.to.at = 0 \/ u.from.at + P < u.to.at THEN u.from.at + P
          ELSE u.to.at
    BY <1>5, <1>9 DEF ExpiryDate, IsZero
  <2>2. ExpiryDate(v, Now(n)).at =
          IF v.to.at = 0 \/ v.from.at + P < v.to.at THEN v.from.at + P
          ELSE v.to.at
    BY <1>1, <1>2, <1>5, <1>9 DEF ExpiryDate, IsZero
  <2> QED
    BY <1>2, <1>3, <1>4, <1>9, <2>1, <2>2 DEF v, IsZero
<1> QED
  BY <1>7, <1>8, <1>9

-----------------------------------------------------------------------------
(* The life of a record. *)

\* The record in memory is always a record with whole-minute file times.
THEOREM TypeCorrect == Spec => []TypeOK
<1>1. Init => TypeOK
  BY IssuableAssumption DEF Init, TypeOK
<1>2. TypeOK /\ [Next]_vars => TypeOK'
  <2> SUFFICES ASSUME TypeOK, [Next]_vars PROVE TypeOK'
    OBVIOUS
  <2>1. CASE Tick
    BY <2>1 DEF TypeOK, Tick
  <2>2. CASE Renew
    <3>1. Now(now) \in Times
      BY InstantsAssumption DEF TypeOK, Now, Times
    <3>2. user' \in UserRecords
      BY <2>2, <3>1 DEF TypeOK, Renew, UserRecords
    <3> QED
      BY <2>2, <3>2 DEF TypeOK, Renew
  <2>3. CASE Reload
    BY <2>3, ReloadedRecord DEF TypeOK, Reload
  <2>4. CASE UNCHANGED vars
    BY <2>4 DEF TypeOK, vars
  <2> QED
    BY <2>1, <2>2, <2>3, <2>4 DEF Next
<1> QED
  BY <1>1, <1>2, PTL DEF Spec

\* Whatever happened to a record, writing and reading it twice is the same
\* as doing it once.
THEOREM ReloadStable == Spec => []ReloadIsStable
<1>1. TypeOK => ReloadIsStable
  BY ReloadIdempotent DEF TypeOK, ReloadIsStable
<1> QED
  BY <1>1, TypeCorrect, PTL

\* In a zone not ahead of UTC no reload lengthens the life of a record.
THEOREM NeverExtends == TzOffset <= 0 => (Spec => ReloadNeverExtends)
<1> SUFFICES ASSUME TzOffset <= 0 PROVE Spec => ReloadNeverExtends
  OBVIOUS
<1> DEFINE Step == Reload =>
       LET before == ExpiryDate(user, Now(now))
           after  == ExpiryDate(user', Now(now'))
       IN  ~IsZero(before) => ~IsZero(after) /\ after.at <= before.at
<1>1. TypeOK /\ [Next]_vars => [Step]_vars
  <2> SUFFICES ASSUME TypeOK, Reload PROVE Step
    OBVIOUS
  <2>1. user \in UserRecords /\ now \in Instant
    BY InstantsAssumption DEF TypeOK
  <2>2. user' = Reloaded(user) /\ now' = now
    BY DEF Reload
  <2> QED
    BY <2>1, <2>2, ExpiryNeverLater
<1>2. Spec => [][Step]_vars
  BY <1>1, TypeCorrect, PTL DEF Spec
<1> QED
  BY <1>2 DEF ReloadNeverExtends

\* In a zone not ahead of UTC an expired record stays expired through time
\* and reloads; only a renewal revives it.
THEOREM ExpiryFinal == TzOffset <= 0 => (Spec => ExpiryIsFinal)
<1> SUFFICES ASSUME TzOffset <= 0 PROVE Spec => ExpiryIsFinal
  OBVIOUS
<1> DEFINE Step == Expired(user, now) /\ ~Renew => Expired(user', now')
<1>1. TypeOK /\ [Next]_vars => [Step]_vars
  <2> SUFFICES ASSUME TypeOK, Next, Expired(user, now), ~Renew
               PROVE  Expired(user', now')
    BY DEF Step
  <2>1. user \in UserRecords /\ now \in Instant /\ now \in Nat
    BY InstantsAssumption DEF TypeOK, Instant
  <2>2. CASE Tick
    <3>1. user' = user /\ now' \in Instant /\ now' \in Nat /\ now' > now
      BY <2>2, InstantsAssumption DEF Tick, Instant
    <3>2. /\ HasContactInfo(user) => ExpiryDate(user, Now(now')) = user.to
          /\ HasContactInfo(user) => ExpiryDate(user, Now(now)) = user.to
      BY DEF ExpiryDate
    <3>0. user.to.at \in Nat
      BY <2>1, PersistedTime DEF UserRecords
    <3>3. CASE HasContactInfo(user)
      BY <3>0, <3>1, <3>2, <3>3, <2>1 DEF Expired, IsZero
    <3>4. CASE ~HasContactInfo(user) /\ IsZero(user.from)
      <4>1. ExpiryDate(user, Now(now')) = AddTo(Now(now'), -DayLen)
        BY <3>4 DEF ExpiryDate
      <4>2. /\ AddTo(Now(now'), -DayLen).at = now' - DayLen
            /\ now' > 2 * DayLen
        BY <3>1, DayFacts DEF AddTo, Now, Instant
      <4> QED
        BY <3>1, <4>1, <4>2, DayFacts DEF Expired, IsZero
    <3>5. CASE ~HasContactInfo(user) /\ ~IsZero(user.from)
      <4>1. ExpiryDate(user, Now(now')) = ExpiryDate(user, Now(now))
        BY <3>5 DEF ExpiryDate
      <4>2. ExpiryDate(user, Now(now)).at \in Nat
        BY <2>1, ExpiryNeverLater
      <4> QED
        BY <2>1, <3>1, <4>1, <4>2 DEF Expired
    <3> QED
      BY <3>3, <3>4, <3>5
  <2>3. CASE Reload
    <3>1. user' = Reloaded(user) /\ now' = now
      BY <2>3 DEF Reload
    <3> QED
      BY <2>1, <3>1, ExpiryNeverLater DEF Expired
  <2> QED
    BY <2>2, <2>3 DEF Next
<1>2. Spec => [][Step]_vars
  BY <1>1, TypeCorrect, PTL DEF Spec
<1> QED
  BY <1>2 DEF ExpiryIsFinal

\* The door decides by the hours that are shown, and whoever may change users
\* is let in at any of them.
THEOREM AccessRulesHold == Spec => []AccessRules
<1>1. TypeOK => AccessRules
  <2> SUFFICES ASSUME TypeOK PROVE AccessRules
    OBVIOUS
  <2> DEFINE h == Hour(Now(now))
  <2>1. user.level \in Levels
    BY DEF TypeOK, UserRecords
  <2>2. h \in 0 .. 23
    <3>1. now \in Nat
      BY InstantsAssumption DEF TypeOK, Instant
    <3>2. TzOffset \in Int
      BY TzAssumption, DayFacts
    <3>3. WallClock(Now(now)) = now + TzOffset
      BY DEF WallClock, Now
    <3>4. WallClock(Now(now)) \div HourLen \in Int
      BY <3>1, <3>2, <3>3 DEF HourLen, MinuteLen
    <3> QED
      BY <3>4 DEF Hour
  <2>3. /\ user.level \in FullAccessLevels => AccessHours(user.level) = <<0, 24>>
        /\ user.level = "fulltimeuser" => AccessHours(user.level) = <<7, 24>>
        /\ user.level = "user" => AccessHours(user.level) = <<10, 23>>
        /\ user.level = "hiatus" => AccessHours(user.level) = <<0, 0>>
    BY DEF AccessHours, FullAccessLevels
  <2>4. \/ user.level \in FullAccessLevels \/ user.level = "fulltimeuser"
        \/ user.level = "user" \/ user.level = "hiatus"
    BY <2>1 DEF Levels, FullAccessLevels
  <2> DEFINE shown == AccessHours(user.level)
             isday == shown[1] <= h /\ h < shown[2]
             answer == UserHasAccess(user.level, Now(now))
  <2>5. /\ user.level \in FullAccessLevels => isday /\ answer = "AuthOk"
        /\ user.level = "fulltimeuser" \/ (user.level = "user" /\ ~InHoliday(Now(now))) =>
             (answer = "AuthOk" <=> isday)
        /\ user.level = "hiatus" => ~isday
    BY <2>2, <2>3 DEF UserHasAccess, FullAccessLevels
  <2>6. user.level \in FullAccessLevels => user.level # "hiatus"
    BY DEF FullAccessLevels
  <2>7. ShownHoursDecide
    <3> SUFFICES ASSUME InValidityPeriod(user, Now(now)), ~InHoliday(Now(now))
                 PROVE  (AuthResult(user, Now(now)) = "AuthOk") <=> isday
      BY DEF ShownHoursDecide
    <3> HIDE DEF isday, h, shown
    <3> QED
      BY <2>4, <2>5, <2>6 DEF AuthResult
  <2>8. ModifierOpensDoor
    BY <2>5, <2>6 DEF ModifierOpensDoor, AuthResult, CanLevelModify
  <2> QED
    BY <2>7, <2>8 DEF AccessRules
<1> QED
  BY <1>1, TypeCorrect, PTL
=============================================================================
