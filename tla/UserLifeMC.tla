----------------------------- MODULE UserLifeMC -----------------------------
(***************************************************************************)
(* UserLife on the instants where its decisions change: the hours at which *)
(* AccessHours begins and ends, the ends of the holidays, the moments a    *)
(* card is stamped and 30 days later.  The zone is San Francisco's.        *)
(***************************************************************************)
EXTENDS UserLife

MCTzOffset == -8 * HourLen
\* 2016-12-01 00:00:30 local time
Midnight == 1480579230
MCInstants ==
  {Midnight} \cup {Midnight + h * HourLen : h \in {7, 10, 11, 22, 23}}
  \cup {Midnight + 10 * HourLen - MinuteLen, Midnight + 23 * HourLen - MinuteLen}
  \cup {HolidayHiatusBegin - 1, HolidayHiatusBegin, HolidayHiatusEnd,
        HolidayHiatusEnd + 1, HolidayHiatusEnd + 5 * HourLen}
  \cup {Midnight + ValidityPeriodAnonymousCards + d : d \in {-8 * HourLen, 0, HourLen, 11 * HourLen}}

MCIssuable ==
  [name: {"none", "hash", "real"}, contact: BOOLEAN, level: Levels,
   from: {ZeroTime, Now(Midnight), ParseTime(Midnight - 30 + HourLen)},
   to: {ZeroTime, Now(Midnight + 12 * HourLen + 7), ParseTime(HolidayHiatusEnd)},
   codes: {{}, AllCodes}]
=============================================================================
