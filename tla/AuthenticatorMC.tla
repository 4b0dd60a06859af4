--------------------------- MODULE AuthenticatorMC ---------------------------
(***************************************************************************)
(* A space with a member (code c1) and the card of a visitor (code c2); a  *)
(* third code c3 is new.  desk is the control terminal, door a terminal at *)
(* a door.                                                                 *)
(***************************************************************************)
EXTENDS AuthenticatorProperties

CONSTANTS desk, door, c1, c2, c3

MCTzOffset == -8 * HourLen
\* 2016-10-01 12:00 local time, and a month later.
Noon == 1475348400
MCInstants == {Noon + 5, Noon + 31 * DayLen}

Row(name, contact, level, from, codes) ==
  [name |-> name, contact |-> contact, level |-> level, from |-> from,
   to |-> 0, codes |-> codes]
MemberRow == Row("real", TRUE, "member", 0, {c1})
CardRow == Row("auto", FALSE, "user", Noon - DayLen, {c2})
Comment == Row("hash", FALSE, "other", 0, {})

TwoRows == <<MemberRow, CardRow>>
MCInitialFile == <<Comment, MemberRow, CardRow>>
GarbledFile == <<MemberRow, CardRow, Garbled>>
MCHandEdits == {Row("real", TRUE, "fulltimeuser", 0, {c3})}

Card(code) == [name |-> "auto", contact |-> FALSE, level |-> "user",
               from |-> ZeroTime, to |-> ZeroTime, codes |-> {code}]

Find(code) == [op |-> "find", code |-> code]
Auth(code) == [op |-> "auth", code |-> code]
Add(auth, user) == [op |-> "add", auth |-> auth, user |-> user]
Update(auth, code, updater) ==
  [op |-> "update", auth |-> auth, code |-> code, updater |-> updater]
Delete(auth, code) == [op |-> "delete", auth |-> auth, code |-> code]

\* New and taken codes, allowed and refused by level, known and unknown users.
AllRequests ==
  {Auth(c2),
   Add(c1, Card(c3)), Add(c1, Card(c2)), Add(c2, Card(c3)),
   Update(c1, c2, "renew"), Update(c1, c2, "abort"), Update(c1, c3, "renew"),
   Delete(c1, c2), Delete(c1, c3)}

\* Enough to have two changes meet: one of each kind, and one lookup.
FewRequests ==
  {Auth(c2), Add(c1, Card(c3)), Update(c1, c2, "renew"), Delete(c1, c2)}

\* Changes that get in each other's way.
MeetingRequests ==
  {Add(c1, Card(c3)), Add(c1, Card(c2)), Update(c1, c2, "renew"),
   Update(c1, c2, c3), Delete(c1, c2), Auth(c2)}

OneLookup == {Auth(c2)}
Lookups == {Auth(c2), Find(c3)}

\* SetAuthCode in the callback, with a code that is taken.
RecodeRequests == {Auth(c2), Update(c1, c2, c1), Update(c1, c2, c3)}

FirstInstant == {Noon + 5}
=============================================================================
