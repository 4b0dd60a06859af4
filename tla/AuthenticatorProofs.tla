------------------------- MODULE AuthenticatorProofs -------------------------
(***************************************************************************)
(* For all files, edits, requests and bounds:                              *)
(*  - any number of goroutines: the user list and its two indexes describe *)
(*    the same users at every step;                                        *)
(*  - any number of goroutines that only add: lookups use a list as new as *)
(*    the file, but for those whose reload was given up;                   *)
(*  - one control terminal, a file that can be read whenever it is looked  *)
(*    at, and edits between calls: a change is made to what was seen, by   *)
(*    somebody who still may;                                              *)
(*  - with a disk that takes what is written, too: memory and file agree,  *)
(*    answers are stored, and the authenticator implements the directory;  *)
(*  - only doors: memory and file agree, whenever the file is edited.      *)
(***************************************************************************)
EXTENDS AuthenticatorProperties, TLAPS, WellFoundedInduction

-----------------------------------------------------------------------------
(* The inductive invariant. *)

\* The call is one of those that get to this step.
CallFits(c) ==
  /\ my[c].phase = "verify" => my[c].call \in ChangeCalls
  /\ my[c].phase = "target" => my[c].call \in UpdateCalls \cup DeleteCalls
  /\ pc[c] = "add" => my[c].call \in AddCalls
  /\ pc[c] = "modify" =>
       /\ my[c].call \in UpdateCalls \cup DeleteCalls
       /\ my[c].call.op = "update" => my[c].target \in Objects

\* Whoever replaces a user holds userLock, and the place is free meanwhile;
\* whoever reads or has written the file holds fileLock; whoever announces a
\* reload holds both.
LocksHeld(c) ==
  /\ pc[c] = "replace" =>
       /\ userLock = c
       /\ my[c].slot # 0 => /\ my[c].slot \in DOMAIN db.userList
                            /\ db.userList[my[c].slot] = Nil
  /\ pc[c] \in {"stat", "read"} => reading \in Inodes
  /\ pc[c] \in {"stat", "read", "announce", "stamp"} => fileLock = c
  /\ pc[c] = "announce" => userLock = c

Fits(c) == LocalsOK(c) /\ CallFits(c) /\ LocksHeld(c)

IInv == /\ MemoryOK /\ LoaderOK /\ FilesOK /\ ClientsOK /\ WorldOK
        /\ IndexConsistent
        /\ up = "starting" => reading \in Inodes
        /\ \A c \in Clients : Fits(c)

-----------------------------------------------------------------------------
(* Users and rows. *)

LEMMA Constants ==
  /\ Nil \notin Objects /\ Modifiers \subseteq Clients /\ Nil \notin Clients
  /\ Instants \subseteq Instant /\ Addrs \subseteq Nat \ {0} /\ Inodes \subseteq Nat \ {0}
  /\ InitialFile \in Seq(Lines) /\ HandEdits \subseteq Lines
  /\ Requests \subseteq LookupCalls \cup ChangeCalls
  /\ MaxChanges \in Nat /\ MaxEdits \in Nat /\ MaxCrashes \in Nat
BY NilAssumption, ClientAssumption, InstantsAssumption, AddrAssumption, InodeAssumption,
   FileAssumption, RequestAssumption, BoundAssumption

\* The present is a time a record may hold.
LEMMA PresentIsTime == ASSUME NEW n \in Instant PROVE Now(n) \in Times
BY DEF Now, Times

\* A time becomes a whole minute of some year after 1970 in the file, or an
\* empty column.
LEMMA TimeColumn == ASSUME NEW t \in Times PROVE FormatTime(t) \in {0} \cup UtcInstant
<1>0. MinuteLen = 60 /\ DayLen \in Nat /\ DayLen > 120
  BY DEF MinuteLen, HourLen, DayLen
<1>1. CASE IsZero(t)
  BY <1>1 DEF FormatTime
<1>2. ASSUME ~IsZero(t), t \in [at: Instant, local: {TRUE}]
      PROVE  FormatTime(t) \in UtcInstant
  <2>1. t.at \in Nat /\ t.at > 2 * DayLen /\ t.local
    BY <1>2 DEF Instant
  <2>2. TzOffset \in Int /\ -DayLen <= TzOffset
    BY <1>0, TzAssumption
  <2> DEFINE w == t.at + TzOffset
  <2>3. w \in Int /\ w > DayLen
    BY <1>0, <2>1, <2>2
  <2>4. FormatTime(t) = w - (w % 60)
    BY <1>0, <1>2, <2>1 DEF FormatTime, WallClock
  <2> HIDE DEF w
  <2>5. w - (w % 60) \in Nat /\ w - (w % 60) > DayLen - 60 /\ (w - (w % 60)) % 60 = 0
    BY <1>0, <2>3
  <2> QED
    BY <1>0, <2>4, <2>5 DEF UtcInstant
<1>3. ASSUME ~IsZero(t), t \in [at: UtcInstant, local: {FALSE}]
      PROVE  FormatTime(t) \in UtcInstant
  <2>1. t.at \in UtcInstant /\ ~t.local
    BY <1>3
  <2>2. t.at \in Nat /\ t.at % MinuteLen = 0
    BY <2>1 DEF UtcInstant
  <2>3. FormatTime(t) = t.at
    BY <1>0, <1>3, <2>1, <2>2 DEF FormatTime, WallClock
  <2> QED
    BY <2>1, <2>3
<1>4. \/ IsZero(t)
      \/ t \in [at: Instant, local: {TRUE}]
      \/ t \in [at: UtcInstant, local: {FALSE}]
  <2>1. t = ZeroTime => IsZero(t)
    BY DEF ZeroTime, IsZero
  <2> QED
    BY <2>1 DEF Times
<1> QED
  BY <1>1, <1>2, <1>3, <1>4

\* A user is a row of the file ...
LEMMA UserIsLine == ASSUME NEW u \in UserRecords PROVE WriteCSV(u) \in Lines
<1>1. FormatTime(u.from) \in {0} \cup UtcInstant /\ FormatTime(u.to) \in {0} \cup UtcInstant
  BY TimeColumn DEF UserRecords
<1>2. /\ u.name \in NameKinds /\ u.contact \in BOOLEAN
      /\ u.level \in Levels \cup {"other"} /\ u.codes \in SUBSET Codes
  BY DEF UserRecords, Codes
<1> QED
  BY <1>1, <1>2 DEF WriteCSV, Lines, Columns

\* ... and a row of a user a user.
LEMMA LineIsUser ==
  ASSUME NEW line \in Lines, IsUserRow(line)
  PROVE  NewUserFromCSV(line) \in UserRecords
<1>1. line \in Columns /\ line.level \in Levels
  BY DEF IsUserRow, Lines
<1>2. \A field \in {0} \cup UtcInstant : ParseTime(field) \in Times
  BY DEF ParseTime, Times, ZeroTime
<1>3. ParseTime(line.from) \in Times /\ ParseTime(line.to) \in Times
  BY <1>1, <1>2 DEF Columns
<1>4. (IF line.codes = {} THEN {NoCode} ELSE line.codes) \in SUBSET (AllCodes \cup {NoCode})
  BY <1>1 DEF Columns, Codes
<1>5. line.name \in NameKinds /\ line.contact \in BOOLEAN
  BY <1>1 DEF Columns
<1> QED
  BY <1>1, <1>3, <1>4, <1>5 DEF NewUserFromCSV, UserRecords

-----------------------------------------------------------------------------
(* The list and its indexes. *)

LEMMA EmptyAgrees == EmptyDb \in Databases /\ IndexesAgree(EmptyDb)
<1>1. EmptyDb \in Databases
  BY DEF EmptyDb, Databases
<1> QED
  BY <1>1, Constants DEF EmptyDb, IndexesAgree

\* A user with a new address and codes nobody has goes to the end of the list
\* or to a free place.
LEMMA AddAgrees ==
  ASSUME NEW d \in Databases, IndexesAgree(d), NEW obj \in Objects,
         CodesFree(d, obj.user), d.user2index[obj.addr] = 0,
         NEW pos \in Nat, pos # 0 => pos \in DOMAIN d.userList /\ d.userList[pos] = Nil
  PROVE  /\ AddUserAtPos(d, obj, pos) \in Databases
         /\ IndexesAgree(AddUserAtPos(d, obj, pos))
<1> DEFINE e == AddUserAtPos(d, obj, pos)
           at == IF pos = 0 THEN Len(d.userList) + 1 ELSE pos
<1>1. /\ d.userList \in Seq(Objects \cup {Nil}) /\ Len(d.userList) \in Nat
      /\ DOMAIN d.userList = 1 .. Len(d.userList)
      /\ \A i \in DOMAIN d.userList : d.userList[i] \in Objects \cup {Nil}
      /\ d.user2index \in [Addrs -> Nat] /\ d.code2user \in [Codes -> Objects \cup {Nil}]
  BY DEF Databases
<1>2. obj.addr \in Addrs /\ obj.user \in UserRecords /\ obj.user.codes \subseteq Codes /\ obj # Nil
  BY Constants DEF Objects, UserRecords, Codes
<1>3. at \in Nat /\ at # 0
  BY <1>1
<1>4. /\ e.userList = IF pos = 0 THEN Append(d.userList, obj)
                      ELSE [d.userList EXCEPT ![pos] = obj]
      /\ e.user2index = [d.user2index EXCEPT ![obj.addr] = at]
      /\ e.code2user = [c \in Codes |-> IF c \in obj.user.codes THEN obj ELSE d.code2user[c]]
  BY DEF AddUserAtPos
<1>5. /\ e.userList \in Seq(Objects \cup {Nil})
      /\ DOMAIN e.userList = DOMAIN d.userList \cup {at}
      /\ e.userList[at] = obj
      /\ \A i \in DOMAIN d.userList : i # at => e.userList[i] = d.userList[i]
  <2>1. CASE pos = 0
    BY <1>1, <1>4, <2>1
  <2>2. CASE pos # 0
    BY <1>1, <1>4, <2>2
  <2> QED
    BY <2>1, <2>2
<1>6. e \in Databases
  <2>1. e.user2index \in [Addrs -> Nat]
    BY <1>1, <1>3, <1>4
  <2>2. e.code2user \in [Codes -> Objects \cup {Nil}]
    BY <1>1, <1>4
  <2>3. e = [userList |-> e.userList, user2index |-> e.user2index, code2user |-> e.code2user]
    BY DEF AddUserAtPos
  <2> HIDE DEF e
  <2> QED
    BY <1>5, <2>1, <2>2, <2>3 DEF Databases
<1>7. at \notin DOMAIN d.userList \/ d.userList[at] = Nil
  BY <1>1
<1> DEFINE Listed(x) == {i \in DOMAIN x.userList : x.userList[i] # Nil}
<1>8. Listed(e) = Listed(d) \cup {at} /\ at \notin Listed(d)
  BY <1>2, <1>5, <1>7
<1>9. /\ \A i \in Listed(d) : d.user2index[d.userList[i].addr] = i
      /\ \A a \in Addrs : d.user2index[a] # 0 =>
           d.user2index[a] \in Listed(d) /\ d.userList[d.user2index[a]].addr = a
      /\ \A i \in Listed(d) : \A c \in d.userList[i].user.codes : d.code2user[c] = d.userList[i]
      /\ \A c \in Codes : d.code2user[c] # Nil =>
           c \in d.code2user[c].user.codes /\ d.code2user[c] \in ObjectsOf(d)
  BY DEF IndexesAgree
<1>10. \A i \in Listed(d) : /\ d.userList[i] \in Objects /\ i # 0
                            /\ d.userList[i].addr \in Addrs /\ d.userList[i].addr # obj.addr
                            /\ d.userList[i].user.codes \subseteq Codes
  BY <1>1, <1>9 DEF Objects, UserRecords, Codes
<1> HIDE DEF e, at
<1>11. \A i \in Listed(e) : e.user2index[e.userList[i].addr] = i
  BY <1>1, <1>2, <1>4, <1>5, <1>8, <1>9, <1>10
<1>12. \A a \in Addrs : e.user2index[a] # 0 =>
           e.user2index[a] \in Listed(e) /\ e.userList[e.user2index[a]].addr = a
  BY <1>1, <1>2, <1>4, <1>5, <1>8, <1>9
<1>13. \A i \in Listed(e) : \A c \in e.userList[i].user.codes : e.code2user[c] = e.userList[i]
  <2> SUFFICES ASSUME NEW i \in Listed(e), NEW c \in e.userList[i].user.codes
               PROVE  e.code2user[c] = e.userList[i]
    OBVIOUS
  <2>1. CASE i = at
    BY <1>2, <1>4, <1>5, <2>1
  <2>2. CASE i # at
    <3>1. i \in Listed(d) /\ e.userList[i] = d.userList[i]
      BY <1>5, <1>8, <2>2
    <3>2. c \in Codes /\ d.code2user[c] = d.userList[i] /\ d.userList[i] # Nil
      BY <1>9, <1>10, <3>1
    <3>3. c \notin obj.user.codes
      BY <3>2 DEF CodesFree
    <3> QED
      BY <1>4, <3>1, <3>2, <3>3
  <2> QED
    BY <2>1, <2>2
<1>14. \A c \in Codes : e.code2user[c] # Nil =>
           c \in e.code2user[c].user.codes /\ e.code2user[c] \in ObjectsOf(e)
  <2> SUFFICES ASSUME NEW c \in Codes, e.code2user[c] # Nil
               PROVE  c \in e.code2user[c].user.codes /\ e.code2user[c] \in ObjectsOf(e)
    OBVIOUS
  <2>1. CASE c \in obj.user.codes
    BY <1>2, <1>4, <1>5, <2>1 DEF ObjectsOf
  <2>2. CASE c \notin obj.user.codes
    <3>1. e.code2user[c] = d.code2user[c]
      BY <1>4, <2>2
    <3>2. c \in d.code2user[c].user.codes /\ d.code2user[c] \in ObjectsOf(d)
      BY <1>9, <3>1
    <3>3. PICK i \in Listed(d) : d.userList[i] = d.code2user[c]
      BY <3>2 DEF ObjectsOf
    <3>4. i \in DOMAIN e.userList /\ e.userList[i] = d.userList[i] /\ d.userList[i] # Nil
      BY <1>5, <1>8, <3>3
    <3> QED
      BY <3>1, <3>2, <3>3, <3>4 DEF ObjectsOf
  <2> QED
    BY <2>1, <2>2
<1> QED
  BY <1>6, <1>11, <1>12, <1>13, <1>14 DEF IndexesAgree, e

\* A user that is indexed leaves the list and both indexes; the place is free.
LEMMA DeleteAgrees ==
  ASSUME NEW d \in Databases, IndexesAgree(d), NEW obj \in Objects \cup {Nil}
  PROVE  /\ DeleteUserFrom(d, obj) \in Databases
         /\ IndexesAgree(DeleteUserFrom(d, obj))
         /\ IndexOf(d, obj) \in Nat
         /\ IndexOf(d, obj) # 0 =>
              /\ IndexOf(d, obj) \in DOMAIN DeleteUserFrom(d, obj).userList
              /\ DeleteUserFrom(d, obj).userList[IndexOf(d, obj)] = Nil
<1> DEFINE e == DeleteUserFrom(d, obj)
           pos == IndexOf(d, obj)
<1>1. /\ d.userList \in Seq(Objects \cup {Nil}) /\ Len(d.userList) \in Nat
      /\ DOMAIN d.userList = 1 .. Len(d.userList)
      /\ \A i \in DOMAIN d.userList : d.userList[i] \in Objects \cup {Nil}
      /\ d.user2index \in [Addrs -> Nat] /\ d.code2user \in [Codes -> Objects \cup {Nil}]
  BY DEF Databases
<1>2. pos \in Nat
  BY <1>1 DEF IndexOf, Objects
<1>3. CASE pos = 0
  BY <1>2, <1>3 DEF DeleteUserFrom
<1>4. CASE pos # 0
  <2>1. obj \in Objects /\ pos = d.user2index[obj.addr] /\ obj.addr \in Addrs
    BY <1>4 DEF IndexOf, Objects
  <2> DEFINE Listed(x) == {i \in DOMAIN x.userList : x.userList[i] # Nil}
             gone == d.userList[pos]
  <2>2. /\ \A i \in Listed(d) : d.user2index[d.userList[i].addr] = i
        /\ \A a \in Addrs : d.user2index[a] # 0 =>
             d.user2index[a] \in Listed(d) /\ d.userList[d.user2index[a]].addr = a
        /\ \A i \in Listed(d) : \A c \in d.userList[i].user.codes : d.code2user[c] = d.userList[i]
        /\ \A c \in Codes : d.code2user[c] # Nil =>
             c \in d.code2user[c].user.codes /\ d.code2user[c] \in ObjectsOf(d)
    BY DEF IndexesAgree
  <2>3. pos \in Listed(d) /\ gone.addr = obj.addr /\ gone \in Objects
    BY <1>1, <1>4, <2>1, <2>2
  <2>4. /\ e.userList = [d.userList EXCEPT ![pos] = Nil]
        /\ e.user2index = [d.user2index EXCEPT ![obj.addr] = 0]
        /\ e.code2user = [c \in Codes |-> IF c \in gone.user.codes THEN Nil ELSE d.code2user[c]]
        /\ e = [userList |-> e.userList, user2index |-> e.user2index, code2user |-> e.code2user]
    BY <1>4 DEF DeleteUserFrom
  <2> HIDE DEF e, pos
  <2>5. /\ e.userList \in Seq(Objects \cup {Nil})
        /\ DOMAIN e.userList = DOMAIN d.userList
        /\ e.userList[pos] = Nil
        /\ \A i \in DOMAIN d.userList : i # pos => e.userList[i] = d.userList[i]
    BY <1>1, <2>3, <2>4
  <2>6. e \in Databases
    <3>1. e.user2index \in [Addrs -> Nat]
      <4>1. e.user2index = [d.user2index EXCEPT ![obj.addr] = 0]
        BY <2>4
      <4>2. d.user2index \in [Addrs -> Nat]
        BY DEF Databases
      <4>3. \A f \in [Addrs -> Nat], a \in Addrs : [f EXCEPT ![a] = 0] \in [Addrs -> Nat]
        OBVIOUS
      <4> QED
        BY <2>1, <4>1, <4>2, <4>3, Zenon
    <3>2. e.code2user \in [Codes -> Objects \cup {Nil}]
      BY <1>1, <2>4
    <3> QED
      BY <2>4, <2>5, <3>1, <3>2 DEF Databases
  <2>7. Listed(e) = Listed(d) \ {pos}
    BY <2>3, <2>5
  <2>8. \A i \in Listed(d) : /\ d.userList[i] \in Objects /\ d.userList[i].addr \in Addrs
                             /\ d.userList[i].user.codes \subseteq Codes
                             /\ i # pos => d.userList[i].addr # obj.addr
    BY <1>1, <2>1, <2>2, <2>3 DEF Objects, UserRecords, Codes
  <2>9. \A i \in Listed(e) : e.user2index[e.userList[i].addr] = i
    BY <1>1, <2>2, <2>4, <2>5, <2>7, <2>8
  <2>10. \A a \in Addrs : e.user2index[a] # 0 =>
             e.user2index[a] \in Listed(e) /\ e.userList[e.user2index[a]].addr = a
    <3> SUFFICES ASSUME NEW a \in Addrs, e.user2index[a] # 0
                 PROVE  e.user2index[a] \in Listed(e) /\ e.userList[e.user2index[a]].addr = a
      OBVIOUS
    <3>1. a # obj.addr /\ e.user2index[a] = d.user2index[a]
      BY <1>1, <2>1, <2>4
    <3>2. d.user2index[a] \in Listed(d) /\ d.userList[d.user2index[a]].addr = a
      BY <2>2, <3>1
    <3>3. d.user2index[a] # pos
      BY <2>3, <3>1, <3>2
    <3> QED
      BY <2>5, <2>7, <3>1, <3>2, <3>3
  <2>11. \A i \in Listed(e) : \A c \in e.userList[i].user.codes : e.code2user[c] = e.userList[i]
    <3> SUFFICES ASSUME NEW i \in Listed(e), NEW c \in e.userList[i].user.codes
                 PROVE  e.code2user[c] = e.userList[i]
      OBVIOUS
    <3>1. i \in Listed(d) /\ i # pos /\ e.userList[i] = d.userList[i]
      BY <2>5, <2>7
    <3>2. c \in Codes /\ d.code2user[c] = d.userList[i]
      BY <2>2, <2>8, <3>1
    <3>3. c \notin gone.user.codes
      <4>1. ASSUME c \in gone.user.codes PROVE FALSE
        <5>1. d.code2user[c] = gone
          BY <2>2, <2>3, <4>1
        <5>2. d.userList[i].addr = obj.addr
          BY <2>3, <3>2, <5>1
        <5> QED
          BY <2>8, <3>1, <5>2
      <4> QED
        BY <4>1
    <3> QED
      BY <2>4, <3>1, <3>2, <3>3
  <2>12. \A c \in Codes : e.code2user[c] # Nil =>
             c \in e.code2user[c].user.codes /\ e.code2user[c] \in ObjectsOf(e)
    <3> SUFFICES ASSUME NEW c \in Codes, e.code2user[c] # Nil
                 PROVE  c \in e.code2user[c].user.codes /\ e.code2user[c] \in ObjectsOf(e)
      OBVIOUS
    <3>1. c \notin gone.user.codes /\ e.code2user[c] = d.code2user[c]
      BY <2>4
    <3>2. c \in d.code2user[c].user.codes /\ d.code2user[c] \in ObjectsOf(d)
      BY <2>2, <3>1
    <3>3. PICK i \in Listed(d) : d.userList[i] = d.code2user[c]
      BY <3>2 DEF ObjectsOf
    <3>4. i # pos
      BY <3>1, <3>2, <3>3
    <3>5. i \in DOMAIN e.userList /\ e.userList[i] = d.userList[i] /\ d.userList[i] # Nil
      BY <2>5, <3>3, <3>4
    <3> QED
      BY <3>1, <3>2, <3>3, <3>5 DEF ObjectsOf
  <2>13. IndexesAgree(e)
    BY <2>9, <2>10, <2>11, <2>12 DEF IndexesAgree
  <2> QED
    BY <1>2, <2>3, <2>5, <2>6, <2>13 DEF e, pos
<1> QED
  BY <1>3, <1>4

\* A fresh address is in no index.
LEMMA FreshIsUnused ==
  ASSUME IInv, NEW a \in Addrs, Fresh(a)
  PROVE  db.user2index[a] = 0 /\ newAuth.user2index[a] = 0
<1>1. ASSUME NEW d \in Databases, IndexesAgree(d), ObjectsOf(d) \subseteq ObjectsOf(db) \cup ObjectsOf(newAuth),
             d.user2index[a] # 0
      PROVE  FALSE
  <2>1. /\ d.user2index[a] \in DOMAIN d.userList /\ d.userList[d.user2index[a]] # Nil
        /\ d.userList[d.user2index[a]].addr = a
    BY <1>1 DEF IndexesAgree
  <2>2. d.userList[d.user2index[a]] \in ObjectsOf(d)
    BY <2>1 DEF ObjectsOf
  <2>3. a \in LiveAddrs
    BY <1>1, <2>1, <2>2 DEF LiveAddrs
  <2> QED
    BY <2>3 DEF Fresh
<1>2. db \in Databases /\ newAuth \in Databases /\ IndexesAgree(db) /\ IndexesAgree(newAuth)
  BY DEF IInv, MemoryOK, LoaderOK, IndexConsistent
<1> QED
  BY <1>1, <1>2

-----------------------------------------------------------------------------
(* A client takes a step; the others keep what they rely on, because what  *)
(* it changes is under a lock nobody else holds.                           *)

LEMMA OtherFits ==
  ASSUME IInv, NEW c \in Clients, NEW d \in Clients \ {c},
         pc'[d] = pc[d], my'[d] = my[d], up' = up,
         (db' = db /\ userLock' = userLock) \/ userLock \in {Nil, c},
         (fileLock' = fileLock /\ reading' = reading) \/ fileLock \in {Nil, c}
  PROVE  Fits(d)'
<1>1. Fits(d) /\ d # c /\ d # Nil
  BY Constants DEF IInv
<1>2. LocalsOK(d)' /\ CallFits(d)'
  BY <1>1 DEF Fits, LocalsOK, CallFits
<1>3. pc[d] \in {"replace", "announce"} => db' = db /\ userLock' = userLock
  BY <1>1 DEF Fits, LocksHeld
<1>4. pc[d] \in {"stat", "read", "announce", "stamp"} => fileLock' = fileLock /\ reading' = reading
  <2>1. pc[d] \in {"stat", "read", "announce", "stamp"} => fileLock = d
    BY <1>1 DEF Fits, LocksHeld
  <2> QED
    BY <1>1, <2>1
<1>5. LocksHeld(d)'
  BY <1>1, <1>3, <1>4 DEF Fits, LocksHeld
<1> QED
  BY <1>2, <1>5 DEF Fits

LEMMA ClientStep ==
  ASSUME IInv, NEW c \in Clients, NEW step \in Steps, NEW locals \in Locals,
         pc' = [pc EXCEPT ![c] = step], my' = [my EXCEPT ![c] = locals], Fits(c)',
         up = "up", up' = up,
         (db' = db /\ userLock' = userLock) \/ userLock \in {Nil, c},
         (fileLock' = fileLock /\ reading' = reading) \/ fileLock \in {Nil, c},
         MemoryOK', LoaderOK', FilesOK', WorldOK', IndexConsistent'
  PROVE  IInv'
<1>1. pc \in [Clients -> Steps] /\ my \in [Clients -> Locals]
  BY DEF IInv, ClientsOK
<1>2. ClientsOK'
  BY <1>1 DEF ClientsOK
<1>3. \A d \in Clients \ {c} : pc'[d] = pc[d] /\ my'[d] = my[d]
  BY <1>1
<1>4. \A d \in Clients : Fits(d)'
  BY <1>3, OtherFits
<1> QED
  BY <1>2, <1>4 DEF IInv

\* A step that only concerns the client.
LEMMA LocalStep ==
  ASSUME IInv, NEW c \in Clients, NEW step \in Steps, NEW locals \in Locals,
         pc' = [pc EXCEPT ![c] = step], my' = [my EXCEPT ![c] = locals], Fits(c)',
         up = "up", changes' \in 0..MaxChanges,
         UNCHANGED <<memory, locks, loader, files, up, now, edits, crashes>>
  PROVE  IInv'
<1>1. MemoryOK' /\ LoaderOK' /\ FilesOK' /\ WorldOK'
  BY DEF IInv, MemoryOK, LoaderOK, FilesOK, WorldOK, memory, locks, loader, files
<1>2. IndexConsistent'
  BY DEF IInv, IndexConsistent, memory, loader
<1>3. db' = db /\ userLock' = userLock /\ fileLock' = fileLock /\ reading' = reading /\ up' = up
  BY DEF memory, locks, loader
<1> QED
  BY <1>1, <1>2, <1>3, ClientStep

\* A client in a call, and what it holds.
LEMMA InCall ==
  ASSUME IInv, NEW c \in Clients, pc[c] # "idle"
  PROVE  /\ up = "up" /\ my[c] \in Locals /\ my[c].call \in Requests
         /\ my[c].call \in LookupCalls \cup ChangeCalls /\ my[c].call # NoCall
         /\ Fits(c) /\ pc[c] \in Steps /\ my = [my EXCEPT ![c] = my[c]]
         /\ pc = [pc EXCEPT ![c] = pc[c]]
<1>1. Fits(c) /\ my[c] \in Locals /\ pc[c] \in Steps
  BY DEF IInv, ClientsOK
<1>2. up = "up" /\ my[c].call \in Requests
  BY <1>1 DEF Fits, LocalsOK
<1>3. \A request \in LookupCalls \cup ChangeCalls : request # NoCall
  BY DEF LookupCalls, ChangeCalls, AddCalls, UpdateCalls, DeleteCalls, NoCall
<1>4. my \in [Clients -> Locals] /\ pc \in [Clients -> Steps]
  BY DEF IInv, ClientsOK
<1>5. my[c].call \in LookupCalls \cup ChangeCalls /\ my[c].call # NoCall
  BY <1>2, <1>3, Constants
<1>6. my = [my EXCEPT ![c] = my[c]] /\ pc = [pc EXCEPT ![c] = pc[c]]
  BY <1>4
<1> QED
  BY <1>1, <1>2, <1>5, <1>6

\* An answer.
LEMMA AnswerFits ==
  ASSUME IInv, NEW c \in Clients, pc[c] # "idle", NEW r \in Results, Answer(c, r), up' = up
  PROVE  /\ [my[c] EXCEPT !.result = r] \in Locals /\ "done" \in Steps
         /\ pc' = [pc EXCEPT ![c] = "done"]
         /\ my' = [my EXCEPT ![c] = [my[c] EXCEPT !.result = r]]
         /\ Fits(c)' /\ up = "up"
<1>1. /\ my[c] \in Locals /\ up = "up" /\ my[c].call \in Requests /\ Fits(c) /\ my[c].call # NoCall
      /\ my \in [Clients -> Locals] /\ pc \in [Clients -> Steps]
  BY InCall DEF IInv, ClientsOK
<1>2. /\ pc' = [pc EXCEPT ![c] = "done"]
      /\ my' = [my EXCEPT ![c] = [my[c] EXCEPT !.result = r]]
  BY <1>1 DEF Answer, Goto
<1>3. [my[c] EXCEPT !.result = r] \in Locals /\ "done" \in Steps
  BY <1>1 DEF Locals, Steps
<1>4. /\ pc'[c] = "done" /\ my'[c].call = my[c].call /\ my'[c].phase = my[c].phase
  BY <1>1, <1>2 DEF Locals
<1>5. Fits(c)'
  BY <1>1, <1>4 DEF Fits, LocalsOK, CallFits, LocksHeld
<1> QED
  BY <1>1, <1>2, <1>3, <1>5

\* A step to there with the same locals.
LEMMA GotoFits ==
  ASSUME IInv, NEW c \in Clients, pc[c] # "idle", NEW there \in Steps, Goto(c, there),
         my' = my, up' = up,
         there \notin {"add", "modify", "replace", "append", "write", "stat", "read",
                       "announce", "stamp"},
         there = "post" => (my[c].call.op = "add" => my[c].target \in Objects)
  PROVE  /\ pc' = [pc EXCEPT ![c] = there] /\ my' = [my EXCEPT ![c] = my[c]]
         /\ my[c] \in Locals /\ Fits(c)' /\ up = "up"
<1>1. /\ my[c] \in Locals /\ up = "up" /\ my[c].call \in Requests /\ Fits(c)
      /\ pc \in [Clients -> Steps] /\ my = [my EXCEPT ![c] = my[c]]
  BY InCall DEF IInv, ClientsOK
<1>2. pc' = [pc EXCEPT ![c] = there] /\ pc'[c] = there
  BY <1>1 DEF Goto
<1>3. Fits(c)'
  BY <1>1, <1>2 DEF Fits, LocalsOK, CallFits, LocksHeld
<1> QED
  BY <1>1, <1>2, <1>3

-----------------------------------------------------------------------------
(* Calls and lookups. *)

LEMMA BeginKeeps ==
  ASSUME IInv, NEW c \in Clients, NEW request \in Requests, NEW step \in {"reload", "done"},
         NEW what \in Phases, NEW r \in Results, Begin(c, request, step, what, r),
         changes' \in 0..MaxChanges,
         what = "verify" => request \in ChangeCalls, what # "target"
  PROVE  IInv'
<1> DEFINE locals == [my[c] EXCEPT !.call = request, !.phase = what, !.result = r, !.asOf = UsersMtime]
<1>1. /\ my \in [Clients -> Locals] /\ my[c] \in Locals /\ pc \in [Clients -> Steps]
      /\ UsersMtime \in Nat
  BY DEF IInv, ClientsOK, FilesOK, UsersMtime
<1>2. pc' = [pc EXCEPT ![c] = step] /\ my' = [my EXCEPT ![c] = locals]
  BY <1>1 DEF Begin, Goto
<1>3. locals \in Locals /\ step \in Steps
  BY <1>1 DEF Locals, Steps
<1>4. locals.call = request /\ locals.phase = what
  BY <1>1 DEF Locals
<1>5. request # NoCall /\ up = "up" /\ up' = up
  BY Constants DEF LookupCalls, ChangeCalls, AddCalls, UpdateCalls, DeleteCalls, NoCall, Begin
<1>6. pc'[c] = step /\ my'[c] = locals
  BY <1>1, <1>2
<1> HIDE DEF locals
<1>7. Fits(c)'
  BY <1>4, <1>5, <1>6 DEF Fits, LocalsOK, CallFits, LocksHeld
<1>8. UNCHANGED <<memory, locks, loader, files, up, now, edits, crashes>>
  BY DEF Begin
<1> QED
  BY <1>2, <1>3, <1>5, <1>7, <1>8, LocalStep

LEMMA CalledKeeps == ASSUME IInv, NEW c \in Clients, Called(c) PROVE IInv'
<1>1. changes \in 0..MaxChanges
  BY DEF IInv, WorldOK
<1>2. CASE CallLookup(c)
  <2>1. PICK request \in Requests \cap LookupCalls :
          IF request.op = "auth" /\ request.code \in ShortCodes
          THEN Begin(c, request, "done", "none", "AuthFail")
          ELSE Begin(c, request, "reload", request.op, "none")
    BY <1>2 DEF CallLookup
  <2>2. request.op \in {"find", "auth"}
    BY DEF LookupCalls
  <2>3. changes' \in 0..MaxChanges
    BY <1>1, <1>2 DEF CallLookup
  <2>4. {"none", "AuthFail"} \subseteq Results /\ {"none", "find", "auth"} \subseteq Phases
    BY DEF Results, Phases
  <2>5. CASE Begin(c, request, "done", "none", "AuthFail")
    BY <2>3, <2>4, <2>5, BeginKeeps
  <2>6. CASE Begin(c, request, "reload", request.op, "none")
    BY <2>2, <2>3, <2>4, <2>6, BeginKeeps
  <2> QED
    BY <2>1, <2>5, <2>6
<1>3. CASE CallChange(c)
  <2>1. PICK request \in Requests \cap ChangeCalls : Begin(c, request, "reload", "verify", "none")
    BY <1>3 DEF CallChange
  <2>2. changes' \in 0..MaxChanges
    BY <1>1, <1>3, Constants DEF CallChange
  <2>3. "none" \in Results /\ "verify" \in Phases
    BY DEF Results, Phases
  <2> QED
    BY <2>1, <2>2, <2>3, BeginKeeps
<1> QED
  BY <1>2, <1>3 DEF Called

LEMMA ReturnKeeps == ASSUME IInv, NEW c \in Clients, Return(c) PROVE IInv'
<1>1. /\ pc \in [Clients -> Steps] /\ my \in [Clients -> Locals] /\ up = "up"
      /\ changes \in 0..MaxChanges
  BY InCall DEF IInv, ClientsOK, WorldOK, Return
<1>2. pc' = [pc EXCEPT ![c] = "idle"] /\ my' = [my EXCEPT ![c] = NoLocals] /\ "idle" \in Steps
  BY DEF Return, Goto, Steps
<1>3. NoLocals \in Locals
  BY DEF NoLocals, Locals, Phases, Results
<1>4. pc'[c] = "idle" /\ my'[c] = NoLocals
  BY <1>1, <1>2
<1>5. Fits(c)'
  BY <1>4 DEF Fits, LocalsOK, CallFits, LocksHeld, NoLocals
<1>6. UNCHANGED <<memory, locks, loader, files, up, now, edits, crashes>> /\ changes' = changes
  BY DEF Return, world, counts
<1> QED
  BY <1>1, <1>2, <1>3, <1>5, <1>6, LocalStep

LEMMA AnswerKeeps ==
  ASSUME IInv, NEW c \in Clients, pc[c] # "idle", NEW r \in Results, Answer(c, r),
         UNCHANGED <<memory, locks, loader, files, world>>
  PROVE  IInv'
<1>1. UNCHANGED <<memory, locks, loader, files, up, now, edits, crashes>> /\ changes' = changes
  BY DEF world, counts
<1>2. changes' \in 0..MaxChanges
  BY <1>1 DEF IInv, WorldOK
<1> QED
  BY <1>1, <1>2, AnswerFits, LocalStep

LEMMA LookingUpKeeps ==
  ASSUME IInv, NEW c \in Clients,
         FindUser(c) \/ AuthUser(c) \/ VerifyOpAllowed(c) \/ FindTarget(c)
  PROVE  IInv'
<1> USE DEF Lookup
<1>1. /\ pc[c] = "lookup" /\ my[c] \in Locals /\ my[c].call \in Requests /\ my[c].call # NoCall
      /\ Fits(c) /\ up = "up" /\ my \in [Clients -> Locals] /\ pc \in [Clients -> Steps]
  <2>1. pc[c] = "lookup"
    BY DEF FindUser, AuthUser, VerifyOpAllowed, FindTarget
  <2> QED
    BY <2>1, InCall DEF IInv, ClientsOK
<1>2. /\ UNCHANGED <<memory, locks, loader, files, world>>
      /\ UNCHANGED <<memory, locks, loader, files, up, now, edits, crashes>> /\ changes' \in 0..MaxChanges
  <2>1. UNCHANGED <<memory, locks, loader, files, world>>
    BY DEF FindUser, AuthUser, VerifyOpAllowed, FindTarget
  <2> QED
    BY <2>1 DEF world, counts, IInv, WorldOK
<1>3. CASE FindUser(c)
  <2>1. PICK r \in Results : Answer(c, r)
    BY <1>3 DEF FindUser, Results
  <2> QED
    BY <1>1, <1>2, <2>1, AnswerKeeps
<1>4. CASE AuthUser(c)
  <2>1. \A u, t : AuthResult(u, t) \in Results
    BY DEF AuthResult, UserHasAccess, Results
  <2>2. PICK r \in Results : Answer(c, r)
    BY <1>4, <2>1 DEF AuthUser, Results
  <2> QED
    BY <1>1, <1>2, <2>2, AnswerKeeps
<1>5. CASE VerifyOpAllowed(c)
  <2>1. my[c].call \in ChangeCalls
    BY <1>1, <1>5 DEF VerifyOpAllowed, Fits, CallFits
  <2>2. CASE Answer(c, "refused")
    BY <1>1, <1>2, <2>2, AnswerKeeps DEF Results
  <2>3. CASE my[c].call.op = "add" /\ Goto(c, "add") /\ my' = my
    <3>1. my[c].call \in AddCalls
      BY <2>1, <2>3 DEF ChangeCalls, UpdateCalls, DeleteCalls
    <3>2. pc' = [pc EXCEPT ![c] = "add"] /\ pc'[c] = "add" /\ my' = [my EXCEPT ![c] = my[c]] /\ "add" \in Steps
      BY <1>1, <2>3 DEF Goto, Steps
    <3>3. Fits(c)'
      BY <1>1, <1>2, <2>3, <3>1, <3>2 DEF Fits, LocalsOK, CallFits, LocksHeld
    <3> QED
      BY <1>1, <1>2, <3>2, <3>3, LocalStep
  <2>4. CASE /\ my[c].call.op # "add" /\ Goto(c, "reload")
             /\ my' = [my EXCEPT ![c].phase = "target", ![c].asOf = UsersMtime]
    <3> DEFINE locals == [my[c] EXCEPT !.phase = "target", !.asOf = UsersMtime]
    <3>0. UsersMtime \in Nat
      BY DEF IInv, FilesOK, UsersMtime
    <3>1. my[c].call \in UpdateCalls \cup DeleteCalls
      BY <2>1, <2>4 DEF ChangeCalls, AddCalls
    <3>2. /\ pc' = [pc EXCEPT ![c] = "reload"] /\ pc'[c] = "reload" /\ "reload" \in Steps
          /\ my' = [my EXCEPT ![c] = locals] /\ my'[c] = locals
      BY <1>1, <2>4 DEF Goto, Steps
    <3>3. locals \in Locals /\ locals.call = my[c].call /\ locals.phase = "target"
      BY <1>1, <3>0 DEF Locals, Phases
    <3> HIDE DEF locals
    <3>4. Fits(c)'
      BY <1>1, <1>2, <3>1, <3>2, <3>3 DEF Fits, LocalsOK, CallFits, LocksHeld
    <3> QED
      BY <1>1, <1>2, <3>2, <3>3, <3>4, LocalStep
  <2> QED
    BY <1>5, <2>2, <2>3, <2>4 DEF VerifyOpAllowed
<1>6. CASE FindTarget(c)
  <2> DEFINE found == Found(my[c].call.code)
             locals == [my[c] EXCEPT !.target = found, !.seen = revision]
  <2>1. my[c].call \in UpdateCalls \cup DeleteCalls
    BY <1>1, <1>6 DEF FindTarget, Fits, CallFits
  <2>2. db \in Databases /\ revision \in Nat
    BY DEF IInv, MemoryOK
  <2>3. found \in Objects \cup {Nil}
    BY <2>1, <2>2 DEF Found, Databases, UpdateCalls, DeleteCalls, Codes
  <2>4. my[c].call.op = "update" => found \in Objects
    BY <1>6, <2>3 DEF FindTarget
  <2>5. /\ pc' = [pc EXCEPT ![c] = "modify"] /\ pc'[c] = "modify" /\ "modify" \in Steps
        /\ my' = [my EXCEPT ![c] = locals] /\ my'[c] = locals
    BY <1>1, <1>6 DEF FindTarget, Goto, Steps
  <2> HIDE DEF found
  <2>6. locals \in Locals /\ locals.call = my[c].call /\ locals.phase = my[c].phase /\ locals.target = found
    BY <1>1, <2>2, <2>3 DEF Locals
  <2> HIDE DEF locals
  <2>7. Fits(c)'
    BY <1>1, <1>2, <2>1, <2>4, <2>5, <2>6 DEF Fits, LocalsOK, CallFits, LocksHeld
  <2> QED
    BY <1>1, <1>2, <2>5, <2>6, <2>7, LocalStep
<1> QED
  BY <1>3, <1>4, <1>5, <1>6

-----------------------------------------------------------------------------
(* Reading the file. *)

LEMMA ReadLineKeeps ==
  ASSUME IInv, ReadLine, reading \in Inodes
  PROVE  LoaderOK' /\ IndexesAgree(newAuth)' /\ reading' = reading
<1> DEFINE line == disk[reading].lines[readPos + 1]
<1>0. /\ LoaderOK /\ FilesOK /\ IndexesAgree(newAuth) /\ newAuth \in Databases
      /\ readPos \in Nat
  BY DEF IInv, IndexConsistent, LoaderOK
<1>1. reading' = reading /\ newTimestamp' = newTimestamp /\ readPos' = readPos + 1
  BY DEF ReadLine
<1>2. line \in Lines
  <2>1. disk[reading].lines \in Seq(Lines)
    BY <1>0 DEF FilesOK
  <2>2. readPos < Len(disk[reading].lines)
    BY DEF ReadLine, AtEnd
  <2>3. readPos + 1 \in 1 .. Len(disk[reading].lines)
    BY <1>0, <2>1, <2>2
  <2> QED
    BY <2>1, <2>3
<1>3. CASE newAuth' = newAuth
  BY <1>0, <1>1, <1>3 DEF LoaderOK
<1>4. ASSUME IsUserRow(line), CodesFree(newAuth, NewUserFromCSV(line)), NEW a \in Addrs, Fresh(a),
             newAuth' = AddUserAtPos(newAuth, [addr |-> a, user |-> NewUserFromCSV(line)], 0)
      PROVE  LoaderOK' /\ IndexesAgree(newAuth)'
  <2> DEFINE user == NewUserFromCSV(line)
             obj == [addr |-> a, user |-> user]
  <2> HIDE DEF line
  <2>1. user \in UserRecords
    BY <1>2, <1>4, LineIsUser
  <2>2. obj \in Objects /\ obj.user = user /\ obj.addr = a
    BY <2>1 DEF Objects
  <2>3. newAuth.user2index[obj.addr] = 0
    BY <1>4, <2>2, FreshIsUnused
  <2> HIDE DEF user, obj
  <2>4. AddUserAtPos(newAuth, obj, 0) \in Databases /\ IndexesAgree(AddUserAtPos(newAuth, obj, 0))
    BY <1>0, <1>4, <2>2, <2>3, AddAgrees DEF user
  <2>5. newAuth' = AddUserAtPos(newAuth, obj, 0)
    BY <1>4 DEF user, obj
  <2> QED
    BY <1>0, <1>1, <2>4, <2>5 DEF LoaderOK
<1>5. newAuth' = newAuth \/
      (/\ IsUserRow(line) /\ CodesFree(newAuth, NewUserFromCSV(line))
       /\ \E a \in Addrs : /\ Fresh(a)
                           /\ newAuth' = AddUserAtPos(newAuth, [addr |-> a, user |-> NewUserFromCSV(line)], 0))
  BY DEF ReadLine
<1> QED
  BY <1>1, <1>3, <1>4, <1>5

LEMMA ReloadNotNeededKeeps == ASSUME IInv, NEW c \in Clients, ReloadNotNeeded(c) PROVE IInv'
<1>1. /\ pc[c] = "reload" /\ Goto(c, "lookup") /\ my' = my /\ up' = up
      /\ UNCHANGED <<memory, locks, loader, files, up, now, edits, crashes>> /\ changes' = changes
  BY DEF ReloadNotNeeded, world, counts
<1>2. changes' \in 0..MaxChanges /\ "lookup" \in Steps
  BY <1>1 DEF IInv, WorldOK, Steps
<1> QED
  BY <1>1, <1>2, GotoFits, LocalStep

LEMMA ReloadFailsKeeps == ASSUME IInv, NEW c \in Clients, ReloadFails(c) PROVE IInv'
<1> DEFINE locals == [my[c] EXCEPT !.asOf = 0]
<1>1. /\ pc[c] = "reload" /\ Goto(c, "lookup") /\ my' = [my EXCEPT ![c].asOf = 0]
      /\ UNCHANGED <<memory, locks, loader, files, up, now, edits, crashes>> /\ changes' = changes
      /\ up' = up
  BY DEF ReloadFails, world, counts
<1>2. /\ my \in [Clients -> Locals] /\ pc \in [Clients -> Steps] /\ my[c] \in Locals
      /\ up = "up" /\ my[c].call \in Requests /\ Fits(c)
  BY <1>1, InCall DEF IInv, ClientsOK
<1>3. pc' = [pc EXCEPT ![c] = "lookup"] /\ my' = [my EXCEPT ![c] = locals]
  BY <1>1, <1>2 DEF Goto
<1>4. /\ locals \in Locals /\ locals.call = my[c].call /\ locals.phase = my[c].phase
      /\ "lookup" \in Steps
  BY <1>2 DEF Locals, Steps
<1>5. pc'[c] = "lookup" /\ my'[c] = locals
  BY <1>2, <1>3
<1> HIDE DEF locals
<1>6. Fits(c)'
  BY <1>1, <1>2, <1>4, <1>5 DEF Fits, LocalsOK, CallFits, LocksHeld
<1>7. changes' \in 0..MaxChanges
  BY <1>1 DEF IInv, WorldOK
<1> QED
  BY <1>1, <1>2, <1>3, <1>4, <1>6, <1>7, LocalStep

LEMMA ReloadOpenKeeps == ASSUME IInv, NEW c \in Clients, ReloadOpen(c) PROVE IInv'
<1>0. /\ pc[c] = "reload" /\ my[c] \in Locals /\ Fits(c) /\ up = "up" /\ my[c].call \in Requests
      /\ pc \in [Clients -> Steps] /\ my = [my EXCEPT ![c] = my[c]]
      /\ MemoryOK /\ LoaderOK /\ FilesOK /\ WorldOK /\ IndexConsistent
  BY InCall DEF ReloadOpen, IInv, ClientsOK
<1>1. /\ fileLock = Nil /\ fileLock' = c /\ reading' = usersFile /\ readPos' = 0 /\ newAuth' = EmptyDb
      /\ newTimestamp' = newTimestamp
      /\ pc' = [pc EXCEPT ![c] = "stat"] /\ my' = my
      /\ UNCHANGED <<memory, userLock, files, world>>
  BY DEF ReloadOpen, BeginReading, Goto
<1>2. db' = db /\ userLock' = userLock /\ up' = up /\ revision' = revision /\ fileTimestamp' = fileTimestamp
  BY <1>1 DEF memory, world
<1>3. MemoryOK' /\ FilesOK' /\ WorldOK'
  BY <1>0, <1>1, <1>2 DEF MemoryOK, FilesOK, WorldOK, files, world, counts
<1>4. LoaderOK' /\ IndexConsistent'
  BY <1>0, <1>1, <1>2, EmptyAgrees DEF LoaderOK, FilesOK, IndexConsistent
<1>5. pc'[c] = "stat" /\ usersFile \in Inodes /\ "stat" \in Steps
  BY <1>0, <1>1 DEF FilesOK, Steps
<1>6. Fits(c)'
  BY <1>0, <1>1, <1>2, <1>5 DEF Fits, LocalsOK, CallFits, LocksHeld
<1> QED
  BY <1>0, <1>1, <1>2, <1>3, <1>4, <1>5, <1>6, ClientStep

LEMMA ReloadStatKeeps == ASSUME IInv, NEW c \in Clients, ReloadStat(c) PROVE IInv'
<1>0. /\ pc[c] = "stat" /\ my[c] \in Locals /\ Fits(c) /\ up = "up" /\ my[c].call \in Requests
      /\ pc \in [Clients -> Steps] /\ my = [my EXCEPT ![c] = my[c]]
      /\ MemoryOK /\ LoaderOK /\ FilesOK /\ WorldOK /\ IndexConsistent
  BY InCall DEF ReloadStat, IInv, ClientsOK
<1>1. /\ newTimestamp' = UsersMtime
      /\ pc' = [pc EXCEPT ![c] = "read"] /\ my' = my
      /\ reading' = reading /\ readPos' = readPos /\ newAuth' = newAuth
      /\ UNCHANGED <<memory, locks, files, world>>
  BY DEF ReloadStat, Goto
<1>2. db' = db /\ userLock' = userLock /\ fileLock' = fileLock /\ up' = up
  BY <1>1 DEF memory, world, locks
<1>3. MemoryOK' /\ FilesOK' /\ WorldOK'
  BY <1>0, <1>1 DEF MemoryOK, FilesOK, WorldOK, memory, locks, files, world, counts
<1>4. LoaderOK' /\ IndexConsistent'
  BY <1>0, <1>1, <1>2 DEF LoaderOK, FilesOK, IndexConsistent, UsersMtime
<1>5. pc'[c] = "read" /\ "read" \in Steps
  BY <1>0, <1>1 DEF Steps
<1>6. Fits(c)'
  BY <1>0, <1>1, <1>2, <1>5 DEF Fits, LocalsOK, CallFits, LocksHeld
<1> QED
  BY <1>0, <1>1, <1>2, <1>3, <1>4, <1>5, <1>6, ClientStep

LEMMA ReloadLineKeeps == ASSUME IInv, NEW c \in Clients, ReloadLine(c) PROVE IInv'
<1>0. /\ pc[c] = "read" /\ my[c] \in Locals /\ Fits(c) /\ up = "up" /\ my[c].call \in Requests
      /\ pc = [pc EXCEPT ![c] = pc[c]] /\ my = [my EXCEPT ![c] = my[c]] /\ pc[c] \in Steps
      /\ MemoryOK /\ LoaderOK /\ FilesOK /\ WorldOK /\ IndexConsistent
  BY InCall DEF ReloadLine, IInv
<1>1. /\ ReadLine /\ pc' = pc /\ my' = my
      /\ UNCHANGED <<memory, locks, files, world>>
  BY DEF ReloadLine, clients
<1>2. db' = db /\ userLock' = userLock /\ fileLock' = fileLock /\ up' = up
  BY <1>1 DEF memory, world, locks
<1>3. MemoryOK' /\ FilesOK' /\ WorldOK'
  BY <1>0, <1>1 DEF MemoryOK, FilesOK, WorldOK, memory, locks, files, world, counts
<1>4. reading \in Inodes
  BY <1>0 DEF Fits, LocksHeld
<1>5. LoaderOK' /\ IndexesAgree(newAuth)' /\ reading' = reading
  BY <1>1, <1>4, ReadLineKeeps
<1>6. IndexConsistent'
  BY <1>0, <1>2, <1>5 DEF IndexConsistent
<1>7. Fits(c)'
  BY <1>0, <1>1, <1>2, <1>5 DEF Fits, LocalsOK, CallFits, LocksHeld
<1> QED
  BY <1>0, <1>1, <1>2, <1>3, <1>5, <1>6, <1>7, ClientStep

LEMMA EndReadingIs == ASSUME EndReading PROVE LoaderOK' /\ IndexesAgree(newAuth)' /\ reading' = 0
BY EmptyAgrees DEF EndReading, LoaderOK

LEMMA ReloadSwapKeeps == ASSUME IInv, NEW c \in Clients, ReloadSwap(c) PROVE IInv'
<1>0. /\ pc[c] = "read" /\ my[c] \in Locals /\ Fits(c) /\ up = "up" /\ my[c].call \in Requests
      /\ pc \in [Clients -> Steps] /\ my = [my EXCEPT ![c] = my[c]]
      /\ MemoryOK /\ LoaderOK /\ FilesOK /\ WorldOK /\ IndexConsistent
  BY InCall DEF ReloadSwap, IInv, ClientsOK
<1>1. /\ userLock = Nil /\ userLock' = c /\ fileLock' = fileLock /\ EndReading
      /\ db' = newAuth /\ fileTimestamp' = newTimestamp /\ revision' = revision
      /\ pc' = [pc EXCEPT ![c] = "announce"] /\ my' = my
      /\ UNCHANGED <<files, world>>
  BY DEF ReloadSwap, Goto
<1>2. fileLock = c
  BY <1>0 DEF Fits, LocksHeld
<1>3. MemoryOK' /\ FilesOK' /\ WorldOK' /\ up' = up
  BY <1>0, <1>1, <1>2 DEF MemoryOK, LoaderOK, FilesOK, WorldOK, files, world, counts
<1>4. LoaderOK' /\ IndexesAgree(newAuth)'
  BY <1>1, EndReadingIs
<1>5. IndexConsistent'
  BY <1>0, <1>1, <1>4 DEF IndexConsistent
<1>6. pc'[c] = "announce" /\ "announce" \in Steps
  BY <1>0, <1>1 DEF Steps
<1>7. Fits(c)'
  BY <1>0, <1>1, <1>2, <1>3, <1>6 DEF Fits, LocalsOK, CallFits, LocksHeld
<1> QED
  BY <1>0, <1>1, <1>2, <1>3, <1>4, <1>5, <1>6, <1>7, ClientStep

\* A Post returns: the locks are given back, or the change goes on to the file.
LEMMA PostingKeeps == ASSUME IInv, NEW c \in Clients, Posting(c) PROVE IInv'
<1>0. pc[c] \in {"announce", "post"}
  BY DEF Posting, ReloadPosted, Posted
<1>1. /\ my[c] \in Locals /\ Fits(c) /\ up = "up" /\ my[c].call \in Requests
      /\ pc \in [Clients -> Steps] /\ my = [my EXCEPT ![c] = my[c]]
      /\ MemoryOK /\ LoaderOK /\ FilesOK /\ WorldOK /\ IndexConsistent
  BY <1>0, InCall DEF IInv, ClientsOK
<1>2. /\ my' = my /\ up' = up /\ UNCHANGED <<memory, loader, files, world>>
  BY DEF Posting, ReloadPosted, Posted, world
<1>3. LoaderOK' /\ FilesOK' /\ WorldOK' /\ IndexConsistent' /\ db' = db /\ reading' = reading
  BY <1>1, <1>2 DEF LoaderOK, FilesOK, WorldOK, IndexConsistent, memory, loader, files, world, counts
<1>4. CASE ReloadPosted(c)
  <2>1. /\ pc[c] = "announce" /\ fileLock' = Nil /\ userLock' = Nil
        /\ pc' = [pc EXCEPT ![c] = "lookup"]
    BY <1>4 DEF ReloadPosted, Goto
  <2>2. fileLock = c /\ userLock = c
    BY <1>1, <2>1 DEF Fits, LocksHeld
  <2>3. MemoryOK'
    BY <1>1, <1>2, <2>1 DEF MemoryOK, memory
  <2>4. pc'[c] = "lookup" /\ "lookup" \in Steps
    BY <1>1, <2>1 DEF Steps
  <2>5. Fits(c)'
    BY <1>1, <1>2, <2>4 DEF Fits, LocalsOK, CallFits, LocksHeld
  <2> QED
    BY <1>1, <1>2, <1>3, <2>1, <2>2, <2>3, <2>4, <2>5, ClientStep
<1>5. CASE Posted(c)
  <2> DEFINE there == IF my[c].call.op = "add" THEN "append" ELSE "create"
  <2>1. /\ pc[c] = "post" /\ pc' = [pc EXCEPT ![c] = there] /\ UNCHANGED locks
    BY <1>5 DEF Posted, Goto
  <2>2. MemoryOK' /\ userLock' = userLock /\ fileLock' = fileLock
    BY <1>1, <1>2, <2>1 DEF MemoryOK, memory, locks
  <2>3. pc'[c] = there /\ there \in Steps
    BY <1>1, <2>1 DEF Steps
  <2>4. Fits(c)'
    BY <1>1, <1>2, <2>1, <2>3 DEF Fits, LocalsOK, CallFits, LocksHeld
  <2> HIDE DEF there
  <2> QED
    BY <1>1, <1>2, <1>3, <2>1, <2>2, <2>3, <2>4, ClientStep
<1> QED
  BY <1>4, <1>5 DEF Posting

-----------------------------------------------------------------------------
(* Changes in memory. *)

LEMMA RenewedIsRecord ==
  ASSUME IInv, NEW u \in UserRecords
  PROVE  /\ Stamped(u) \in UserRecords
         /\ \A updater \in Updaters : ~Declines(updater) => Updated(u, updater) \in UserRecords
<1>1. Now(now) \in Times
  BY PresentIsTime, Constants DEF IInv, WorldOK
<1>2. [u EXCEPT !.from = Now(now)] \in UserRecords
  BY <1>1 DEF UserRecords
<1>3. ASSUME NEW code \in AllCodes PROVE [u EXCEPT !.codes = {code}] \in UserRecords
  BY DEF UserRecords
<1> QED
  BY <1>2, <1>3 DEF Stamped, Updated, Updaters, Declines

\* A change of the list under userLock: what is left to show.
LEMMA ListStep ==
  ASSUME IInv, NEW c \in Clients, NEW step \in Steps, NEW locals \in Locals, pc[c] # "idle",
         NEW d \in Databases, db' = d, IndexesAgree(d),
         pc' = [pc EXCEPT ![c] = step], my' = [my EXCEPT ![c] = locals], Fits(c)',
         revision' \in Nat,
         userLock \in {Nil, c}, userLock' \in {Nil, c},
         UNCHANGED <<fileTimestamp, fileLock, loader, files, world>>
  PROVE  IInv'
<1>0. up = "up" /\ MemoryOK /\ LoaderOK /\ FilesOK /\ WorldOK /\ IndexConsistent
  BY InCall DEF IInv
<1>1. MemoryOK' /\ LoaderOK' /\ FilesOK' /\ WorldOK' /\ up' = up
  BY <1>0 DEF MemoryOK, LoaderOK, FilesOK, WorldOK, loader, files, world, counts
<1>2. IndexConsistent'
  BY <1>0 DEF IndexConsistent, loader
<1>3. fileLock' = fileLock /\ reading' = reading
  BY DEF loader
<1> QED
  BY <1>0, <1>1, <1>2, <1>3, ClientStep

LEMMA AddUserKeeps == ASSUME IInv, NEW c \in Clients, AddUser(c) PROVE IInv'
<1>0. /\ pc[c] = "add" /\ my[c] \in Locals /\ Fits(c) /\ up = "up" /\ my[c].call \in Requests
      /\ pc \in [Clients -> Steps] /\ my \in [Clients -> Locals]
      /\ db \in Databases /\ IndexesAgree(db) /\ revision \in Nat
  BY InCall DEF AddUser, IInv, ClientsOK, MemoryOK, IndexConsistent
<1> DEFINE user == Stamped(my[c].call.user)
<1>1. my[c].call.user \in UserRecords
  BY <1>0 DEF Fits, CallFits, AddCalls
<1>2. user \in UserRecords
  BY <1>1, RenewedIsRecord
<1>3. /\ userLock = Nil /\ userLock' = Nil /\ fileLock' = fileLock /\ revision' = revision + 1
      /\ UNCHANGED <<fileTimestamp, fileLock, loader, files, world>> /\ up' = up
  BY DEF AddUser, locks, world
<1>4. CASE Answer(c, "refused") /\ db' = db
  <2>1. "refused" \in Results
    BY DEF Results
  <2>2. /\ [my[c] EXCEPT !.result = "refused"] \in Locals /\ "done" \in Steps
        /\ pc' = [pc EXCEPT ![c] = "done"]
        /\ my' = [my EXCEPT ![c] = [my[c] EXCEPT !.result = "refused"]]
        /\ Fits(c)'
    BY <1>0, <1>3, <1>4, <2>1, AnswerFits
  <2>3. pc[c] # "idle" /\ revision' \in Nat /\ userLock \in {Nil, c} /\ userLock' \in {Nil, c}
    BY <1>0, <1>3
  <2> QED
    BY <1>0, <1>3, <1>4, <2>2, <2>3, ListStep
<1>5. ASSUME CodesFree(db, user), NEW a \in Addrs, Fresh(a),
             db' = AddUserAtPos(db, [addr |-> a, user |-> user], 0),
             Goto(c, "post"), my' = [my EXCEPT ![c].target = [addr |-> a, user |-> user]]
      PROVE  IInv'
  <2> DEFINE obj == [addr |-> a, user |-> user]
             locals == [my[c] EXCEPT !.target = obj]
  <2> HIDE DEF user
  <2>1. obj \in Objects /\ obj.user = user /\ obj.addr = a
    BY <1>2 DEF Objects
  <2>2. db.user2index[obj.addr] = 0
    BY <1>5, <2>1, FreshIsUnused
  <2>3. my' = [my EXCEPT ![c].target = obj] /\ db' = AddUserAtPos(db, obj, 0)
    BY <1>5
  <2> HIDE DEF obj
  <2>4. AddUserAtPos(db, obj, 0) \in Databases /\ IndexesAgree(AddUserAtPos(db, obj, 0))
    BY <1>0, <1>5, <2>1, <2>2, AddAgrees
  <2>5. /\ pc' = [pc EXCEPT ![c] = "post"] /\ pc'[c] = "post" /\ "post" \in Steps
        /\ my' = [my EXCEPT ![c] = locals] /\ my'[c] = locals
    BY <1>0, <1>5, <2>3 DEF Goto, Steps
  <2>6. /\ locals \in Locals /\ locals.call = my[c].call /\ locals.phase = my[c].phase
        /\ locals.target = obj
    BY <1>0, <2>1 DEF Locals
  <2> HIDE DEF locals
  <2>7. Fits(c)'
    BY <1>0, <1>3, <2>1, <2>5, <2>6 DEF Fits, LocalsOK, CallFits, LocksHeld
  <2>8. pc[c] # "idle" /\ revision' \in Nat /\ userLock \in {Nil, c} /\ userLock' \in {Nil, c}
    BY <1>0, <1>3
  <2> QED
    BY <1>0, <1>3, <2>3, <2>4, <2>5, <2>6, <2>7, <2>8, ListStep
<1> QED
  BY <1>4, <1>5 DEF AddUser

LEMMA NotModifiedKeeps == ASSUME IInv, NEW c \in Clients, NotModified(c) PROVE IInv'
<1>1. /\ pc[c] = "modify" /\ Answer(c, "refused") /\ "refused" \in Results
      /\ UNCHANGED <<memory, locks, loader, files, world>>
  BY DEF NotModified, Results
<1> QED
  BY <1>1, AnswerKeeps

LEMMA ReplaceDeleteKeeps == ASSUME IInv, NEW c \in Clients, ReplaceDelete(c) PROVE IInv'
<1> DEFINE old == my[c].target
           new == Updated(old.user, my[c].call.updater)
           pos == IndexOf(db, old)
           locals == [my[c] EXCEPT !.slot = pos, !.target = [old EXCEPT !.user = new]]
<1>0. /\ pc[c] = "modify" /\ my[c] \in Locals /\ Fits(c) /\ up = "up" /\ my[c].call \in Requests
      /\ pc \in [Clients -> Steps] /\ my \in [Clients -> Locals]
      /\ db \in Databases /\ IndexesAgree(db) /\ revision \in Nat
  BY InCall DEF ReplaceDelete, IInv, ClientsOK, MemoryOK, IndexConsistent
<1>1. /\ my[c].call.op = "update" /\ ~Declines(my[c].call.updater)
      /\ userLock = Nil /\ userLock' = c /\ revision' = revision + 1
      /\ db' = DeleteUserFrom(db, old)
      /\ pc' = [pc EXCEPT ![c] = "replace"]
      /\ UNCHANGED <<fileTimestamp, fileLock, loader, files, world>>
  BY DEF ReplaceDelete, Goto
<1>2. old \in Objects /\ my[c].call \in UpdateCalls
  BY <1>0, <1>1 DEF Fits, CallFits, DeleteCalls
<1>3. new \in UserRecords
  <2>1. old.user \in UserRecords /\ my[c].call.updater \in Updaters
    BY <1>2 DEF Objects, UpdateCalls
  <2> QED
    BY <1>1, <2>1, RenewedIsRecord
<1>4. PICK d \in Databases : /\ d = DeleteUserFrom(db, old) /\ IndexesAgree(d) /\ pos \in Nat
                             /\ pos # 0 => pos \in DOMAIN d.userList /\ d.userList[pos] = Nil
  BY <1>0, <1>2, DeleteAgrees
<1>5. my' = [my EXCEPT ![c] = locals]
  <2>1. my' = [my EXCEPT ![c].slot = pos, ![c].target.user = new]
    BY DEF ReplaceDelete
  <2> HIDE DEF pos, new
  <2> QED
    BY <1>0, <2>1
<1>6. [old EXCEPT !.user = new] \in Objects
  BY <1>2, <1>3 DEF Objects
<1> HIDE DEF pos, new
<1>7. /\ locals \in Locals /\ locals.call = my[c].call /\ locals.phase = my[c].phase
      /\ locals.slot = pos /\ locals.target \in Objects
  BY <1>0, <1>4, <1>6 DEF Locals
<1>8. pc'[c] = "replace" /\ my'[c] = locals /\ "replace" \in Steps /\ up' = up
  BY <1>0, <1>1, <1>5 DEF Steps, world
<1> HIDE DEF locals
<1>9. Fits(c)'
  BY <1>0, <1>1, <1>4, <1>7, <1>8 DEF Fits, LocalsOK, CallFits, LocksHeld
<1>10. pc[c] # "idle" /\ revision' \in Nat /\ userLock \in {Nil, c} /\ userLock' \in {Nil, c}
  BY <1>0, <1>1
<1> QED
  BY <1>0, <1>1, <1>4, <1>5, <1>7, <1>8, <1>9, <1>10, ListStep

LEMMA ReplaceAddKeeps == ASSUME IInv, NEW c \in Clients, ReplaceAdd(c) PROVE IInv'
<1> DEFINE user == my[c].target.user
<1>0. /\ pc[c] = "replace" /\ my[c] \in Locals /\ Fits(c) /\ up = "up" /\ my[c].call \in Requests
      /\ pc \in [Clients -> Steps] /\ my \in [Clients -> Locals] /\ my = [my EXCEPT ![c] = my[c]]
      /\ db \in Databases /\ IndexesAgree(db) /\ revision \in Nat
  BY InCall DEF ReplaceAdd, IInv, ClientsOK, MemoryOK, IndexConsistent
<1>1. /\ userLock' = Nil /\ revision' = revision
      /\ UNCHANGED <<fileTimestamp, fileLock, loader, files, world>> /\ up' = up
  BY DEF ReplaceAdd, world
<1>2. /\ userLock = c /\ user \in UserRecords /\ my[c].target \in Objects /\ my[c].slot \in Nat
      /\ my[c].slot # 0 => /\ my[c].slot \in DOMAIN db.userList
                           /\ db.userList[my[c].slot] = Nil
  BY <1>0 DEF Fits, LocksHeld, LocalsOK, Locals, Objects
<1>3. pc[c] # "idle" /\ revision' \in Nat /\ userLock \in {Nil, c} /\ userLock' \in {Nil, c}
  BY <1>0, <1>1, <1>2
<1>4. CASE Answer(c, "refused") /\ db' = db
  <2>1. "refused" \in Results
    BY DEF Results
  <2>2. /\ [my[c] EXCEPT !.result = "refused"] \in Locals /\ "done" \in Steps
        /\ pc' = [pc EXCEPT ![c] = "done"]
        /\ my' = [my EXCEPT ![c] = [my[c] EXCEPT !.result = "refused"]]
        /\ Fits(c)'
    BY <1>0, <1>1, <1>4, <2>1, AnswerFits
  <2> QED
    BY <1>0, <1>1, <1>3, <1>4, <2>2, ListStep
<1>5. ASSUME CodesFree(db, user), NEW a \in Addrs, Fresh(a),
             db' = AddUserAtPos(db, [addr |-> a, user |-> user], my[c].slot),
             Goto(c, "post"), my' = my
      PROVE  IInv'
  <2> DEFINE obj == [addr |-> a, user |-> user]
  <2>1. obj \in Objects /\ obj.user = user /\ obj.addr = a
    BY <1>2 DEF Objects
  <2>2. db.user2index[obj.addr] = 0
    BY <1>5, <2>1, FreshIsUnused
  <2>3. db' = AddUserAtPos(db, obj, my[c].slot)
    BY <1>5
  <2> HIDE DEF obj, user
  <2>4. PICK d \in Databases : d = AddUserAtPos(db, obj, my[c].slot) /\ IndexesAgree(d)
    BY <1>0, <1>2, <1>5, <2>1, <2>2, AddAgrees
  <2>5. "post" \in Steps
    BY DEF Steps
  <2>6. pc' = [pc EXCEPT ![c] = "post"] /\ my' = [my EXCEPT ![c] = my[c]] /\ Fits(c)'
    BY <1>0, <1>1, <1>2, <1>5, <2>5, GotoFits
  <2> QED
    BY <1>0, <1>1, <1>3, <2>3, <2>4, <2>5, <2>6, ListStep
<1> QED
  BY <1>4, <1>5 DEF ReplaceAdd

LEMMA DeleteUserKeeps == ASSUME IInv, NEW c \in Clients, DeleteUser(c) PROVE IInv'
<1>0. /\ pc[c] = "modify" /\ my[c] \in Locals /\ Fits(c) /\ up = "up" /\ my[c].call \in Requests
      /\ my = [my EXCEPT ![c] = my[c]] /\ my[c].call.op = "delete"
      /\ db \in Databases /\ IndexesAgree(db) /\ revision \in Nat
  BY InCall DEF DeleteUser, IInv, ClientsOK, MemoryOK, IndexConsistent
<1>1. /\ userLock = Nil /\ userLock' = Nil /\ revision' = revision + 1
      /\ db' = DeleteUserFrom(db, my[c].target)
      /\ UNCHANGED <<fileTimestamp, fileLock, loader, files, world>> /\ up' = up
  BY DEF DeleteUser, locks, world
<1>2. my[c].target \in Objects \cup {Nil}
  BY <1>0 DEF Locals
<1>3. PICK d \in Databases : db' = d /\ IndexesAgree(d)
  BY <1>0, <1>1, <1>2, DeleteAgrees
<1>4. pc[c] # "idle" /\ revision' \in Nat /\ userLock \in {Nil, c} /\ userLock' \in {Nil, c}
  BY <1>0, <1>1
<1>5. CASE Answer(c, "refused")
  <2>1. "refused" \in Results
    BY DEF Results
  <2>2. /\ [my[c] EXCEPT !.result = "refused"] \in Locals /\ "done" \in Steps
        /\ pc' = [pc EXCEPT ![c] = "done"]
        /\ my' = [my EXCEPT ![c] = [my[c] EXCEPT !.result = "refused"]]
        /\ Fits(c)'
    BY <1>0, <1>1, <1>5, <2>1, AnswerFits
  <2> QED
    BY <1>0, <1>1, <1>3, <1>4, <2>2, ListStep
<1>6. CASE Goto(c, "post") /\ my' = my
  <2>1. "post" \in Steps
    BY DEF Steps
  <2>2. pc' = [pc EXCEPT ![c] = "post"] /\ my' = [my EXCEPT ![c] = my[c]] /\ Fits(c)'
    BY <1>0, <1>1, <1>6, <2>1, GotoFits
  <2> QED
    BY <1>0, <1>1, <1>3, <1>4, <2>1, <2>2, ListStep
<1> QED
  BY <1>5, <1>6 DEF DeleteUser

-----------------------------------------------------------------------------
(* Writing the file. *)

LEMMA PutFileTypes ==
  ASSUME FilesOK, NEW i \in Inodes, NEW lines \in Seq(Lines), PutFile(i, lines)
  PROVE  disk' \in [Inodes -> [lines: Seq(Lines), mtime: Nat]] /\ mtimes' \in Nat
<1>1. mtimes + 1 \in Nat /\ disk \in [Inodes -> [lines: Seq(Lines), mtime: Nat]]
  BY DEF FilesOK
<1> QED
  BY <1>1 DEF PutFile

\* A step that writes: what is left to show.
LEMMA WritingStep ==
  ASSUME IInv, NEW c \in Clients, NEW step \in Steps, NEW locals \in Locals, pc[c] # "idle",
         pc' = [pc EXCEPT ![c] = step], my' = [my EXCEPT ![c] = locals], Fits(c)',
         FilesOK', fileTimestamp' \in Nat,
         fileLock \in {Nil, c}, fileLock' \in {Nil, c},
         UNCHANGED <<db, revision, userLock, loader, world>>
  PROVE  IInv'
<1>0. up = "up" /\ MemoryOK /\ LoaderOK /\ FilesOK /\ WorldOK /\ IndexConsistent
  BY InCall DEF IInv
<1>1. MemoryOK' /\ LoaderOK' /\ WorldOK' /\ up' = up
  BY <1>0 DEF MemoryOK, LoaderOK, WorldOK, loader, world, counts
<1>2. IndexConsistent'
  BY <1>0 DEF IndexConsistent, loader
<1>3. db' = db /\ userLock' = userLock
  OBVIOUS
<1> QED
  BY <1>0, <1>1, <1>2, <1>3, ClientStep

\* A step that writes a file without any lock.
LEMMA DumpingStep ==
  ASSUME IInv, NEW c \in Clients, NEW step \in Steps, NEW locals \in Locals, pc[c] # "idle",
         pc' = [pc EXCEPT ![c] = step], my' = [my EXCEPT ![c] = locals], Fits(c)',
         FilesOK', UNCHANGED <<memory, locks, loader, world>>
  PROVE  IInv'
<1>0. up = "up" /\ MemoryOK /\ LoaderOK /\ FilesOK /\ WorldOK /\ IndexConsistent
  BY InCall DEF IInv
<1>1. MemoryOK' /\ LoaderOK' /\ WorldOK' /\ up' = up
  BY <1>0 DEF MemoryOK, LoaderOK, WorldOK, memory, locks, loader, world, counts
<1>2. IndexConsistent'
  BY <1>0 DEF IndexConsistent, memory, loader
<1>3. db' = db /\ userLock' = userLock /\ fileLock' = fileLock /\ reading' = reading
  BY DEF memory, locks, loader
<1> QED
  BY <1>0, <1>1, <1>2, <1>3, ClientStep

LEMMA AppendEntryKeeps == ASSUME IInv, NEW c \in Clients, AppendEntry(c) PROVE IInv'
<1> DEFINE lines == disk[usersFile].lines
           row == WriteCSV(my[c].target.user)
<1>0. /\ pc[c] = "append" /\ my[c] \in Locals /\ Fits(c) /\ up = "up" /\ my[c].call \in Requests
      /\ pc \in [Clients -> Steps] /\ my = [my EXCEPT ![c] = my[c]] /\ FilesOK /\ MemoryOK
  BY InCall DEF AppendEntry, IInv, ClientsOK
<1>1. /\ fileLock = Nil /\ fileLock' = c
      /\ PutFile(usersFile, Append(lines, row)) \/ PutFile(usersFile, lines)
      /\ pc' = [pc EXCEPT ![c] = "stamp"] /\ my' = my /\ up' = up
      /\ usersFile' = usersFile /\ tmpFile' = tmpFile /\ editing' = editing
      /\ UNCHANGED <<db, revision, userLock, loader, world>> /\ fileTimestamp' = fileTimestamp
  BY DEF AppendEntry, Goto, memory, world
<1>2. my[c].target.user \in UserRecords
  BY <1>0 DEF Fits, LocalsOK, Objects
<1>3. lines \in Seq(Lines) /\ row \in Lines /\ usersFile \in Inodes
  BY <1>0, <1>2, UserIsLine DEF FilesOK
<1> HIDE DEF lines, row
<1>4. Append(lines, row) \in Seq(Lines)
  BY <1>3
<1>5. FilesOK'
  BY <1>0, <1>1, <1>3, <1>4, PutFileTypes DEF FilesOK
<1>6. pc'[c] = "stamp" /\ "stamp" \in Steps
  BY <1>0, <1>1 DEF Steps
<1>7. Fits(c)'
  BY <1>0, <1>1, <1>6 DEF Fits, LocalsOK, CallFits, LocksHeld
<1>8. pc[c] # "idle" /\ fileTimestamp' \in Nat /\ fileLock \in {Nil, c} /\ fileLock' \in {Nil, c}
  BY <1>0, <1>1 DEF MemoryOK
<1> QED
  BY <1>0, <1>1, <1>5, <1>6, <1>7, <1>8, WritingStep

LEMMA AppendFailsKeeps == ASSUME IInv, NEW c \in Clients, AppendFails(c) PROVE IInv'
<1>1. /\ pc[c] = "append" /\ Answer(c, "refused") /\ "refused" \in Results
      /\ UNCHANGED <<memory, locks, loader, files, world>>
  BY DEF AppendFails, Results
<1> QED
  BY <1>1, AnswerKeeps

LEMMA CreateTempKeeps == ASSUME IInv, NEW c \in Clients, CreateTemp(c) PROVE IInv'
<1>0. /\ pc[c] = "create" /\ my[c] \in Locals /\ Fits(c) /\ up = "up" /\ my[c].call \in Requests
      /\ pc \in [Clients -> Steps] /\ my \in [Clients -> Locals] /\ FilesOK
      /\ db.userList \in Seq(Objects \cup {Nil})
  BY InCall DEF CreateTemp, IInv, ClientsOK, MemoryOK, Databases
<1>1. PICK i \in Inodes :
        /\ PutFile(i, <<>>) /\ tmpFile' = i
        /\ my' = [my EXCEPT ![c].fd = i, ![c].dump = db.userList]
  BY DEF CreateTemp
<1>2. /\ pc' = [pc EXCEPT ![c] = "write"] /\ up' = up
      /\ usersFile' = usersFile /\ editing' = editing
      /\ UNCHANGED <<memory, locks, loader, world>>
  BY DEF CreateTemp, Goto, world
<1>3. <<>> \in Seq(Lines)
  OBVIOUS
<1>4. FilesOK'
  BY <1>0, <1>1, <1>2, <1>3, PutFileTypes DEF FilesOK
<1> DEFINE locals == [my[c] EXCEPT !.fd = i, !.dump = db.userList]
<1>5. my' = [my EXCEPT ![c] = locals]
  BY <1>0, <1>1
<1>6. /\ locals \in Locals /\ locals.call = my[c].call /\ locals.phase = my[c].phase
      /\ locals.fd = i
  BY <1>0 DEF Locals
<1>7. pc'[c] = "write" /\ my'[c] = locals /\ "write" \in Steps
  BY <1>0, <1>2, <1>5 DEF Steps
<1> HIDE DEF locals
<1>8. Fits(c)'
  BY <1>0, <1>2, <1>6, <1>7 DEF Fits, LocalsOK, CallFits, LocksHeld
<1>9. pc[c] # "idle"
  BY <1>0
<1> QED
  BY <1>2, <1>4, <1>5, <1>6, <1>7, <1>8, <1>9, DumpingStep

LEMMA CreateFailsKeeps == ASSUME IInv, NEW c \in Clients, CreateFails(c) PROVE IInv'
<1>1. /\ pc[c] = "create" /\ Answer(c, "refused") /\ "refused" \in Results /\ up' = up
      /\ tmpFile' \in {tmpFile, 0}
      /\ UNCHANGED <<memory, locks, loader, disk, usersFile, mtimes, editing, world>>
  BY DEF CreateFails, Results, world
<1>2. FilesOK'
  BY <1>1 DEF IInv, FilesOK
<1>3. pc[c] # "idle"
  BY <1>1
<1> QED
  BY <1>1, <1>2, <1>3, AnswerFits, DumpingStep

\* The dump gets shorter: a row written, or none from here on.
LEMMA DumpFits ==
  ASSUME IInv, NEW c \in Clients, pc[c] = "write", NEW rest \in Seq(Objects \cup {Nil}),
         my' = [my EXCEPT ![c].dump = rest], FilesOK', UNCHANGED <<memory, locks, loader, pc, world>>
  PROVE  IInv'
<1> DEFINE locals == [my[c] EXCEPT !.dump = rest]
<1>0. /\ my[c] \in Locals /\ Fits(c) /\ up = "up" /\ my[c].call \in Requests
      /\ pc \in [Clients -> Steps] /\ my \in [Clients -> Locals] /\ up' = up
  BY InCall DEF IInv, ClientsOK, world
<1>1. my' = [my EXCEPT ![c] = locals] /\ pc' = [pc EXCEPT ![c] = "write"]
  BY <1>0
<1>2. /\ locals \in Locals /\ locals.call = my[c].call /\ locals.phase = my[c].phase
      /\ locals.fd = my[c].fd
  BY <1>0 DEF Locals
<1>3. pc'[c] = "write" /\ my'[c] = locals /\ "write" \in Steps /\ pc[c] # "idle"
  BY <1>0, <1>1 DEF Steps
<1> HIDE DEF locals
<1>4. Fits(c)'
  BY <1>0, <1>2, <1>3 DEF Fits, LocalsOK, CallFits, LocksHeld
<1> QED
  BY <1>1, <1>2, <1>3, <1>4, DumpingStep

LEMMA WriteRowKeeps == ASSUME IInv, NEW c \in Clients, WriteRow(c) PROVE IInv'
<1> DEFINE obj == Head(my[c].dump)
           fd == my[c].fd
           lines == disk[fd].lines
<1>0. /\ pc[c] = "write" /\ my[c].dump \in Seq(Objects \cup {Nil}) /\ my[c].dump # <<>>
      /\ fd \in Inodes /\ FilesOK /\ my \in [Clients -> Locals]
  <2>1. pc[c] = "write" /\ my[c].dump # <<>>
    BY DEF WriteRow
  <2> QED
    BY <2>1, InCall DEF Fits, LocalsOK, Locals, IInv, ClientsOK
<1>1. obj \in Objects \cup {Nil} /\ Tail(my[c].dump) \in Seq(Objects \cup {Nil})
  BY <1>0
<1>2. /\ my' = [my EXCEPT ![c].dump = Tail(my[c].dump)]
      /\ usersFile' = usersFile /\ tmpFile' = tmpFile /\ editing' = editing
      /\ UNCHANGED <<memory, locks, loader, pc, world>>
  BY <1>0 DEF WriteRow
<1>3. \/ disk' = disk /\ mtimes' = mtimes
      \/ obj # Nil /\ PutFile(fd, Append(lines, WriteCSV(obj.user)))
  BY DEF WriteRow
<1>4. lines \in Seq(Lines)
  BY <1>0 DEF FilesOK
<1> HIDE DEF obj, fd, lines
<1>5. CASE disk' = disk /\ mtimes' = mtimes
  BY <1>0, <1>1, <1>2, <1>5, DumpFits DEF FilesOK
<1>6. CASE obj # Nil /\ PutFile(fd, Append(lines, WriteCSV(obj.user)))
  <2>1. obj.user \in UserRecords
    BY <1>1, <1>6 DEF Objects
  <2>2. WriteCSV(obj.user) \in Lines
    BY <2>1, UserIsLine
  <2>3. Append(lines, WriteCSV(obj.user)) \in Seq(Lines)
    BY <1>4, <2>2
  <2>4. FilesOK'
    BY <1>0, <1>2, <1>6, <2>3, PutFileTypes DEF FilesOK
  <2> QED
    BY <1>0, <1>1, <1>2, <2>4, DumpFits
<1> QED
  BY <1>3, <1>5, <1>6

LEMMA DiskFullKeeps == ASSUME IInv, NEW c \in Clients, DiskFull(c) PROVE IInv'
<1>1. /\ pc[c] = "write" /\ my' = [my EXCEPT ![c].dump = <<>>]
      /\ UNCHANGED <<memory, locks, loader, pc, world>> /\ UNCHANGED files
  BY DEF DiskFull
<1>2. FilesOK' /\ <<>> \in Seq(Objects \cup {Nil})
  BY <1>1 DEF IInv, FilesOK, files
<1> QED
  BY <1>1, <1>2, DumpFits

LEMMA RenameTempKeeps == ASSUME IInv, NEW c \in Clients, RenameTemp(c) PROVE IInv'
<1> DEFINE locals == [my[c] EXCEPT !.fd = 0]
<1>0. /\ pc[c] = "write" /\ my[c] \in Locals /\ Fits(c) /\ up = "up" /\ my[c].call \in Requests
      /\ pc \in [Clients -> Steps] /\ my \in [Clients -> Locals] /\ FilesOK /\ MemoryOK
  BY InCall DEF RenameTemp, IInv, ClientsOK
<1>1. /\ fileLock = Nil /\ fileLock' = c
      /\ usersFile' = (IF tmpFile # 0 THEN tmpFile ELSE usersFile) /\ tmpFile' = 0
      /\ my' = [my EXCEPT ![c].fd = 0]
      /\ pc' = [pc EXCEPT ![c] = "stamp"] /\ up' = up
      /\ disk' = disk /\ mtimes' = mtimes /\ editing' = editing
      /\ UNCHANGED <<db, revision, userLock, loader, world>> /\ fileTimestamp' = fileTimestamp
  BY DEF RenameTemp, Goto, memory, world
<1>2. FilesOK'
  BY <1>0, <1>1 DEF FilesOK
<1>3. my' = [my EXCEPT ![c] = locals]
  BY <1>0, <1>1
<1>4. locals \in Locals /\ locals.call = my[c].call /\ locals.phase = my[c].phase
  BY <1>0 DEF Locals
<1>5. pc'[c] = "stamp" /\ my'[c] = locals /\ "stamp" \in Steps
  BY <1>0, <1>1, <1>3 DEF Steps
<1> HIDE DEF locals
<1>6. Fits(c)'
  BY <1>0, <1>1, <1>4, <1>5 DEF Fits, LocalsOK, CallFits, LocksHeld
<1>7. pc[c] # "idle" /\ fileTimestamp' \in Nat /\ fileLock \in {Nil, c} /\ fileLock' \in {Nil, c}
  BY <1>0, <1>1 DEF MemoryOK
<1> QED
  BY <1>1, <1>2, <1>3, <1>4, <1>5, <1>6, <1>7, WritingStep

LEMMA StampKeeps == ASSUME IInv, NEW c \in Clients, Stamp(c) PROVE IInv'
<1>0. pc[c] = "stamp" /\ Fits(c) /\ FilesOK
  BY InCall DEF Stamp, IInv
<1>1. /\ fileTimestamp' = UsersMtime /\ fileLock' = Nil /\ Answer(c, "ok") /\ "ok" \in Results
      /\ up' = up /\ UNCHANGED files
      /\ UNCHANGED <<db, revision, userLock, loader, world>>
  BY DEF Stamp, world, Results
<1>2. fileLock = c
  BY <1>0 DEF Fits, LocksHeld
<1>3. /\ [my[c] EXCEPT !.result = "ok"] \in Locals /\ "done" \in Steps
      /\ pc' = [pc EXCEPT ![c] = "done"]
      /\ my' = [my EXCEPT ![c] = [my[c] EXCEPT !.result = "ok"]]
      /\ Fits(c)'
  BY <1>0, <1>1, AnswerFits
<1>4. FilesOK'
  BY <1>0, <1>1 DEF FilesOK, files
<1>5. pc[c] # "idle" /\ fileTimestamp' \in Nat /\ fileLock \in {Nil, c} /\ fileLock' \in {Nil, c}
  BY <1>0, <1>1, <1>2 DEF FilesOK, UsersMtime
<1> QED
  BY <1>1, <1>3, <1>4, <1>5, WritingStep

-----------------------------------------------------------------------------
(* The life of the process. *)

\* Nobody is in a call unless the process is up.
LEMMA NotUpIsIdle ==
  ASSUME IInv, up # "up"
  PROVE  \A c \in Clients : pc[c] = "idle"
BY DEF IInv, Fits, LocalsOK

\* A step of somebody else that leaves the calls alone.
LEMMA SurroundingStep ==
  ASSUME IInv, MemoryOK', LoaderOK', FilesOK', WorldOK', IndexConsistent',
         up' = "starting" => reading' \in Inodes,
         UNCHANGED clients,
         \/ \A c \in Clients : pc[c] = "idle"
         \/ UNCHANGED <<db, fileLock, userLock, reading, up>>
  PROVE  IInv'
<1>1. pc' = pc /\ my' = my /\ ClientsOK'
  BY DEF clients, IInv, ClientsOK
<1>2. ASSUME NEW c \in Clients PROVE Fits(c)'
  <2>1. Fits(c)
    BY DEF IInv
  <2>2. CASE pc[c] = "idle"
    BY <1>1, <2>1, <2>2 DEF Fits, LocalsOK, CallFits, LocksHeld
  <2>3. CASE UNCHANGED <<db, fileLock, userLock, reading, up>>
    BY <1>1, <2>1, <2>3 DEF Fits, LocalsOK, CallFits, LocksHeld
  <2> QED
    BY <2>2, <2>3
<1> QED
  BY <1>1, <1>2 DEF IInv

LEMMA DieKeeps ==
  ASSUME IInv, Die, crashes' \in 0..MaxCrashes
  PROVE  IInv'
<1>0. FilesOK /\ WorldOK
  BY DEF IInv
<1>1. /\ up' = "down" /\ db' = EmptyDb /\ revision' = 0 /\ fileTimestamp' = 0
      /\ fileLock' = Nil /\ userLock' = Nil /\ EndReading
      /\ pc' = [c \in Clients |-> "idle"] /\ my' = [c \in Clients |-> NoLocals]
      /\ UNCHANGED <<files, now, changes, edits>>
  BY DEF Die
<1>2. MemoryOK'
  BY <1>1, EmptyAgrees DEF MemoryOK
<1>3. FilesOK' /\ WorldOK'
  BY <1>0, <1>1 DEF FilesOK, WorldOK, files
<1>4. LoaderOK' /\ IndexesAgree(newAuth)'
  BY <1>1, EndReadingIs
<1>5. IndexConsistent'
  BY <1>1, <1>4, EmptyAgrees DEF IndexConsistent
<1>6. NoLocals \in Locals /\ "idle" \in Steps
  BY DEF NoLocals, Locals, Phases, Results, Steps
<1>7. ClientsOK'
  BY <1>1, <1>6 DEF ClientsOK
<1>8. \A c \in Clients : Fits(c)'
  BY <1>1 DEF Fits, LocalsOK, CallFits, LocksHeld, NoLocals
<1> QED
  BY <1>1, <1>2, <1>3, <1>4, <1>5, <1>7, <1>8 DEF IInv

LEMMA PanickingKeeps == ASSUME IInv, NEW c \in Clients, Panicking(c) PROVE IInv'
BY DieKeeps DEF Panicking, UpdatePanics, StatPanics, IInv, WorldOK

LEMMA CrashKeeps == ASSUME IInv, Crash PROVE IInv'
<1>1. crashes' \in 0..MaxCrashes /\ Die
  BY Constants DEF Crash, IInv, WorldOK
<1> QED
  BY <1>1, DieKeeps

LEMMA ProcessKeeps == ASSUME IInv, Process PROVE IInv'
<1>0. MemoryOK /\ LoaderOK /\ FilesOK /\ WorldOK /\ IndexConsistent /\ (up = "starting" => reading \in Inodes)
  BY DEF IInv
<1>1. CASE Start
  <2>1. /\ up = "down" /\ up' = "starting" /\ newAuth' = EmptyDb /\ reading' = usersFile /\ readPos' = 0
        /\ newTimestamp' = UsersMtime /\ UNCHANGED clients /\ db' = db
        /\ UNCHANGED <<memory, locks, files, now, counts>>
    BY <1>1 DEF Start, BeginReading, memory
  <2>2. MemoryOK' /\ FilesOK' /\ WorldOK'
    BY <1>0, <2>1 DEF MemoryOK, FilesOK, WorldOK, memory, locks, files, counts
  <2>3. LoaderOK' /\ reading' \in Inodes
    BY <1>0, <2>1, EmptyAgrees DEF LoaderOK, FilesOK, UsersMtime
  <2>4. IndexConsistent'
    BY <1>0, <2>1, EmptyAgrees DEF IndexConsistent
  <2>5. \A c \in Clients : pc[c] = "idle"
    BY <2>1, NotUpIsIdle
  <2> QED
    BY <2>1, <2>2, <2>3, <2>4, <2>5, SurroundingStep
<1>2. CASE StartLine
  <2>1. /\ up = "starting" /\ up' = up /\ ReadLine /\ UNCHANGED clients /\ db' = db
        /\ UNCHANGED <<memory, locks, files, world>>
    BY <1>2 DEF StartLine, memory, world
  <2>2. MemoryOK' /\ FilesOK' /\ WorldOK'
    BY <1>0, <2>1 DEF MemoryOK, FilesOK, WorldOK, memory, locks, files, world, counts
  <2>3. LoaderOK' /\ IndexesAgree(newAuth)' /\ reading' \in Inodes
    BY <1>0, <2>1, ReadLineKeeps
  <2>4. IndexConsistent'
    BY <1>0, <2>1, <2>3 DEF IndexConsistent
  <2>5. \A c \in Clients : pc[c] = "idle"
    BY <2>1, NotUpIsIdle
  <2> QED
    BY <2>1, <2>2, <2>3, <2>4, <2>5, SurroundingStep
<1>3. CASE Started
  <2>1. /\ up = "starting" /\ up' = "up" /\ db' = newAuth /\ fileTimestamp' = newTimestamp /\ EndReading
        /\ revision' = revision /\ UNCHANGED clients
        /\ UNCHANGED <<locks, files, now, counts>>
    BY <1>3 DEF Started
  <2>2. MemoryOK' /\ FilesOK' /\ WorldOK'
    BY <1>0, <2>1 DEF MemoryOK, LoaderOK, FilesOK, WorldOK, locks, files, counts
  <2>3. LoaderOK' /\ IndexesAgree(newAuth)'
    BY <2>1, EndReadingIs
  <2>4. IndexConsistent'
    BY <1>0, <2>1, <2>3 DEF IndexConsistent
  <2>5. \A c \in Clients : pc[c] = "idle"
    BY <2>1, NotUpIsIdle
  <2> QED
    BY <2>1, <2>2, <2>3, <2>4, <2>5, SurroundingStep
<1> QED
  BY <1>1, <1>2, <1>3 DEF Process

-----------------------------------------------------------------------------
(* What goes on around the process. *)

\* What an edit leaves is a file.
LEMMA EditsAreFiles ==
  ASSUME NEW lines \in Seq(Lines)
  PROVE  EditsOf(lines) \subseteq Seq(Lines)
<1>1. ASSUME NEW i \in DOMAIN lines PROVE Without(lines, i) \in Seq(Lines)
  <2>1. Len(lines) - 1 \in Nat
    BY <1>1
  <2>2. \A j \in 1..(Len(lines) - 1) : (IF j < i THEN lines[j] ELSE lines[j + 1]) \in Lines
    BY <1>1
  <2> DEFINE n == Len(lines) - 1
  <2>3. Without(lines, i) \in [1..n -> Lines]
    BY <2>2 DEF Without
  <2> HIDE DEF n
  <2>4. n \in Nat
    BY <2>1 DEF n
  <2> QED
    BY <2>3, <2>4
<1>2. ASSUME NEW line \in HandEdits PROVE Append(lines, line) \in Seq(Lines)
  BY Constants
<1>3. ASSUME NEW i \in DOMAIN lines PROVE [lines EXCEPT ![i] = WithContact(lines[i])] \in Seq(Lines)
  <2>1. lines[i] \in Lines
    OBVIOUS
  <2>2. CASE lines[i] \in {Garbled, ShortRow}
    BY <2>1, <2>2 DEF WithContact
  <2>3. CASE lines[i] \notin {Garbled, ShortRow}
    <3>1. lines[i] \in Columns
      BY <2>1, <2>3 DEF Lines
    <3>2. [lines[i] EXCEPT !.contact = TRUE] \in Columns
      BY <3>1 DEF Columns
    <3>3. WithContact(lines[i]) \in Lines
      BY <2>3, <3>2 DEF WithContact, Lines
    <3> QED
      BY <3>3
  <2> QED
    BY <2>2, <2>3
<1> QED
  BY <1>1, <1>2, <1>3 DEF EditsOf

LEMMA TickKeeps == ASSUME IInv, Tick PROVE IInv'
<1>0. MemoryOK /\ LoaderOK /\ FilesOK /\ WorldOK /\ IndexConsistent /\ (up = "starting" => reading \in Inodes)
  BY DEF IInv
<1>1. now' \in Instants /\ UNCHANGED <<memory, locks, loader, files, clients, up, counts>>
  BY DEF Tick
<1>2. MemoryOK' /\ LoaderOK' /\ FilesOK' /\ WorldOK' /\ IndexConsistent'
  BY <1>0, <1>1 DEF MemoryOK, LoaderOK, FilesOK, WorldOK, IndexConsistent, memory, locks, loader, files, counts
<1>3. UNCHANGED <<db, fileLock, userLock, reading, up>> /\ UNCHANGED clients
  BY <1>1 DEF memory, locks, loader
<1> QED
  BY <1>0, <1>2, <1>3, SurroundingStep

\* An edit only concerns the files.
LEMMA EditStep ==
  ASSUME IInv, FilesOK', edits' \in 0..MaxEdits,
         UNCHANGED <<memory, locks, loader, clients, up, now, changes, crashes>>
  PROVE  IInv'
<1>0. MemoryOK /\ LoaderOK /\ FilesOK /\ WorldOK /\ IndexConsistent /\ (up = "starting" => reading \in Inodes)
  BY DEF IInv
<1>1. MemoryOK' /\ LoaderOK' /\ WorldOK' /\ IndexConsistent'
  BY <1>0 DEF MemoryOK, LoaderOK, WorldOK, IndexConsistent, memory, locks, loader
<1>2. UNCHANGED <<db, fileLock, userLock, reading, up>> /\ UNCHANGED clients
  BY DEF memory, locks, loader
<1> QED
  BY <1>0, <1>1, <1>2, SurroundingStep

LEMMA EditsKeep == ASSUME IInv, EditFile \/ EditBegin \/ EditEnd PROVE IInv'
<1> DEFINE lines == disk[usersFile].lines
<1>0. FilesOK /\ WorldOK
  BY DEF IInv
<1>1. lines \in Seq(Lines) /\ usersFile \in Inodes /\ EditsOf(lines) \subseteq Seq(Lines)
  <2>1. lines \in Seq(Lines)
    BY <1>0 DEF FilesOK
  <2> QED
    BY <1>0, <2>1, EditsAreFiles DEF FilesOK
<1>2. ASSUME EditStarts
      PROVE  /\ edits' \in 0..MaxEdits /\ tmpFile' = tmpFile /\ editing = Nil
             /\ UNCHANGED <<memory, locks, loader, clients, up, now, changes, crashes>>
  BY <1>0, <1>2, Constants DEF EditStarts, WorldOK
<1>3. CASE EditFile
  <2>1. PICK i \in Inodes, new \in EditsOf(lines) : PutFile(i, new) /\ usersFile' = i
    BY <1>3 DEF EditFile
  <2>2. EditStarts /\ editing' = editing
    BY <1>3 DEF EditFile
  <2>3. new \in Seq(Lines)
    BY <1>1, <2>1
  <2>4. FilesOK'
    BY <1>0, <1>2, <2>1, <2>2, <2>3, PutFileTypes DEF FilesOK
  <2> QED
    BY <1>2, <2>2, <2>4, EditStep
<1>4. CASE EditBegin
  <2>1. EditStarts /\ editing' \in EditsOf(lines) /\ PutFile(usersFile, <<>>) /\ usersFile' = usersFile
    BY <1>4 DEF EditBegin
  <2>2. <<>> \in Seq(Lines)
    OBVIOUS
  <2>3. FilesOK'
    BY <1>0, <1>1, <1>2, <2>1, <2>2, PutFileTypes DEF FilesOK
  <2> QED
    BY <1>2, <2>1, <2>3, EditStep
<1>5. CASE EditEnd
  <2>1. /\ editing # Nil /\ PutFile(usersFile, editing) /\ editing' = Nil
        /\ usersFile' = usersFile /\ tmpFile' = tmpFile
        /\ UNCHANGED <<memory, locks, loader, clients, world>>
    BY <1>5 DEF EditEnd
  <2>2. FilesOK'
    BY <1>0, <1>1, <2>1, PutFileTypes DEF FilesOK
  <2>3. /\ edits' \in 0..MaxEdits
        /\ UNCHANGED <<memory, locks, loader, clients, up, now, changes, crashes>>
    BY <1>0, <2>1 DEF world, counts, WorldOK
  <2> QED
    BY <2>2, <2>3, EditStep
<1> QED
  BY <1>3, <1>4, <1>5

-----------------------------------------------------------------------------
(* The theorems. *)

LEMMA InitFits == Init => IInv
<1> SUFFICES ASSUME Init PROVE IInv
  OBVIOUS
<1> USE DEF Init
<1>1. MemoryOK
  BY EmptyAgrees DEF MemoryOK
<1>2. LoaderOK
  BY EmptyAgrees DEF LoaderOK
<1>3. FilesOK
  <2>1. disk = [i \in Inodes |-> IF i = usersFile THEN [lines |-> InitialFile, mtime |-> 1]
                                 ELSE [lines |-> <<>>, mtime |-> 0]]
    OBVIOUS
  <2>2. [lines |-> InitialFile, mtime |-> 1] \in [lines: Seq(Lines), mtime: Nat]
    BY Constants
  <2>3. [lines |-> <<>>, mtime |-> 0] \in [lines: Seq(Lines), mtime: Nat]
    OBVIOUS
  <2>4. disk \in [Inodes -> [lines: Seq(Lines), mtime: Nat]]
    BY <2>1, <2>2, <2>3
  <2> QED
    BY <2>4 DEF FilesOK
<1>4. ClientsOK
  <2>1. NoLocals \in Locals /\ "idle" \in Steps
    BY DEF NoLocals, Locals, Phases, Results, Steps
  <2> QED
    BY <2>1 DEF ClientsOK
<1>5. WorldOK
  BY Constants DEF WorldOK
<1>6. IndexConsistent
  BY EmptyAgrees DEF IndexConsistent
<1>7. \A c \in Clients : Fits(c)
  BY DEF Fits, LocalsOK, CallFits, LocksHeld, NoLocals
<1> QED
  BY <1>1, <1>2, <1>3, <1>4, <1>5, <1>6, <1>7 DEF IInv

LEMMA StutterKeeps == ASSUME IInv, UNCHANGED vars PROVE IInv'
<1>0. MemoryOK /\ LoaderOK /\ FilesOK /\ WorldOK /\ IndexConsistent /\ (up = "starting" => reading \in Inodes)
  BY DEF IInv
<1>1. UNCHANGED <<memory, locks, loader, files, clients, world>>
  BY DEF vars
<1>2. MemoryOK' /\ LoaderOK' /\ FilesOK' /\ WorldOK' /\ IndexConsistent'
  BY <1>0, <1>1
     DEF MemoryOK, LoaderOK, FilesOK, WorldOK, IndexConsistent, memory, locks, loader, files, world, counts
<1>3. UNCHANGED <<db, fileLock, userLock, reading, up>> /\ UNCHANGED clients
  BY <1>1 DEF memory, locks, loader, world
<1> QED
  BY <1>0, <1>2, <1>3, SurroundingStep

LEMMA NextKeeps == IInv /\ [Next]_vars => IInv'
<1> SUFFICES ASSUME IInv, [Next]_vars PROVE IInv'
  OBVIOUS
<1>1. ASSUME NEW c \in Clients, Called(c) PROVE IInv'
  BY <1>1, CalledKeeps
<1>2. ASSUME NEW c \in Clients, Reloading(c) PROVE IInv'
  BY <1>2, ReloadNotNeededKeeps, ReloadFailsKeeps, ReloadOpenKeeps, ReloadStatKeeps,
     ReloadLineKeeps, ReloadSwapKeeps DEF Reloading
<1>3. ASSUME NEW c \in Clients, LookingUp(c) PROVE IInv'
  BY <1>3, LookingUpKeeps DEF LookingUp
<1>4. ASSUME NEW c \in Clients, Changing(c) PROVE IInv'
  BY <1>4, AddUserKeeps, NotModifiedKeeps, ReplaceDeleteKeeps, ReplaceAddKeeps, DeleteUserKeeps
     DEF Changing
<1>5. ASSUME NEW c \in Clients, Writing(c) PROVE IInv'
  BY <1>5, AppendEntryKeeps, AppendFailsKeeps, CreateTempKeeps, CreateFailsKeeps, WriteRowKeeps,
     DiskFullKeeps, RenameTempKeeps, StampKeeps DEF Writing
<1>6. ASSUME NEW c \in Clients, Panicking(c) \/ Return(c) \/ Posting(c) PROVE IInv'
  BY <1>6, PanickingKeeps, ReturnKeeps, PostingKeeps
<1>7. CASE Process
  BY <1>7, ProcessKeeps
<1>8. CASE Surroundings
  BY <1>8, CrashKeeps, TickKeeps, EditsKeep DEF Surroundings
<1>9. CASE UNCHANGED vars
  BY <1>9, StutterKeeps
<1> QED
  BY <1>1, <1>2, <1>3, <1>4, <1>5, <1>6, <1>7, <1>8, <1>9 DEF Next, Step, Proceeding

\* The indexes agree, and every step finds what it needs, at all times.
THEOREM Invariant == Spec => []IInv
<1> QED
  BY InitFits, NextKeeps, PTL DEF Spec

\* Whatever files, edits, requests, crashes and goroutines there are: the
\* memory, the locals and the files keep their types, and userList, user2index
\* and code2user (authenticator.go:102-104) describe the same users.
THEOREM WellFormed == Spec => []IndexInv
<1>1. IInv => IndexInv
  BY DEF IInv, IndexInv, TypeOK, Fits
<1> QED
  BY <1>1, Invariant, PTL

\* No code opens a door for somebody who is not in the list, no two users
\* share a code, and everybody listed is found by each of their codes, also
\* for the desks' fair specification.
THEOREM IndexesDescribeTheList == FairSpec => []IndexConsistent
<1>1. IInv => IndexConsistent
  BY DEF IInv
<1> QED
  BY <1>1, Invariant, PTL DEF FairSpec

\* Nobody takes the place that deleteUserRequiresLock has freed before
\* addUserAtPosRequiresLock fills it (authenticator.go:336-338).
THEOREM SpotStaysEmpty == FairSpec => []SpotEmpty
<1>1. IInv => SpotEmpty
  BY DEF IInv, Fits, LocksHeld, SpotEmpty
<1> QED
  BY <1>1, Invariant, PTL DEF FairSpec

-----------------------------------------------------------------------------
(* Lookups are fresh: as long as the host only ever adds to the file, its   *)
(* timestamp never goes back, whoever edits it and however.  (A rename can  *)
(* put an older dump in place of a newer file.)                            *)

OnlyAdds == Requests \cap (UpdateCalls \cup DeleteCalls) = {}

\* A call has seen no later file than there is, and its lookup comes after a
\* load of a file no older than the one it has seen.
FreshFits(c) ==
  /\ pc[c] \notin {"replace", "create", "write"}
  /\ pc[c] # "idle" => my[c].asOf <= UsersMtime
  /\ pc[c] = "read" => /\ my[c].asOf <= newTimestamp /\ fileTimestamp <= newTimestamp
                       /\ newTimestamp <= UsersMtime
  /\ pc[c] \in {"announce", "lookup"} => my[c].asOf <= fileTimestamp
  /\ pc[c] = "post" => my[c].call.op = "add"

FInv == /\ IInv
        /\ \A i \in Inodes : disk[i].mtime <= mtimes
        /\ fileTimestamp <= UsersMtime
        /\ up = "starting" => newTimestamp <= UsersMtime
        /\ \A c \in Clients : FreshFits(c)

LEMMA Timestamps ==
  ASSUME IInv
  PROVE  /\ fileTimestamp \in Nat /\ newTimestamp \in Nat /\ UsersMtime \in Nat /\ mtimes \in Nat
         /\ usersFile \in Inodes /\ \A i \in Inodes : disk[i].mtime \in Nat
         /\ \A c \in Clients : my[c].asOf \in Nat
BY DEF IInv, MemoryOK, LoaderOK, FilesOK, ClientsOK, UsersMtime, Locals

\* A client takes a step; the file grows, or stays; the timestamps only change
\* under fileLock.
LEMMA FreshStep ==
  ASSUME FInv, IInv', NEW c \in Clients,
         \A d \in Clients \ {c} : pc'[d] = pc[d] /\ my'[d] = my[d],
         up = "up", up' = up,
         \A i \in Inodes : disk'[i].mtime <= mtimes',
         UsersMtime <= UsersMtime', fileTimestamp <= fileTimestamp', fileTimestamp' <= UsersMtime',
         (fileTimestamp' = fileTimestamp /\ newTimestamp' = newTimestamp) \/ fileLock \in {Nil, c},
         FreshFits(c)'
  PROVE  FInv'
<1>1. ASSUME NEW d \in Clients \ {c} PROVE FreshFits(d)'
  <2>1. /\ FreshFits(d) /\ my[d].asOf \in Nat /\ fileTimestamp \in Nat /\ newTimestamp \in Nat
        /\ UsersMtime \in Nat
    BY Timestamps DEF FInv
  <2>2. fileTimestamp' \in Nat /\ UsersMtime' \in Nat
    BY DEF IInv, MemoryOK, FilesOK, UsersMtime
  <2>3. pc'[d] = pc[d] /\ my'[d] = my[d] /\ d # Nil /\ d # c
    BY Constants
  <2>4. pc[d] = "read" => fileLock = d
    BY DEF FInv, IInv, Fits, LocksHeld
  <2>5. pc[d] = "read" => fileTimestamp' = fileTimestamp /\ newTimestamp' = newTimestamp
    BY <2>3, <2>4
  <2>6. pc[d] # "idle" => my[d].asOf <= UsersMtime'
    BY <2>1, <2>2 DEF FreshFits
  <2>7. pc[d] \in {"announce", "lookup"} => my[d].asOf <= fileTimestamp'
    BY <2>1, <2>2 DEF FreshFits
  <2>8. pc[d] = "read" => /\ my[d].asOf <= newTimestamp' /\ fileTimestamp' <= newTimestamp'
                          /\ newTimestamp' <= UsersMtime'
    BY <2>1, <2>2, <2>5 DEF FreshFits
  <2> QED
    BY <2>1, <2>3, <2>6, <2>7, <2>8 DEF FreshFits
<1>2. up' # "starting"
  OBVIOUS
<1> QED
  BY <1>1, <1>2 DEF FInv

\* Neither a file nor a timestamp changes.
LEMMA QuietStep ==
  ASSUME FInv, IInv', NEW c \in Clients,
         \A d \in Clients \ {c} : pc'[d] = pc[d] /\ my'[d] = my[d],
         up = "up", up' = up, UNCHANGED files, fileTimestamp' = fileTimestamp,
         newTimestamp' = newTimestamp, FreshFits(c)'
  PROVE  FInv'
<1>1. /\ disk' = disk /\ mtimes' = mtimes /\ UsersMtime' = UsersMtime
      /\ UsersMtime \in Nat /\ fileTimestamp \in Nat
  BY Timestamps DEF files, UsersMtime, FInv
<1>2. /\ \A i \in Inodes : disk'[i].mtime <= mtimes'
      /\ UsersMtime <= UsersMtime' /\ fileTimestamp <= fileTimestamp' /\ fileTimestamp' <= UsersMtime'
  BY <1>1 DEF FInv
<1> QED
  BY <1>2, FreshStep

\* A call that goes on, to a step that needs no fresh list.
LEMMA QuietCall ==
  ASSUME FInv, IInv', NEW c \in Clients, pc[c] # "idle", NEW there, NEW locals \in Locals,
         pc' = [pc EXCEPT ![c] = there], my' = [my EXCEPT ![c] = locals],
         locals.asOf \in {my[c].asOf, UsersMtime},
         there \notin {"replace", "create", "write", "read", "announce", "lookup"},
         there = "post" => locals.call.op = "add",
         up' = up, UNCHANGED files, fileTimestamp' = fileTimestamp, newTimestamp' = newTimestamp
  PROVE  FInv'
<1>1. /\ pc \in [Clients -> Steps] /\ my \in [Clients -> Locals] /\ up = "up" /\ FreshFits(c)
      /\ UsersMtime \in Nat
  BY InCall, Timestamps DEF FInv, IInv, ClientsOK
<1>2. /\ pc'[c] = there /\ my'[c] = locals
      /\ \A d \in Clients \ {c} : pc'[d] = pc[d] /\ my'[d] = my[d]
  BY <1>1
<1>3. UsersMtime' = UsersMtime
  BY DEF UsersMtime, files
<1>4. FreshFits(c)'
  BY <1>1, <1>2, <1>3 DEF FreshFits
<1> QED
  BY <1>1, <1>2, <1>4, QuietStep

LEMMA QuietAnswer ==
  ASSUME FInv, IInv', NEW c \in Clients, pc[c] # "idle", NEW r \in Results, Answer(c, r),
         up' = up, UNCHANGED files, fileTimestamp' = fileTimestamp, newTimestamp' = newTimestamp
  PROVE  FInv'
<1> DEFINE locals == [my[c] EXCEPT !.result = r]
<1>1. my \in [Clients -> Locals] /\ my[c] \in Locals
  BY DEF FInv, IInv, ClientsOK
<1>2. pc' = [pc EXCEPT ![c] = "done"] /\ my' = [my EXCEPT ![c] = locals]
  BY <1>1 DEF Answer, Goto
<1>3. locals \in Locals /\ locals.asOf = my[c].asOf
  BY <1>1 DEF Locals
<1> HIDE DEF locals
<1> QED
  BY <1>2, <1>3, QuietCall

\* A call that cannot be there when nobody updates or deletes.
LEMMA NoRewriting ==
  ASSUME FInv, OnlyAdds, NEW c \in Clients
  PROVE  pc[c] \notin {"modify", "replace", "create", "write"}
<1>1. pc[c] = "modify" => my[c].call \in Requests /\ my[c].call \in UpdateCalls \cup DeleteCalls
  BY DEF FInv, IInv, Fits, LocalsOK, CallFits
<1> QED
  BY <1>1 DEF OnlyAdds, FInv, FreshFits

LEMMA CalledStaysFresh == ASSUME FInv, IInv', NEW c \in Clients, Called(c) PROVE FInv'
<1>1. PICK request, step, what, r :
        step \in {"reload", "done"} /\ request \in Requests /\ Begin(c, request, step, what, r)
  BY DEF Called, CallLookup, CallChange
<1>2. pc \in [Clients -> Steps] /\ my \in [Clients -> Locals]
  BY DEF FInv, IInv, ClientsOK
<1>3. /\ up = "up" /\ up' = up /\ UNCHANGED files /\ fileTimestamp' = fileTimestamp
      /\ newTimestamp' = newTimestamp
      /\ pc' = [pc EXCEPT ![c] = step]
      /\ my' = [my EXCEPT ![c].call = request, ![c].phase = what, ![c].result = r, ![c].asOf = UsersMtime]
  BY <1>1 DEF Begin, Goto, memory, loader
<1>4. /\ pc'[c] = step /\ my'[c].asOf = UsersMtime
      /\ \A d \in Clients \ {c} : pc'[d] = pc[d] /\ my'[d] = my[d]
  BY <1>2, <1>3 DEF Locals
<1>5. UsersMtime' = UsersMtime /\ UsersMtime \in Nat
  BY <1>3, Timestamps DEF UsersMtime, files, FInv
<1>6. FreshFits(c)'
  BY <1>1, <1>4, <1>5 DEF FreshFits
<1> QED
  BY <1>3, <1>4, <1>6, QuietStep

LEMMA ReturnStaysFresh == ASSUME FInv, IInv', NEW c \in Clients, Return(c) PROVE FInv'
<1>1. /\ pc \in [Clients -> Steps] /\ my \in [Clients -> Locals] /\ up = "up"
  BY InCall DEF FInv, IInv, ClientsOK, Return
<1>2. /\ pc' = [pc EXCEPT ![c] = "idle"] /\ my' = [my EXCEPT ![c] = NoLocals]
      /\ UNCHANGED files /\ fileTimestamp' = fileTimestamp /\ newTimestamp' = newTimestamp /\ up' = up
  BY DEF Return, Goto, memory, loader, world
<1>3. pc'[c] = "idle" /\ \A d \in Clients \ {c} : pc'[d] = pc[d] /\ my'[d] = my[d]
  BY <1>1, <1>2
<1>4. FreshFits(c)'
  BY <1>3 DEF FreshFits
<1> QED
  BY <1>1, <1>2, <1>3, <1>4, QuietStep

LEMMA ReloadingStaysFresh == ASSUME FInv, IInv', NEW c \in Clients, Reloading(c) PROVE FInv'
<1>1. pc[c] # "idle"
  BY DEF Reloading, ReloadNotNeeded, ReloadFails, ReloadOpen, ReloadStat, ReloadLine, ReloadSwap
<1>2. /\ pc \in [Clients -> Steps] /\ my \in [Clients -> Locals] /\ up = "up" /\ my[c] \in Locals
      /\ FreshFits(c) /\ my = [my EXCEPT ![c] = my[c]] /\ Fits(c)
  BY <1>1, InCall DEF FInv, IInv, ClientsOK
<1>3. /\ fileTimestamp \in Nat /\ newTimestamp \in Nat /\ UsersMtime \in Nat /\ my[c].asOf \in Nat
      /\ fileTimestamp <= UsersMtime
  BY Timestamps DEF FInv
<1>4. /\ up' = up /\ UNCHANGED files /\ UsersMtime' = UsersMtime
      /\ \A i \in Inodes : disk'[i].mtime <= mtimes'
      /\ ~ReloadFails(c) => my' = my
  <2>1. up' = up /\ UNCHANGED files /\ (~ReloadFails(c) => my' = my)
    BY DEF Reloading, ReloadNotNeeded, ReloadFails, ReloadOpen, ReloadStat, ReloadLine, ReloadSwap,
           clients, world
  <2> QED
    BY <2>1 DEF files, UsersMtime, FInv
<1>10. CASE ReloadFails(c)
  <2>1. /\ pc' = [pc EXCEPT ![c] = "lookup"] /\ my' = [my EXCEPT ![c].asOf = 0]
        /\ fileTimestamp' = fileTimestamp /\ newTimestamp' = newTimestamp
    BY <1>10 DEF ReloadFails, Goto, memory, loader
  <2>2. /\ pc'[c] = "lookup" /\ my'[c].asOf = 0
        /\ \A d \in Clients \ {c} : pc'[d] = pc[d] /\ my'[d] = my[d]
    BY <1>2, <2>1 DEF Locals
  <2>3. FreshFits(c)'
    BY <1>3, <1>4, <2>1, <2>2 DEF FreshFits
  <2> QED
    BY <1>2, <1>4, <2>1, <2>2, <2>3, QuietStep
<1> SUFFICES ASSUME ~ReloadFails(c) PROVE FInv'
  BY <1>10
<1>5. CASE ReloadNotNeeded(c)
  <2>1. /\ fileTimestamp = UsersMtime /\ pc' = [pc EXCEPT ![c] = "lookup"] /\ pc'[c] = "lookup"
        /\ fileTimestamp' = fileTimestamp /\ newTimestamp' = newTimestamp
    BY <1>2, <1>5 DEF ReloadNotNeeded, Goto, memory, loader
  <2>2. FreshFits(c)'
    BY <1>1, <1>2, <1>4, <2>1 DEF FreshFits
  <2>3. \A d \in Clients \ {c} : pc'[d] = pc[d] /\ my'[d] = my[d]
    BY <1>2, <1>4, <2>1
  <2> QED
    BY <1>2, <1>4, <2>1, <2>2, <2>3, QuietStep
<1>6. CASE ReloadOpen(c)
  <2>1. /\ pc' = [pc EXCEPT ![c] = "stat"] /\ my' = [my EXCEPT ![c] = my[c]]
        /\ fileTimestamp' = fileTimestamp /\ newTimestamp' = newTimestamp
    BY <1>2, <1>4, <1>6 DEF ReloadOpen, Goto, memory
  <2> QED
    BY <1>1, <1>2, <1>4, <2>1, QuietCall
<1>7. CASE ReloadStat(c)
  <2>1. /\ pc[c] = "stat" /\ pc' = [pc EXCEPT ![c] = "read"] /\ pc'[c] = "read"
        /\ newTimestamp' = UsersMtime /\ fileTimestamp' = fileTimestamp
    BY <1>2, <1>7 DEF ReloadStat, Goto, memory
  <2>2. fileLock = c
    BY <1>2, <2>1 DEF Fits, LocksHeld
  <2>3. FreshFits(c)'
    BY <1>1, <1>2, <1>3, <1>4, <2>1 DEF FreshFits
  <2>4. \A d \in Clients \ {c} : pc'[d] = pc[d] /\ my'[d] = my[d]
    BY <1>2, <1>4, <2>1
  <2>5. UsersMtime <= UsersMtime' /\ fileTimestamp <= fileTimestamp' /\ fileTimestamp' <= UsersMtime'
    BY <1>3, <1>4, <2>1
  <2> QED
    BY <1>2, <1>4, <2>2, <2>3, <2>4, <2>5, FreshStep
<1>8. CASE ReloadLine(c)
  <2>1. pc' = pc /\ newTimestamp' = newTimestamp /\ fileTimestamp' = fileTimestamp
    BY <1>8 DEF ReloadLine, ReadLine, memory, clients
  <2>2. FreshFits(c)'
    BY <1>2, <1>4, <2>1 DEF FreshFits
  <2> QED
    BY <1>2, <1>4, <2>1, <2>2, QuietStep
<1>9. CASE ReloadSwap(c)
  <2>1. /\ pc[c] = "read" /\ pc' = [pc EXCEPT ![c] = "announce"] /\ pc'[c] = "announce"
        /\ fileTimestamp' = newTimestamp
    BY <1>2, <1>9 DEF ReloadSwap, Goto
  <2>2. fileLock = c
    BY <1>2, <2>1 DEF Fits, LocksHeld
  <2>3. FreshFits(c)'
    BY <1>1, <1>2, <1>4, <2>1 DEF FreshFits
  <2>4. \A d \in Clients \ {c} : pc'[d] = pc[d] /\ my'[d] = my[d]
    BY <1>2, <1>4, <2>1
  <2>5. UsersMtime <= UsersMtime' /\ fileTimestamp <= fileTimestamp' /\ fileTimestamp' <= UsersMtime'
    BY <1>2, <1>3, <1>4, <2>1 DEF FreshFits
  <2> QED
    BY <1>2, <1>4, <2>2, <2>3, <2>4, <2>5, FreshStep
<1> QED
  BY <1>5, <1>6, <1>7, <1>8, <1>9 DEF Reloading

LEMMA PostingStaysFresh == ASSUME FInv, IInv', NEW c \in Clients, Posting(c) PROVE FInv'
<1>1. pc[c] \in {"announce", "post"}
  BY DEF Posting, ReloadPosted, Posted
<1>2. /\ pc \in [Clients -> Steps] /\ up = "up" /\ FreshFits(c)
  BY <1>1, InCall DEF FInv, IInv, ClientsOK
<1>3. /\ my' = my /\ up' = up /\ UNCHANGED files /\ fileTimestamp' = fileTimestamp
      /\ newTimestamp' = newTimestamp /\ UsersMtime' = UsersMtime
  BY DEF Posting, ReloadPosted, Posted, memory, loader, files, world, UsersMtime
<1>4. /\ \A d \in Clients \ {c} : pc'[d] = pc[d] /\ my'[d] = my[d]
      /\ pc'[c] = IF pc[c] = "announce" THEN "lookup"
                  ELSE IF my[c].call.op = "add" THEN "append" ELSE "create"
  BY <1>2, <1>3 DEF Posting, ReloadPosted, Posted, Goto
<1>5. FreshFits(c)'
  BY <1>1, <1>2, <1>3, <1>4 DEF FreshFits
<1> QED
  BY <1>2, <1>3, <1>4, <1>5, QuietStep

\* The process dies, or starts anew.
LEMMA IdleStaysFresh ==
  ASSUME FInv, IInv', \A c \in Clients : pc'[c] = "idle", UNCHANGED files,
         fileTimestamp' <= UsersMtime, up' = "starting" => newTimestamp' <= UsersMtime
  PROVE  FInv'
<1>1. disk' = disk /\ mtimes' = mtimes /\ UsersMtime' = UsersMtime
  BY DEF files, UsersMtime
<1>2. \A c \in Clients : FreshFits(c)'
  BY DEF FreshFits
<1> QED
  BY <1>1, <1>2 DEF FInv

LEMMA DieStaysFresh == ASSUME FInv, IInv', Die PROVE FInv'
<1>1. /\ up' = "down" /\ fileTimestamp' = 0 /\ UNCHANGED files /\ UsersMtime \in Nat
      /\ \A c \in Clients : pc'[c] = "idle"
  BY Timestamps DEF Die, FInv
<1> QED
  BY <1>1, IdleStaysFresh

LEMMA PanickingStaysFresh == ASSUME FInv, IInv', NEW c \in Clients, Panicking(c) PROVE FInv'
BY DieStaysFresh DEF Panicking, UpdatePanics, StatPanics

LEMMA ProcessStaysFresh == ASSUME FInv, IInv', Process PROVE FInv'
<1>1. /\ UNCHANGED files /\ UNCHANGED clients /\ up # "up"
  BY DEF Process, Start, StartLine, Started
<1>2. \A c \in Clients : pc'[c] = "idle"
  BY <1>1, NotUpIsIdle DEF clients, FInv
<1>3. UsersMtime \in Nat /\ fileTimestamp <= UsersMtime /\ (up = "starting" => newTimestamp <= UsersMtime)
  BY Timestamps DEF FInv
<1>4. fileTimestamp' <= UsersMtime /\ (up' = "starting" => newTimestamp' <= UsersMtime)
  <2>1. CASE Start
    BY <1>3, <2>1 DEF Start, memory
  <2>2. CASE StartLine
    BY <1>3, <2>2 DEF StartLine, ReadLine, memory, world
  <2>3. CASE Started
    BY <1>3, <2>3 DEF Started
  <2> QED
    BY <2>1, <2>2, <2>3 DEF Process
<1> QED
  BY <1>1, <1>2, <1>4, IdleStaysFresh

LEMMA LookingUpStaysFresh ==
  ASSUME FInv, IInv', NEW c \in Clients, LookingUp(c)
  PROVE  FInv'
<1> USE DEF Lookup
<1>1. pc[c] = "lookup"
  BY DEF LookingUp, FindUser, AuthUser, VerifyOpAllowed, FindTarget
<1>2. /\ pc \in [Clients -> Steps] /\ my \in [Clients -> Locals] /\ my[c] \in Locals
      /\ my = [my EXCEPT ![c] = my[c]]
  BY <1>1, InCall DEF FInv, IInv, ClientsOK
<1>4. ASSUME FindUser(c) \/ AuthUser(c) \/ VerifyOpAllowed(c) \/ FindTarget(c)
      PROVE  UNCHANGED files /\ up' = up /\ fileTimestamp' = fileTimestamp /\ newTimestamp' = newTimestamp
  BY <1>4 DEF FindUser, AuthUser, VerifyOpAllowed, FindTarget, memory, loader, world
<1>5. CASE FindUser(c) \/ AuthUser(c)
  <2>1. \A u, t : AuthResult(u, t) \in Results
    BY DEF AuthResult, UserHasAccess, Results
  <2>2. PICK r \in Results : Answer(c, r)
    BY <1>5, <2>1 DEF FindUser, AuthUser, Results
  <2> QED
    BY <1>1, <1>4, <1>5, <2>2, QuietAnswer
<1>6. CASE VerifyOpAllowed(c)
  <2>1. CASE Answer(c, "refused")
    BY <1>1, <1>4, <1>6, <2>1, QuietAnswer DEF Results
  <2>2. CASE Goto(c, "add") /\ my' = my
    <3>1. pc' = [pc EXCEPT ![c] = "add"] /\ my' = [my EXCEPT ![c] = my[c]]
      BY <1>2, <2>2 DEF Goto
    <3> QED
      BY <1>1, <1>2, <1>4, <1>6, <3>1, QuietCall
  <2>3. CASE Goto(c, "reload") /\ my' = [my EXCEPT ![c].phase = "target", ![c].asOf = UsersMtime]
    <3> DEFINE locals == [my[c] EXCEPT !.phase = "target", !.asOf = UsersMtime]
    <3>1. pc' = [pc EXCEPT ![c] = "reload"] /\ my' = [my EXCEPT ![c] = locals]
      BY <1>2, <2>3 DEF Goto
    <3>0. UsersMtime \in Nat
      BY Timestamps DEF FInv
    <3>2. locals \in Locals /\ locals.asOf = UsersMtime
      BY <1>2, <3>0 DEF Locals, Phases
    <3> HIDE DEF locals
    <3> QED
      BY <1>1, <1>4, <1>6, <3>1, <3>2, QuietCall
  <2> QED
    BY <1>6, <2>1, <2>2, <2>3 DEF VerifyOpAllowed
<1>7. CASE FindTarget(c)
  <2> DEFINE locals == [my[c] EXCEPT !.target = Found(my[c].call.code), !.seen = revision]
  <2>1. pc' = [pc EXCEPT ![c] = "modify"] /\ my' = [my EXCEPT ![c] = locals]
    BY <1>2, <1>7 DEF FindTarget, Goto
  <2>2. my'[c] = locals /\ my' \in [Clients -> Locals]
    BY <1>2, <2>1 DEF IInv, ClientsOK
  <2>3. locals \in Locals /\ locals.asOf = my[c].asOf
    BY <1>2, <2>2 DEF Locals
  <2> HIDE DEF locals
  <2> QED
    BY <1>1, <1>4, <1>7, <2>1, <2>3, QuietCall
<1> QED
  BY <1>5, <1>6, <1>7 DEF LookingUp

LEMMA ChangingStaysFresh ==
  ASSUME FInv, OnlyAdds, IInv', NEW c \in Clients, Changing(c)
  PROVE  FInv'
<1>0. pc[c] \notin {"modify", "replace"}
  BY NoRewriting
<1>1. AddUser(c)
  BY <1>0 DEF Changing, NotModified, ReplaceDelete, ReplaceAdd, DeleteUser
<1>2. /\ UNCHANGED files /\ up' = up /\ fileTimestamp' = fileTimestamp /\ newTimestamp' = newTimestamp
      /\ pc[c] = "add" /\ my[c].call.op = "add"
  BY <1>1 DEF AddUser, loader, world, FInv, IInv, Fits, CallFits, AddCalls
<1>3. my \in [Clients -> Locals] /\ my[c] \in Locals /\ pc \in [Clients -> Steps]
  BY DEF FInv, IInv, ClientsOK
<1>4. CASE Answer(c, "refused")
  BY <1>2, <1>4, QuietAnswer DEF Results
<1>5. ASSUME NEW obj, Goto(c, "post"), my' = [my EXCEPT ![c].target = obj] PROVE FInv'
  <2> DEFINE locals == [my[c] EXCEPT !.target = obj]
  <2>1. pc' = [pc EXCEPT ![c] = "post"] /\ my' = [my EXCEPT ![c] = locals]
    BY <1>3, <1>5 DEF Goto
  <2>2. my'[c] = locals /\ my' \in [Clients -> Locals]
    BY <1>3, <2>1 DEF IInv, ClientsOK
  <2>3. locals \in Locals /\ locals.asOf = my[c].asOf /\ locals.call = my[c].call
    BY <1>3, <2>2 DEF Locals
  <2> HIDE DEF locals
  <2> QED
    BY <1>2, <2>1, <2>3, QuietCall
<1> QED
  BY <1>1, <1>4, <1>5 DEF AddUser

\* Writing makes the file newer.
LEMMA PutFileIsNewer ==
  ASSUME FInv, NEW i \in Inodes, NEW lines, PutFile(i, lines), usersFile' \in {usersFile, i}
  PROVE  /\ \A j \in Inodes : disk'[j].mtime <= mtimes'
         /\ UsersMtime <= UsersMtime'
<1>1. /\ mtimes \in Nat /\ usersFile \in Inodes /\ \A j \in Inodes : disk[j].mtime \in Nat
      /\ \A j \in Inodes : disk[j].mtime <= mtimes
      /\ disk \in [Inodes -> [lines: Seq(Lines), mtime: Nat]]
  BY Timestamps DEF FInv, IInv, FilesOK
<1>2. mtimes' = mtimes + 1 /\ disk' = [disk EXCEPT ![i] = [lines |-> lines, mtime |-> mtimes + 1]]
  BY DEF PutFile
<1>3. \A j \in Inodes : disk'[j].mtime = IF j = i THEN mtimes + 1 ELSE disk[j].mtime
  BY <1>1, <1>2
<1>4. \A j \in Inodes : disk'[j].mtime <= mtimes'
  BY <1>1, <1>2, <1>3
<1>5. UsersMtime' = disk'[usersFile'].mtime
  BY DEF UsersMtime
<1> QED
  BY <1>1, <1>3, <1>4, <1>5 DEF UsersMtime

LEMMA WritingStaysFresh ==
  ASSUME FInv, OnlyAdds, IInv', NEW c \in Clients, Writing(c)
  PROVE  FInv'
<1>0. pc[c] \notin {"create", "write"} /\ pc[c] # "idle"
  <2>1. pc[c] # "idle"
    BY DEF Writing, AppendEntry, AppendFails, CreateTemp, CreateFails, WriteRow, DiskFull, RenameTemp, Stamp
  <2> QED
    BY <2>1, NoRewriting
<1>1. /\ pc \in [Clients -> Steps] /\ my \in [Clients -> Locals] /\ up = "up" /\ my[c] \in Locals
      /\ FreshFits(c) /\ Fits(c)
      /\ fileTimestamp \in Nat /\ UsersMtime \in Nat /\ my[c].asOf \in Nat
      /\ fileTimestamp <= UsersMtime
  BY <1>0, InCall, Timestamps DEF FInv, IInv, ClientsOK
<1>2. UsersMtime' \in Nat
  BY DEF IInv, FilesOK, UsersMtime
<1>3. CASE AppendEntry(c)
  <2>1. /\ usersFile' = usersFile /\ fileLock = Nil /\ pc' = [pc EXCEPT ![c] = "stamp"]
        /\ my' = my /\ up' = up /\ fileTimestamp' = fileTimestamp
    BY <1>3 DEF AppendEntry, Goto, memory, world
  <2>2. PICK lines : PutFile(usersFile, lines)
    BY <1>3 DEF AppendEntry
  <2>3. usersFile \in Inodes /\ usersFile' \in {usersFile}
    BY <2>1, Timestamps DEF FInv
  <2>4. (\A i \in Inodes : disk'[i].mtime <= mtimes') /\ UsersMtime <= UsersMtime'
    BY <2>2, <2>3, PutFileIsNewer
  <2>5. pc'[c] = "stamp" /\ \A d \in Clients \ {c} : pc'[d] = pc[d] /\ my'[d] = my[d]
    BY <1>1, <2>1
  <2>6. FreshFits(c)'
    BY <1>0, <1>1, <1>2, <2>1, <2>4, <2>5 DEF FreshFits
  <2>7. fileTimestamp <= fileTimestamp' /\ fileTimestamp' <= UsersMtime'
    BY <1>1, <1>2, <2>1, <2>4
  <2> QED
    BY <1>1, <2>1, <2>4, <2>5, <2>6, <2>7, FreshStep
<1>4. CASE AppendFails(c)
  <2>1. /\ UNCHANGED files /\ up' = up /\ fileTimestamp' = fileTimestamp /\ newTimestamp' = newTimestamp
        /\ Answer(c, "refused") /\ "refused" \in Results
    BY <1>4 DEF AppendFails, memory, loader, world, Results
  <2> QED
    BY <1>0, <2>1, QuietAnswer
<1>5. CASE Stamp(c)
  <2>1. /\ pc[c] = "stamp" /\ fileTimestamp' = UsersMtime /\ Answer(c, "ok")
        /\ UNCHANGED files /\ up' = up
    BY <1>5 DEF Stamp, world
  <2>2. fileLock = c
    BY <1>1, <2>1 DEF Fits, LocksHeld
  <2>3. (\A i \in Inodes : disk'[i].mtime <= mtimes') /\ UsersMtime' = UsersMtime
    BY <2>1 DEF files, UsersMtime, FInv
  <2>4. /\ pc' = [pc EXCEPT ![c] = "done"] /\ my' = [my EXCEPT ![c].result = "ok"]
    BY <2>1 DEF Answer, Goto
  <2>5. pc'[c] = "done" /\ my'[c].asOf = my[c].asOf
    BY <1>1, <2>4 DEF Locals
  <2>6. \A d \in Clients \ {c} : pc'[d] = pc[d] /\ my'[d] = my[d]
    BY <1>1, <2>4
  <2>7. FreshFits(c)'
    BY <1>0, <1>1, <2>3, <2>5 DEF FreshFits
  <2>8. fileTimestamp <= fileTimestamp' /\ fileTimestamp' <= UsersMtime' /\ UsersMtime <= UsersMtime'
    BY <1>1, <2>1, <2>3
  <2> QED
    BY <1>1, <2>1, <2>2, <2>3, <2>6, <2>7, <2>8, FreshStep
<1> QED
  BY <1>0, <1>3, <1>4, <1>5 DEF Writing, CreateTemp, CreateFails, WriteRow, DiskFull, RenameTemp

LEMMA SurroundingsStayFresh == ASSUME FInv, IInv', Surroundings PROVE FInv'
<1>1. CASE Crash
  BY <1>1, DieStaysFresh DEF Crash
<1>2. ASSUME UNCHANGED <<fileTimestamp, newTimestamp, pc, my, up>>,
             \A i \in Inodes : disk'[i].mtime <= mtimes', UsersMtime <= UsersMtime'
      PROVE  FInv'
  <2>1. /\ fileTimestamp \in Nat /\ newTimestamp \in Nat /\ UsersMtime \in Nat
        /\ \A c \in Clients : my[c].asOf \in Nat
    BY Timestamps DEF FInv
  <2>2. UsersMtime' \in Nat
    BY DEF IInv, FilesOK, UsersMtime
  <2>3. ASSUME NEW c \in Clients PROVE FreshFits(c)'
    <3>1. FreshFits(c)
      BY DEF FInv
    <3> QED
      BY <1>2, <2>1, <2>2, <3>1 DEF FreshFits
  <2>4. fileTimestamp' <= UsersMtime' /\ (up' = "starting" => newTimestamp' <= UsersMtime')
    BY <1>2, <2>1, <2>2 DEF FInv
  <2> QED
    BY <1>2, <2>3, <2>4 DEF FInv
<1>3. CASE Tick
  <2>1. UNCHANGED <<fileTimestamp, newTimestamp, pc, my, up>> /\ UNCHANGED files
    BY <1>3 DEF Tick, memory, loader, clients
  <2>2. (\A i \in Inodes : disk'[i].mtime <= mtimes') /\ UsersMtime <= UsersMtime'
    BY <2>1, Timestamps DEF files, UsersMtime, FInv
  <2> QED
    BY <1>2, <2>1, <2>2
<1>4. CASE EditFile \/ EditBegin \/ EditEnd
  <2>1. UNCHANGED <<fileTimestamp, newTimestamp, pc, my, up>>
    BY <1>4 DEF EditFile, EditBegin, EditEnd, EditStarts, memory, loader, clients, world
  <2>2. usersFile \in Inodes
    BY Timestamps DEF FInv
  <2>3. PICK i, lines : i \in Inodes /\ PutFile(i, lines) /\ usersFile' \in {usersFile, i}
    BY <1>4, <2>2 DEF EditFile, EditBegin, EditEnd
  <2>4. (\A j \in Inodes : disk'[j].mtime <= mtimes') /\ UsersMtime <= UsersMtime'
    BY <2>3, PutFileIsNewer
  <2> QED
    BY <1>2, <2>1, <2>4
<1> QED
  BY <1>1, <1>3, <1>4 DEF Surroundings

LEMMA FreshInit == Init => FInv
<1> SUFFICES ASSUME Init PROVE FInv
  OBVIOUS
<1>1. IInv
  BY InitFits
<1>2. /\ fileTimestamp = 0 /\ mtimes = 1 /\ up = "down" /\ usersFile \in Inodes
      /\ disk = [i \in Inodes |-> IF i = usersFile THEN [lines |-> InitialFile, mtime |-> 1]
                                  ELSE [lines |-> <<>>, mtime |-> 0]]
      /\ \A c \in Clients : pc[c] = "idle"
  BY DEF Init
<1>3. \A i \in Inodes : disk[i].mtime = IF i = usersFile THEN 1 ELSE 0
  BY <1>2
<1>4. (\A i \in Inodes : disk[i].mtime <= mtimes) /\ fileTimestamp <= UsersMtime
  BY <1>2, <1>3 DEF UsersMtime
<1>5. \A c \in Clients : FreshFits(c)
  BY <1>2 DEF FreshFits
<1> QED
  BY <1>1, <1>2, <1>4, <1>5 DEF FInv

LEMMA FreshNext == OnlyAdds /\ FInv /\ [Next]_vars => FInv'
<1> SUFFICES ASSUME OnlyAdds, FInv, [Next]_vars PROVE FInv'
  OBVIOUS
<1>0. IInv'
  BY NextKeeps DEF FInv
<1>1. ASSUME NEW c \in Clients, Called(c) \/ Step(c) PROVE FInv'
  BY <1>0, <1>1, CalledStaysFresh, ReloadingStaysFresh, LookingUpStaysFresh, ChangingStaysFresh,
     WritingStaysFresh, ReturnStaysFresh, PanickingStaysFresh, PostingStaysFresh
     DEF Step, Proceeding
<1>2. CASE Process
  BY <1>0, <1>2, ProcessStaysFresh
<1>3. CASE Surroundings
  BY <1>0, <1>3, SurroundingsStayFresh
<1>4. CASE UNCHANGED vars
  <2>1. UNCHANGED <<disk, mtimes, usersFile, fileTimestamp, newTimestamp, pc, my, up>>
    BY <1>4 DEF vars, memory, loader, files, clients, world
  <2>2. UsersMtime' = UsersMtime
    BY <2>1 DEF UsersMtime
  <2>3. ASSUME NEW c \in Clients PROVE FreshFits(c)'
    <3>1. FreshFits(c)
      BY DEF FInv
    <3> QED
      BY <2>1, <2>2, <3>1 DEF FreshFits
  <2> QED
    BY <1>0, <2>1, <2>2, <2>3 DEF FInv
<1> QED
  BY <1>1, <1>2, <1>3, <1>4 DEF Next

\* As long as nobody updates or deletes through the host, a lookup whose reload
\* does not fail (authenticator.go:418-420, 434-437) never uses a list older than
\* the file was when it began (reloadIfChanged, 414-447), however the file is
\* edited, whoever is added, and whatever reloads have failed before.
THEOREM LookupsAreFresh == OnlyAdds => (Spec => []LookupIsFresh)
<1> SUFFICES ASSUME OnlyAdds PROVE Spec => []LookupIsFresh
  OBVIOUS
<1>1. FInv /\ [Next]_vars => FInv'
  BY FreshNext
<1>2. FInv => LookupIsFresh
  <2> SUFFICES ASSUME FInv, NEW c \in Clients, pc[c] = "lookup" PROVE fileTimestamp >= my[c].asOf
    BY DEF LookupIsFresh
  <2>1. fileTimestamp \in Nat /\ my[c].asOf \in Nat /\ FreshFits(c)
    BY Timestamps DEF FInv
  <2> QED
    BY <2>1 DEF FreshFits
<1> QED
  BY <1>1, <1>2, FreshInit, PTL DEF Spec

-----------------------------------------------------------------------------
(* One control terminal, and a file that can always be read and is edited  *)
(* only while nobody is in a call.  Then a change has the list for itself  *)
(* from the moment its call has reloaded the file, until it has written it.*)

OneDesk == \A c, d \in Modifiers : c = d
CalmEdits == EditWhen = "never" \/ (EditWhen = "idle" /\ EditHow = "rename")
CalmDesk == OneDesk /\ CalmEdits /\ ~ReadMayFail

ChangeSteps == {"add", "modify", "replace", "post", "append", "create", "write", "stamp"}

\* The call has been found to be allowed, and has not changed the list yet.
Verified(c) == \/ pc[c] \in {"add", "modify"}
               \/ my[c].phase = "target" /\ pc[c] \in {"reload", "lookup"}

\* The call is to change the list, has reloaded the file and not yet replaced it.
HasReloaded(c) == \/ Verified(c)
                  \/ my[c].phase = "verify" /\ pc[c] \in {"announce", "lookup"}
                  \/ pc[c] \in {"replace", "post", "append", "create", "write"}

Allowed(call) ==
  LET by == Found(call.auth) IN by # Nil /\ IsOpAllowed(call.op, by.user.level)

\* Only the desk changes anything; from its reload until it writes, memory is as new
\* as the file and nobody else reads the file.
DeskFits(c) ==
  /\ c \notin Modifiers => pc[c] \notin ChangeSteps /\ my[c].phase \notin {"verify", "target"}
  /\ my[c].phase = "target" => pc[c] \notin {"stat", "read", "announce"}
  /\ pc[c] \in {"stat", "read"} => reading = usersFile
  /\ pc[c] = "read" => newTimestamp = UsersMtime
  /\ HasReloaded(c) => /\ fileTimestamp = UsersMtime
                       /\ \A d \in Clients : pc[d] \notin {"stat", "read"}
  /\ Verified(c) => Allowed(my[c].call)
  /\ pc[c] = "modify" => my[c].target = Found(my[c].call.code)
  /\ pc[c] = "write" => /\ my[c].fd # usersFile /\ my[c].fd = tmpFile
                        /\ disk[my[c].fd].mtime > UsersMtime
  /\ pc[c] # "idle" => my[c].asOf <= UsersMtime
  /\ pc[c] \in {"announce", "lookup"} => my[c].asOf <= fileTimestamp

DInv == /\ IInv
        /\ \A i \in Inodes : disk[i].mtime <= mtimes
        /\ editing = Nil
        /\ fileTimestamp <= UsersMtime
        /\ up = "starting" => reading = usersFile /\ newTimestamp = UsersMtime
        /\ \A c \in Clients : DeskFits(c)

\* Who holds fileLock reads; a client that has read is alone with the file.
LEMMA OneReader ==
  ASSUME IInv, NEW c \in Clients, NEW d \in Clients \ {c}, fileLock \in {Nil, c}
  PROVE  pc[d] \notin {"stat", "read", "stamp"}
BY Constants DEF IInv, Fits, LocksHeld

\* The others keep what they rely on if nobody relies on much, ...
LEMMA OthersCalm ==
  ASSUME DInv, IInv', NEW d \in Clients, pc'[d] = pc[d], my'[d] = my[d],
         ~HasReloaded(d), pc[d] \notin {"stat", "read"},
         UsersMtime <= UsersMtime', fileTimestamp <= fileTimestamp'
  PROVE  DeskFits(d)'
<1>1. /\ DeskFits(d) /\ my[d].asOf \in Nat /\ fileTimestamp \in Nat /\ UsersMtime \in Nat
  BY Timestamps DEF DInv
<1>2. fileTimestamp' \in Nat /\ UsersMtime' \in Nat
  BY DEF IInv, MemoryOK, FilesOK, UsersMtime
<1>3. ~HasReloaded(d)' /\ ~Verified(d)' /\ pc'[d] \notin {"write", "modify"}
  BY DEF HasReloaded, Verified
<1>4. /\ pc'[d] # "idle" => my'[d].asOf <= UsersMtime'
      /\ pc'[d] \in {"announce", "lookup"} => my'[d].asOf <= fileTimestamp'
  BY <1>1, <1>2 DEF DeskFits
<1> QED
  BY <1>1, <1>3, <1>4 DEF DeskFits

\* ... or if a step changes nothing but the client's own locals.
LEMMA OthersQuiet ==
  ASSUME DInv, NEW c \in Clients, NEW d \in Clients \ {c},
         \A e \in Clients \ {c} : pc'[e] = pc[e] /\ my'[e] = my[e],
         pc'[c] \in {"stat", "read"} => pc[c] \in {"stat", "read"},
         UNCHANGED <<db, fileTimestamp, newTimestamp, reading, files>>
  PROVE  DeskFits(d)'
<1>1. /\ DeskFits(d) /\ pc'[d] = pc[d] /\ my'[d] = my[d]
      /\ \A e \in Clients : pc'[e] \in {"stat", "read"} => pc[e] \in {"stat", "read"}
  BY DEF DInv
<1>2. UsersMtime' = UsersMtime /\ disk' = disk /\ usersFile' = usersFile /\ tmpFile' = tmpFile
  BY DEF files, UsersMtime
<1>3. HasReloaded(d)' <=> HasReloaded(d)
  BY <1>1 DEF HasReloaded, Verified
<1>4. (Verified(d)' <=> Verified(d)) /\ (Allowed(my[d].call)' <=> Allowed(my[d].call))
  BY <1>1 DEF Verified, Allowed, Found
<1>5. Found(my[d].call.code)' = Found(my[d].call.code)
  BY <1>1 DEF Found
<1> QED
  BY <1>1, <1>2, <1>3, <1>4, <1>5 DEF DeskFits

LEMMA DeskQuiet ==
  ASSUME DInv, IInv', NEW c \in Clients, up = "up", up' = up,
         \A d \in Clients \ {c} : pc'[d] = pc[d] /\ my'[d] = my[d],
         pc'[c] \in {"stat", "read"} => pc[c] \in {"stat", "read"},
         UNCHANGED <<db, fileTimestamp, newTimestamp, reading, files>>, DeskFits(c)'
  PROVE  DInv'
<1>1. \A d \in Clients \ {c} : DeskFits(d)'
  BY OthersQuiet
<1>2. UsersMtime' = UsersMtime /\ disk' = disk /\ mtimes' = mtimes /\ editing' = editing
  BY DEF files, UsersMtime
<1> QED
  BY <1>1, <1>2 DEF DInv

\* A call that goes on without touching anything, to a step that needs nothing.
LEMMA DeskAnswer ==
  ASSUME DInv, IInv', NEW c \in Clients, pc[c] # "idle", NEW r \in Results, Answer(c, r),
         up' = up, UNCHANGED <<db, fileTimestamp, newTimestamp, reading, files>>
  PROVE  DInv'
<1>1. /\ pc \in [Clients -> Steps] /\ my \in [Clients -> Locals] /\ up = "up" /\ DeskFits(c)
  BY InCall DEF DInv, IInv, ClientsOK
<1>2. /\ pc'[c] = "done" /\ my'[c].phase = my[c].phase /\ my'[c].asOf = my[c].asOf
      /\ my'[c].call = my[c].call
      /\ \A d \in Clients \ {c} : pc'[d] = pc[d] /\ my'[d] = my[d]
  BY <1>1 DEF Answer, Goto, Locals
<1>3. UsersMtime' = UsersMtime
  BY DEF files, UsersMtime
<1>4. DeskFits(c)'
  BY <1>1, <1>2, <1>3 DEF DeskFits, HasReloaded, Verified, ChangeSteps
<1> QED
  BY <1>1, <1>2, <1>4, DeskQuiet

LEMMA CalledStaysCalm == ASSUME DInv, IInv', NEW c \in Clients, Called(c) PROVE DInv'
<1>1. PICK request, step, what, r :
        /\ step \in {"reload", "done"} /\ what # "target" /\ Begin(c, request, step, what, r)
        /\ c \notin Modifiers => what # "verify"
  <2>1. CASE CallLookup(c)
    BY <2>1 DEF CallLookup, LookupCalls
  <2>2. CASE CallChange(c)
    BY <2>2 DEF CallChange
  <2> QED
    BY <2>1, <2>2 DEF Called
<1>2. pc \in [Clients -> Steps] /\ my \in [Clients -> Locals]
  BY DEF DInv, IInv, ClientsOK
<1>3. /\ up = "up" /\ up' = up /\ UNCHANGED <<db, fileTimestamp, newTimestamp, reading, files>>
      /\ pc' = [pc EXCEPT ![c] = step]
      /\ my' = [my EXCEPT ![c].call = request, ![c].phase = what, ![c].result = r, ![c].asOf = UsersMtime]
  BY <1>1 DEF Begin, Goto, memory, loader
<1>4. /\ pc'[c] = step /\ my'[c].asOf = UsersMtime /\ my'[c].phase = what
      /\ \A d \in Clients \ {c} : pc'[d] = pc[d] /\ my'[d] = my[d]
  BY <1>2, <1>3 DEF Locals
<1>5. UsersMtime' = UsersMtime /\ UsersMtime \in Nat
  BY <1>3, Timestamps DEF UsersMtime, files, DInv
<1>6. DeskFits(c)'
  BY <1>1, <1>4, <1>5 DEF DeskFits, HasReloaded, Verified, ChangeSteps
<1> QED
  BY <1>1, <1>3, <1>4, <1>6, DeskQuiet

LEMMA ReturnStaysCalm == ASSUME DInv, IInv', NEW c \in Clients, Return(c) PROVE DInv'
<1>1. /\ pc \in [Clients -> Steps] /\ my \in [Clients -> Locals] /\ up = "up"
  BY InCall DEF DInv, IInv, ClientsOK, Return
<1>2. /\ pc' = [pc EXCEPT ![c] = "idle"] /\ my' = [my EXCEPT ![c] = NoLocals] /\ up' = up
      /\ UNCHANGED <<db, fileTimestamp, newTimestamp, reading, files>>
  BY DEF Return, Goto, memory, loader, world
<1>3. /\ pc'[c] = "idle" /\ my'[c].phase = "none"
      /\ \A d \in Clients \ {c} : pc'[d] = pc[d] /\ my'[d] = my[d]
  BY <1>1, <1>2 DEF NoLocals
<1>4. DeskFits(c)'
  BY <1>3 DEF DeskFits, HasReloaded, Verified, ChangeSteps
<1> QED
  BY <1>1, <1>2, <1>3, <1>4, DeskQuiet

LEMMA ReloadingStaysCalm ==
  ASSUME DInv, IInv', ~ReadMayFail, NEW c \in Clients, Reloading(c)
  PROVE  DInv'
<1>0. ~ReloadFails(c)
  BY DEF ReloadFails
<1>1. pc[c] # "idle"
  BY <1>0 DEF Reloading, ReloadNotNeeded, ReloadOpen, ReloadStat, ReloadLine, ReloadSwap
<1>2. /\ pc \in [Clients -> Steps] /\ my \in [Clients -> Locals] /\ up = "up" /\ IInv
      /\ DeskFits(c) /\ Fits(c) /\ \A d \in Clients : DeskFits(d)
  BY <1>1, InCall DEF DInv, IInv, ClientsOK
<1>3. /\ fileTimestamp \in Nat /\ UsersMtime \in Nat /\ my[c].asOf \in Nat
      /\ fileTimestamp <= UsersMtime
  BY Timestamps DEF DInv
<1>4. /\ my' = my /\ up' = up /\ UNCHANGED files /\ UsersMtime' = UsersMtime
      /\ usersFile' = usersFile /\ disk' = disk /\ mtimes' = mtimes /\ editing' = editing
  <2>1. my' = my /\ up' = up /\ UNCHANGED files
    BY <1>0 DEF Reloading, ReloadNotNeeded, ReloadOpen, ReloadStat, ReloadLine, ReloadSwap, clients, world
  <2> QED
    BY <2>1 DEF files, UsersMtime
<1>5. CASE ReloadNotNeeded(c)
  <2>1. /\ fileTimestamp = UsersMtime /\ fileLock = Nil /\ pc[c] = "reload" /\ pc'[c] = "lookup"
        /\ UNCHANGED <<db, fileTimestamp, newTimestamp, reading>>
        /\ \A d \in Clients \ {c} : pc'[d] = pc[d]
    BY <1>2, <1>5 DEF ReloadNotNeeded, Goto, memory, loader
  <2>2. \A d \in Clients : pc'[d] \notin {"stat", "read"}
    BY <1>2, <2>1, OneReader
  <2>3. Verified(c)' => Verified(c)
    BY <1>4, <2>1 DEF Verified
  <2>4. Allowed(my[c].call)' = Allowed(my[c].call)
    BY <1>4, <2>1 DEF Allowed, Found
  <2>5. DeskFits(c)'
    BY <1>1, <1>2, <1>3, <1>4, <2>1, <2>2, <2>3, <2>4 DEF DeskFits, ChangeSteps
  <2> QED
    BY <1>2, <1>4, <2>1, <2>5, DeskQuiet
<1>6. CASE ReloadOpen(c)
  <2>1. /\ fileTimestamp # UsersMtime /\ fileLock = Nil /\ pc[c] = "reload" /\ pc'[c] = "stat"
        /\ UNCHANGED <<db, fileTimestamp, newTimestamp>> /\ reading' = usersFile
        /\ \A d \in Clients \ {c} : pc'[d] = pc[d]
    BY <1>2, <1>6 DEF ReloadOpen, Goto, memory, BeginReading
  <2>2. \A d \in Clients : ~HasReloaded(d)
    BY <1>2, <2>1 DEF DeskFits
  <2>3. \A d \in Clients \ {c} : pc[d] \notin {"stat", "read"}
    BY <1>2, <2>1, OneReader
  <2>4. UsersMtime <= UsersMtime' /\ fileTimestamp <= fileTimestamp'
    BY <1>3, <1>4, <2>1
  <2>5. \A d \in Clients \ {c} : DeskFits(d)'
    BY <1>4, <2>1, <2>2, <2>3, <2>4, OthersCalm
  <2>6. my[c].phase # "target"
    BY <2>1, <2>2 DEF HasReloaded, Verified
  <2>7. DeskFits(c)'
    BY <1>1, <1>2, <1>4, <2>1, <2>6 DEF DeskFits, ChangeSteps, HasReloaded, Verified
  <2> QED
    BY <1>2, <1>4, <2>1, <2>5, <2>7 DEF DInv
<1>7. CASE ReloadStat(c)
  <2>1. /\ pc[c] = "stat" /\ pc'[c] = "read" /\ newTimestamp' = UsersMtime
        /\ UNCHANGED <<db, fileTimestamp, reading>>
        /\ \A d \in Clients \ {c} : pc'[d] = pc[d]
    BY <1>2, <1>7 DEF ReloadStat, Goto, memory
  <2>2. fileLock = c
    BY <1>2, <2>1 DEF Fits, LocksHeld
  <2>3. \A d \in Clients \ {c} : pc[d] \notin {"stat", "read"} /\ ~HasReloaded(d)
    BY <1>2, <2>1, <2>2, OneReader DEF DeskFits
  <2>4. UsersMtime <= UsersMtime' /\ fileTimestamp <= fileTimestamp'
    BY <1>3, <1>4, <2>1
  <2>5. \A d \in Clients \ {c} : DeskFits(d)'
    BY <1>4, <2>1, <2>3, <2>4, OthersCalm
  <2>6. DeskFits(c)'
    BY <1>1, <1>2, <1>4, <2>1 DEF DeskFits, ChangeSteps, HasReloaded, Verified
  <2> QED
    BY <1>2, <1>4, <2>1, <2>5, <2>6 DEF DInv
<1>8. CASE ReloadLine(c)
  <2>1. /\ pc' = pc /\ pc[c] = "read" /\ UNCHANGED <<db, fileTimestamp, newTimestamp, reading>>
    BY <1>8 DEF ReloadLine, ReadLine, memory, clients
  <2>2. DeskFits(c)'
    BY <1>2, <1>4, <2>1 DEF DeskFits, ChangeSteps, HasReloaded, Verified
  <2> QED
    BY <1>2, <1>4, <2>1, <2>2, DeskQuiet
<1>9. CASE ReloadSwap(c)
  <2>1. /\ pc[c] = "read" /\ pc'[c] = "announce" /\ fileTimestamp' = newTimestamp
        /\ \A d \in Clients \ {c} : pc'[d] = pc[d]
    BY <1>2, <1>9 DEF ReloadSwap, Goto
  <2>2. fileLock = c /\ newTimestamp = UsersMtime
    BY <1>2, <2>1 DEF Fits, LocksHeld, DeskFits
  <2>3. \A d \in Clients \ {c} : pc[d] \notin {"stat", "read"} /\ ~HasReloaded(d)
    BY <1>2, <2>1, <2>2, OneReader DEF DeskFits
  <2>4. UsersMtime <= UsersMtime' /\ fileTimestamp <= fileTimestamp' /\ fileTimestamp' = UsersMtime'
    BY <1>3, <1>4, <2>1, <2>2
  <2>5. \A d \in Clients \ {c} : DeskFits(d)'
    BY <1>4, <2>1, <2>3, <2>4, OthersCalm
  <2>6. \A d \in Clients : pc'[d] \notin {"stat", "read"}
    BY <2>1, <2>3
  <2>7. my[c].phase # "target"
    BY <1>2, <2>1 DEF DeskFits
  <2>8. DeskFits(c)'
    BY <1>1, <1>2, <1>3, <1>4, <2>1, <2>2, <2>6, <2>7 DEF DeskFits, ChangeSteps, HasReloaded, Verified
  <2> QED
    BY <1>2, <1>3, <1>4, <2>1, <2>4, <2>5, <2>8 DEF DInv
<1> QED
  BY <1>0, <1>5, <1>6, <1>7, <1>8, <1>9 DEF Reloading

LEMMA PostingStaysCalm == ASSUME DInv, IInv', NEW c \in Clients, Posting(c) PROVE DInv'
<1>1. pc[c] \in {"announce", "post"}
  BY DEF Posting, ReloadPosted, Posted
<1>2. /\ pc \in [Clients -> Steps] /\ up = "up" /\ DeskFits(c)
  BY <1>1, InCall DEF DInv, IInv, ClientsOK
<1>3. /\ my' = my /\ up' = up /\ UNCHANGED files /\ UsersMtime' = UsersMtime
      /\ UNCHANGED <<db, fileTimestamp, newTimestamp, reading>>
  BY DEF Posting, ReloadPosted, Posted, memory, loader, files, world, UsersMtime
<1>4. /\ \A d \in Clients \ {c} : pc'[d] = pc[d] /\ my'[d] = my[d]
      /\ pc'[c] = IF pc[c] = "announce" THEN "lookup"
                  ELSE IF my[c].call.op = "add" THEN "append" ELSE "create"
  BY <1>2, <1>3 DEF Posting, ReloadPosted, Posted, Goto
<1>5. HasReloaded(c)' => HasReloaded(c)
  BY <1>1, <1>2, <1>3, <1>4 DEF HasReloaded, Verified, DeskFits
<1>6. ~Verified(c)'
  BY <1>1, <1>2, <1>3, <1>4 DEF Verified, DeskFits
<1>7. \A d \in Clients : pc'[d] \in {"stat", "read"} => pc[d] \in {"stat", "read"}
  BY <1>4
<1>8. DeskFits(c)'
  BY <1>1, <1>2, <1>3, <1>4, <1>5, <1>6, <1>7 DEF DeskFits, ChangeSteps
<1> QED
  BY <1>2, <1>3, <1>4, <1>7, <1>8, DeskQuiet

LEMMA IdleStaysCalm ==
  ASSUME DInv, IInv', \A c \in Clients : pc'[c] = "idle" /\ my'[c].phase = "none", UNCHANGED files,
         fileTimestamp' <= UsersMtime,
         up' = "starting" => reading' = usersFile /\ newTimestamp' = UsersMtime
  PROVE  DInv'
<1>1. /\ disk' = disk /\ mtimes' = mtimes /\ UsersMtime' = UsersMtime /\ editing' = editing
      /\ usersFile' = usersFile
  BY DEF files, UsersMtime
<1>2. \A c \in Clients : DeskFits(c)'
  BY DEF DeskFits, ChangeSteps, HasReloaded, Verified
<1> QED
  BY <1>1, <1>2 DEF DInv

LEMMA DieStaysCalm == ASSUME DInv, IInv', Die PROVE DInv'
<1>1. /\ up' = "down" /\ fileTimestamp' = 0 /\ UNCHANGED files /\ UsersMtime \in Nat
      /\ \A c \in Clients : pc'[c] = "idle" /\ my'[c].phase = "none"
  BY Timestamps DEF Die, DInv, NoLocals
<1> QED
  BY <1>1, IdleStaysCalm

LEMMA PanickingStaysCalm == ASSUME DInv, IInv', NEW c \in Clients, Panicking(c) PROVE DInv'
BY DieStaysCalm DEF Panicking, UpdatePanics, StatPanics

LEMMA ProcessStaysCalm == ASSUME DInv, IInv', Process PROVE DInv'
<1>1. /\ UNCHANGED files /\ UNCHANGED clients /\ up # "up"
  BY DEF Process, Start, StartLine, Started
<1>2. \A c \in Clients : DeskFits(c)' /\ pc'[c] = "idle"
  <2> SUFFICES ASSUME NEW c \in Clients PROVE DeskFits(c)' /\ pc'[c] = "idle"
    OBVIOUS
  <2>1. pc[c] = "idle" /\ pc'[c] = "idle" /\ my'[c] = my[c] /\ DeskFits(c)
    BY <1>1, NotUpIsIdle DEF clients, DInv
  <2> QED
    BY <2>1 DEF DeskFits, HasReloaded, Verified, ChangeSteps
<1>3. /\ UsersMtime \in Nat /\ fileTimestamp <= UsersMtime
      /\ up = "starting" => reading = usersFile /\ newTimestamp = UsersMtime
  BY Timestamps DEF DInv
<1>4. /\ fileTimestamp' <= UsersMtime
      /\ up' = "starting" => reading' = usersFile /\ newTimestamp' = UsersMtime
  <2>1. CASE Start
    BY <1>3, <2>1 DEF Start, BeginReading, memory
  <2>2. CASE StartLine
    BY <1>3, <2>2 DEF StartLine, ReadLine, memory, world
  <2>3. CASE Started
    BY <1>3, <2>3 DEF Started
  <2> QED
    BY <2>1, <2>2, <2>3 DEF Process
<1>5. /\ disk' = disk /\ mtimes' = mtimes /\ UsersMtime' = UsersMtime /\ editing' = editing
      /\ usersFile' = usersFile
  BY <1>1 DEF files, UsersMtime
<1> QED
  BY <1>2, <1>4, <1>5 DEF DInv

\* A lookup changes nothing but the call, which goes on to a step after it.
LEMMA DeskLookup ==
  ASSUME DInv, IInv', NEW c \in Clients, pc[c] = "lookup", up' = up,
         \A d \in Clients \ {c} : pc'[d] = pc[d] /\ my'[d] = my[d],
         UNCHANGED <<db, fileTimestamp, newTimestamp, reading, files>>,
         my[c].phase \in {"verify", "target"}, pc'[c] \in {"add", "reload", "modify"},
         my'[c].phase \in {"verify", "target"},
         my'[c].asOf \in {my[c].asOf, UsersMtime}, my'[c].call = my[c].call, Allowed(my[c].call),
         pc'[c] = "modify" => my'[c].target = Found(my[c].call.code)
  PROVE  DInv'
<1>1. /\ DeskFits(c) /\ up = "up" /\ \A d \in Clients : pc[d] \notin {"stat", "read"}
      /\ UsersMtime \in Nat
  BY InCall, Timestamps DEF DInv, DeskFits, HasReloaded, Verified
<1>2. HasReloaded(c) /\ c \in Modifiers
  BY <1>1 DEF DeskFits, HasReloaded, Verified
<1>3. /\ UsersMtime' = UsersMtime
      /\ \A d \in Clients : pc'[d] \notin {"stat", "read"}
      /\ Allowed(my[c].call)' /\ Found(my[c].call.code)' = Found(my[c].call.code)
  BY <1>1 DEF files, UsersMtime, Allowed, Found
<1>4. DeskFits(c)'
  BY <1>1, <1>2, <1>3 DEF DeskFits
<1> QED
  BY <1>1, <1>4, DeskQuiet

LEMMA LookingUpStaysCalm ==
  ASSUME DInv, IInv', NEW c \in Clients, LookingUp(c)
  PROVE  DInv'
<1> USE DEF Lookup
<1>1. pc[c] = "lookup"
  BY DEF LookingUp, FindUser, AuthUser, VerifyOpAllowed, FindTarget
<1>2. /\ pc \in [Clients -> Steps] /\ my \in [Clients -> Locals] /\ my[c] \in Locals
      /\ DeskFits(c)
  BY <1>1, InCall DEF DInv, IInv, ClientsOK
<1>4. ASSUME FindUser(c) \/ AuthUser(c) \/ VerifyOpAllowed(c) \/ FindTarget(c)
      PROVE  UNCHANGED <<db, fileTimestamp, newTimestamp, reading, files>> /\ up' = up
  BY <1>4 DEF FindUser, AuthUser, VerifyOpAllowed, FindTarget, memory, loader, world
<1>5. CASE FindUser(c) \/ AuthUser(c)
  <2>1. \A u, t : AuthResult(u, t) \in Results
    BY DEF AuthResult, UserHasAccess, Results
  <2>2. PICK r \in Results : Answer(c, r)
    BY <1>5, <2>1 DEF FindUser, AuthUser, Results
  <2> QED
    BY <1>1, <1>4, <1>5, <2>2, DeskAnswer
<1>6. CASE VerifyOpAllowed(c)
  <2>1. CASE Answer(c, "refused")
    BY <1>1, <1>4, <1>6, <2>1, DeskAnswer DEF Results
  <2>2. CASE ~Answer(c, "refused")
    <3>1. /\ Allowed(my[c].call) /\ my[c].phase = "verify"
          /\ \/ Goto(c, "add") /\ my' = my
             \/ Goto(c, "reload") /\ my' = [my EXCEPT ![c].phase = "target", ![c].asOf = UsersMtime]
      BY <1>6, <2>2 DEF VerifyOpAllowed, MayAuthorise, Allowed
    <3>2. /\ \A d \in Clients \ {c} : pc'[d] = pc[d] /\ my'[d] = my[d]
          /\ pc'[c] \in {"add", "reload"} /\ my'[c].phase \in {"verify", "target"}
          /\ my'[c].asOf \in {my[c].asOf, UsersMtime} /\ my'[c].call = my[c].call
      BY <1>2, <3>1 DEF Goto, Locals
    <3> QED
      BY <1>1, <1>4, <1>6, <3>1, <3>2, DeskLookup
  <2> QED
    BY <2>1, <2>2
<1>7. CASE FindTarget(c)
  <2>1. /\ my[c].phase = "target" /\ Goto(c, "modify")
        /\ my' = [my EXCEPT ![c].target = Found(my[c].call.code), ![c].seen = revision]
    BY <1>7 DEF FindTarget
  <2>2. /\ \A d \in Clients \ {c} : pc'[d] = pc[d] /\ my'[d] = my[d]
        /\ pc'[c] = "modify" /\ my'[c].phase = "target" /\ my'[c].target = Found(my[c].call.code)
        /\ my'[c].asOf = my[c].asOf /\ my'[c].call = my[c].call
    BY <1>2, <2>1 DEF Goto, Locals
  <2>3. Allowed(my[c].call)
    BY <1>1, <1>2, <2>1 DEF DeskFits, Verified
  <2> QED
    BY <1>1, <1>4, <1>7, <2>1, <2>2, <2>3, DeskLookup
<1> QED
  BY <1>5, <1>6, <1>7 DEF LookingUp

\* The others while the one desk changes something.
LEMMA OthersWait ==
  ASSUME DInv, IInv', OneDesk, NEW c \in Clients, c \in Modifiers,
         HasReloaded(c) \/ fileLock = c,
         \A d \in Clients \ {c} : pc'[d] = pc[d] /\ my'[d] = my[d],
         UsersMtime <= UsersMtime', fileTimestamp <= fileTimestamp'
  PROVE  \A d \in Clients \ {c} : DeskFits(d)'
<1> SUFFICES ASSUME NEW d \in Clients \ {c} PROVE DeskFits(d)'
  OBVIOUS
<1>1. d \notin Modifiers
  BY DEF OneDesk
<1>2. DeskFits(c) /\ DeskFits(d) /\ IInv
  BY DEF DInv
<1>3. pc[d] \notin {"stat", "read"}
  BY <1>2, OneReader DEF DeskFits
<1>4. ~HasReloaded(d)
  BY <1>1, <1>2 DEF DeskFits, HasReloaded, Verified, ChangeSteps
<1> QED
  BY <1>3, <1>4, OthersCalm

LEMMA ChangingStaysCalm ==
  ASSUME DInv, IInv', OneDesk, NEW c \in Clients, Changing(c)
  PROVE  DInv'
<1>1. pc[c] \in {"add", "modify", "replace"}
  BY DEF Changing, AddUser, NotModified, ReplaceDelete, ReplaceAdd, DeleteUser
<1>2. /\ pc \in [Clients -> Steps] /\ my \in [Clients -> Locals] /\ up = "up" /\ DeskFits(c)
      /\ fileTimestamp \in Nat /\ UsersMtime \in Nat
  BY <1>1, InCall, Timestamps DEF DInv, IInv, ClientsOK
<1>3. c \in Modifiers /\ HasReloaded(c)
  BY <1>1, <1>2 DEF DeskFits, HasReloaded, Verified, ChangeSteps
<1>4. CASE NotModified(c)
  BY <1>1, <1>4, DeskAnswer DEF NotModified, memory, loader, world, Results
<1>5. ASSUME AddUser(c) \/ ReplaceDelete(c) \/ ReplaceAdd(c) \/ DeleteUser(c) PROVE DInv'
  <2>1. UNCHANGED files /\ up' = up /\ UNCHANGED <<fileTimestamp, newTimestamp, reading>>
    BY <1>5 DEF AddUser, ReplaceDelete, ReplaceAdd, DeleteUser, loader, world
  <2>2. /\ UsersMtime' = UsersMtime /\ disk' = disk /\ mtimes' = mtimes /\ editing' = editing
    BY <2>1 DEF files, UsersMtime
  <2>3. /\ \A d \in Clients \ {c} : pc'[d] = pc[d] /\ my'[d] = my[d]
        /\ pc'[c] \in {"post", "replace", "done"}
        /\ my'[c].phase = my[c].phase /\ my'[c].asOf = my[c].asOf
    <3>1. CASE AddUser(c)
      <4>1. CASE Answer(c, "refused")
        BY <1>2, <4>1 DEF Answer, Goto, Locals
      <4>2. CASE ~Answer(c, "refused")
        <5>1. PICK obj : Goto(c, "post") /\ my' = [my EXCEPT ![c].target = obj]
          BY <3>1, <4>2 DEF AddUser
        <5> QED
          BY <1>2, <5>1 DEF Goto, Locals
      <4> QED
        BY <4>1, <4>2
    <3>2. CASE ReplaceDelete(c)
      BY <1>2, <3>2 DEF ReplaceDelete, Goto, Locals
    <3>3. CASE ReplaceAdd(c)
      BY <1>2, <3>3 DEF ReplaceAdd, Answer, Goto, Locals
    <3>4. CASE DeleteUser(c)
      BY <1>2, <3>4 DEF DeleteUser, Answer, Goto, Locals
    <3> QED
      BY <1>5, <3>1, <3>2, <3>3, <3>4
  <2>4. \A d \in Clients \ {c} : DeskFits(d)'
    <3>1. UsersMtime <= UsersMtime' /\ fileTimestamp <= fileTimestamp'
      BY <1>2, <2>1, <2>2
    <3> QED
      BY <1>3, <2>3, <3>1, OthersWait
  <2>5. \A d \in Clients : pc[d] \notin {"stat", "read"}
    BY <1>2, <1>3 DEF DeskFits
  <2>6. \A d \in Clients : pc'[d] \notin {"stat", "read"}
    BY <2>3, <2>5
  <2>7. DeskFits(c)'
    BY <1>1, <1>2, <1>3, <2>1, <2>2, <2>3, <2>6 DEF DeskFits, Verified
  <2> QED
    BY <1>2, <2>1, <2>2, <2>4, <2>7 DEF DInv
<1> QED
  BY <1>4, <1>5 DEF Changing

\* What PutFile does to the timestamps.
LEMMA PutFileIs ==
  ASSUME DInv, NEW i \in Inodes, NEW lines, PutFile(i, lines)
  PROVE  /\ mtimes' = mtimes + 1 /\ mtimes \in Nat
         /\ \A j \in Inodes : disk'[j].mtime = IF j = i THEN mtimes + 1 ELSE disk[j].mtime
         /\ \A j \in Inodes : disk'[j].mtime <= mtimes'
         /\ \A j \in Inodes : j # i => disk'[j] = disk[j]
         /\ disk'[i].lines = lines
<1>1. /\ mtimes \in Nat /\ \A j \in Inodes : disk[j].mtime \in Nat /\ disk[j].mtime <= mtimes
      /\ disk \in [Inodes -> [lines: Seq(Lines), mtime: Nat]]
  BY Timestamps DEF DInv, IInv, FilesOK
<1>2. mtimes' = mtimes + 1 /\ disk' = [disk EXCEPT ![i] = [lines |-> lines, mtime |-> mtimes + 1]]
  BY DEF PutFile
<1>3. \A j \in Inodes : disk'[j] = IF j = i THEN [lines |-> lines, mtime |-> mtimes + 1] ELSE disk[j]
  BY <1>1, <1>2
<1>4. \A j \in Inodes : disk'[j].mtime = IF j = i THEN mtimes + 1 ELSE disk[j].mtime
  BY <1>3
<1> QED
  BY <1>1, <1>2, <1>3, <1>4

LEMMA WritingStaysCalm ==
  ASSUME DInv, IInv', OneDesk, NEW c \in Clients, Writing(c)
  PROVE  DInv'
<1>1. pc[c] \in {"append", "create", "write", "stamp"}
  BY DEF Writing, AppendEntry, AppendFails, CreateTemp, CreateFails, WriteRow, DiskFull, RenameTemp, Stamp
<1>2. /\ pc \in [Clients -> Steps] /\ my \in [Clients -> Locals] /\ up = "up" /\ DeskFits(c)
      /\ fileTimestamp \in Nat /\ UsersMtime \in Nat /\ mtimes \in Nat /\ my[c].asOf \in Nat
      /\ usersFile \in Inodes /\ Fits(c) /\ fileTimestamp <= UsersMtime /\ UsersMtime <= mtimes
  BY <1>1, InCall, Timestamps DEF DInv, IInv, ClientsOK, UsersMtime
<1>3. c \in Modifiers /\ my[c].asOf <= UsersMtime
  BY <1>1, <1>2 DEF DeskFits, ChangeSteps
<1>4. HasReloaded(c) \/ fileLock = c
  BY <1>1, <1>2 DEF HasReloaded, Fits, LocksHeld
<1>5. \A d \in Clients \ {c} : pc[d] \notin {"stat", "read"}
  <2>1. fileLock = c => \A d \in Clients \ {c} : pc[d] \notin {"stat", "read"}
    BY OneReader DEF DInv
  <2> QED
    BY <1>2, <1>4, <2>1 DEF DeskFits
<1>6. up' = up /\ editing' = editing /\ newTimestamp' = newTimestamp /\ reading' = reading
  BY DEF Writing, AppendEntry, AppendFails, CreateTemp, CreateFails, WriteRow, DiskFull, RenameTemp, Stamp,
         loader, files, world
\* What is left to show of a step.
<1>7. ASSUME \A d \in Clients \ {c} : pc'[d] = pc[d] /\ my'[d] = my[d],
             UsersMtime <= UsersMtime', fileTimestamp <= fileTimestamp', fileTimestamp' <= UsersMtime',
             \A j \in Inodes : disk'[j].mtime <= mtimes', DeskFits(c)'
      PROVE  DInv'
  <2>1. \A d \in Clients \ {c} : DeskFits(d)'
    BY <1>3, <1>4, <1>7, OthersWait
  <2> QED
    BY <1>2, <1>6, <1>7, <2>1 DEF DInv
<1>8. CASE AppendEntry(c)
  <2>1. PICK lines : PutFile(usersFile, lines)
    BY <1>8 DEF AppendEntry
  <2>2. /\ usersFile' = usersFile /\ fileTimestamp' = fileTimestamp /\ my' = my /\ pc'[c] = "stamp"
        /\ \A d \in Clients \ {c} : pc'[d] = pc[d]
    BY <1>2, <1>8 DEF AppendEntry, Goto, memory
  <2>3. /\ \A j \in Inodes : disk'[j].mtime <= mtimes'
        /\ UsersMtime' = mtimes + 1
    BY <1>2, <2>1, <2>2, PutFileIs DEF UsersMtime
  <2>4. DeskFits(c)'
    BY <1>1, <1>2, <1>3, <2>2, <2>3 DEF DeskFits, HasReloaded, Verified
  <2> QED
    BY <1>2, <1>7, <2>2, <2>3, <2>4
<1>9. CASE AppendFails(c)
  BY <1>1, <1>9, DeskAnswer DEF AppendFails, memory, loader, world, Results
<1>10. CASE CreateTemp(c)
  <2>1. PICK i \in Inodes : FreshInode(i) /\ PutFile(i, <<>>) /\ tmpFile' = i
                            /\ my' = [my EXCEPT ![c].fd = i, ![c].dump = db.userList]
    BY <1>10 DEF CreateTemp
  <2>2. i # usersFile
    BY <2>1 DEF FreshInode
  <2>3. /\ usersFile' = usersFile /\ fileTimestamp' = fileTimestamp /\ pc[c] = "create" /\ pc'[c] = "write"
        /\ my'[c].fd = i /\ my'[c].phase = my[c].phase /\ my'[c].asOf = my[c].asOf
        /\ \A d \in Clients \ {c} : pc'[d] = pc[d] /\ my'[d] = my[d]
    BY <1>2, <1>10, <2>1 DEF CreateTemp, Goto, memory, Locals
  <2>4. /\ \A j \in Inodes : disk'[j].mtime <= mtimes'
        /\ UsersMtime' = UsersMtime /\ disk'[i].mtime = mtimes + 1
    BY <1>2, <2>1, <2>2, <2>3, PutFileIs DEF UsersMtime
  <2>5. \A d \in Clients : pc'[d] \notin {"stat", "read"}
    BY <1>5, <2>3
  <2>6. fileTimestamp = UsersMtime
    BY <1>2, <2>3 DEF DeskFits, HasReloaded
  <2>7. DeskFits(c)'
    BY <1>2, <1>3, <2>1, <2>2, <2>3, <2>4, <2>5, <2>6 DEF DeskFits, Verified
  <2> QED
    BY <1>2, <1>7, <2>3, <2>4, <2>7
<1>11. CASE WriteRow(c)
  <2>1. /\ pc[c] = "write" /\ my' = [my EXCEPT ![c].dump = Tail(@)] /\ pc' = pc
        /\ usersFile' = usersFile /\ tmpFile' = tmpFile /\ fileTimestamp' = fileTimestamp
    BY <1>11 DEF WriteRow, memory
  <2>2. /\ my[c].fd # usersFile /\ my[c].fd = tmpFile /\ disk[my[c].fd].mtime > UsersMtime
        /\ my[c].fd \in Inodes /\ fileTimestamp = UsersMtime
    BY <1>2, <2>1 DEF DeskFits, Fits, LocalsOK, HasReloaded
  <2>3. /\ my'[c].fd = my[c].fd /\ my'[c].phase = my[c].phase /\ my'[c].asOf = my[c].asOf
        /\ \A d \in Clients \ {c} : pc'[d] = pc[d] /\ my'[d] = my[d]
    BY <1>2, <2>1 DEF Locals
  <2>4. /\ \A j \in Inodes : disk'[j].mtime <= mtimes'
        /\ UsersMtime' = UsersMtime /\ disk'[my[c].fd].mtime > UsersMtime
    <3>1. CASE disk' = disk /\ mtimes' = mtimes
      BY <2>1, <2>2, <3>1 DEF UsersMtime, DInv
    <3>2. CASE disk' # disk \/ mtimes' # mtimes
      <4>1. PICK lines : PutFile(my[c].fd, lines)
        BY <1>11, <3>2 DEF WriteRow
      <4> HIDE <3>2
      <4> QED
        BY <1>2, <2>1, <2>2, <4>1, PutFileIs DEF UsersMtime
    <3> QED
      BY <3>1, <3>2
  <2>5. \A d \in Clients : pc'[d] \notin {"stat", "read"}
    BY <1>5, <2>1
  <2>6. DeskFits(c)'
    BY <1>2, <1>3, <2>1, <2>2, <2>3, <2>4, <2>5 DEF DeskFits, Verified
  <2> QED
    BY <1>2, <1>7, <2>1, <2>3, <2>4, <2>6
<1>12. CASE DiskFull(c)
  <2>1. /\ pc[c] = "write" /\ my' = [my EXCEPT ![c].dump = <<>>] /\ pc' = pc /\ UNCHANGED files
        /\ fileTimestamp' = fileTimestamp /\ db' = db
    BY <1>12 DEF DiskFull, memory
  <2>2. /\ my'[c].fd = my[c].fd /\ my'[c].phase = my[c].phase /\ my'[c].asOf = my[c].asOf
        /\ \A d \in Clients \ {c} : pc'[d] = pc[d] /\ my'[d] = my[d]
    BY <1>2, <2>1 DEF Locals
  <2>3. UsersMtime' = UsersMtime /\ disk' = disk /\ usersFile' = usersFile /\ tmpFile' = tmpFile
    BY <2>1 DEF files, UsersMtime
  <2>4. HasReloaded(c)
    BY <2>1 DEF HasReloaded
  <2>5. DeskFits(c)'
    BY <1>2, <1>3, <2>1, <2>2, <2>3, <2>4 DEF DeskFits, Verified
  <2> QED
    BY <1>2, <1>6, <2>1, <2>2, <2>5, DeskQuiet
<1>13. CASE RenameTemp(c)
  <2>1. /\ my[c].fd # usersFile /\ my[c].fd = tmpFile /\ disk[my[c].fd].mtime > UsersMtime
        /\ my[c].fd \in Inodes
    BY <1>2, <1>13 DEF RenameTemp, DeskFits, Fits, LocalsOK
  <2>2. tmpFile # 0 /\ disk[tmpFile].mtime \in Nat
    BY <2>1, Constants, Timestamps DEF DInv
  <2>3. /\ usersFile' = tmpFile /\ disk' = disk /\ mtimes' = mtimes /\ fileTimestamp' = fileTimestamp
        /\ my' = [my EXCEPT ![c].fd = 0] /\ pc' = [pc EXCEPT ![c] = "stamp"]
    BY <1>13, <2>2 DEF RenameTemp, Goto, memory
  <2>4. UsersMtime' = disk[tmpFile].mtime /\ UsersMtime' > UsersMtime
    BY <2>1, <2>3 DEF UsersMtime
  <2>5. /\ pc'[c] = "stamp" /\ my'[c].phase = my[c].phase /\ my'[c].asOf = my[c].asOf
        /\ \A d \in Clients \ {c} : pc'[d] = pc[d] /\ my'[d] = my[d]
    BY <1>2, <2>3 DEF Locals
  <2>6. UsersMtime' \in Nat /\ my[c].asOf <= UsersMtime'
    BY <1>2, <1>3, <2>2, <2>4
  <2>7. DeskFits(c)'
    BY <1>3, <2>5, <2>6 DEF DeskFits, HasReloaded, Verified
  <2>8. \A j \in Inodes : disk'[j].mtime <= mtimes'
    BY <2>3 DEF DInv
  <2>9. UsersMtime <= UsersMtime' /\ fileTimestamp <= fileTimestamp' /\ fileTimestamp' <= UsersMtime'
    BY <1>2, <2>3, <2>4, <2>6
  <2> QED
    BY <1>7, <2>5, <2>7, <2>8, <2>9
<1>14. CASE Stamp(c)
  <2>1. /\ fileTimestamp' = UsersMtime /\ UNCHANGED files
        /\ my' = [my EXCEPT ![c].result = "ok"] /\ pc' = [pc EXCEPT ![c] = "done"]
    BY <1>14 DEF Stamp, Answer, Goto
  <2>2. UsersMtime' = UsersMtime /\ disk' = disk /\ mtimes' = mtimes
    BY <2>1 DEF files, UsersMtime
  <2>3. /\ pc'[c] = "done" /\ my'[c].phase = my[c].phase /\ my'[c].asOf = my[c].asOf
        /\ \A d \in Clients \ {c} : pc'[d] = pc[d] /\ my'[d] = my[d]
    BY <1>2, <2>1 DEF Locals
  <2>4. DeskFits(c)'
    BY <1>3, <2>2, <2>3 DEF DeskFits, HasReloaded, Verified
  <2>5. \A j \in Inodes : disk'[j].mtime <= mtimes'
    BY <2>2 DEF DInv
  <2> QED
    BY <1>2, <1>7, <2>1, <2>2, <2>3, <2>4, <2>5
<1>15. CASE CreateFails(c)
  <2>1. /\ Answer(c, "refused") /\ usersFile' = usersFile /\ disk' = disk /\ mtimes' = mtimes
        /\ fileTimestamp' = fileTimestamp
    BY <1>15 DEF CreateFails, memory
  <2>2. /\ pc' = [pc EXCEPT ![c] = "done"] /\ my' = [my EXCEPT ![c].result = "refused"]
        /\ UsersMtime' = UsersMtime
    BY <2>1 DEF Answer, Goto, UsersMtime
  <2>3. /\ pc'[c] = "done" /\ my'[c].phase = my[c].phase /\ my'[c].asOf = my[c].asOf
        /\ \A d \in Clients \ {c} : pc'[d] = pc[d] /\ my'[d] = my[d]
    BY <1>2, <2>2 DEF Locals
  <2>4. DeskFits(c)'
    BY <1>3, <2>2, <2>3 DEF DeskFits, HasReloaded, Verified
  <2>5. \A j \in Inodes : disk'[j].mtime <= mtimes'
    BY <2>1 DEF DInv
  <2> QED
    BY <1>2, <1>7, <2>1, <2>2, <2>3, <2>4, <2>5
<1> QED
  BY <1>15, <1>8, <1>9, <1>10, <1>11, <1>12, <1>13, <1>14 DEF Writing

LEMMA SurroundingsStayCalm == ASSUME DInv, IInv', CalmEdits, Surroundings PROVE DInv'
<1>1. CASE Crash
  BY <1>1, DieStaysCalm DEF Crash
<1>2. CASE Tick
  <2>1. /\ UNCHANGED <<db, fileTimestamp, newTimestamp, reading, pc, my, up>> /\ UNCHANGED files
    BY <1>2 DEF Tick, memory, loader, clients
  <2>2. UsersMtime' = UsersMtime /\ UNCHANGED <<disk, usersFile, tmpFile, mtimes, editing>>
    BY <2>1 DEF files, UsersMtime
  <2>3. ASSUME NEW c \in Clients PROVE DeskFits(c)'
    <3>1. DeskFits(c)
      BY DEF DInv
    <3>2. /\ HasReloaded(c)' = HasReloaded(c) /\ Verified(c)' = Verified(c)
          /\ Allowed(my[c].call)' = Allowed(my[c].call)
          /\ Found(my[c].call.code)' = Found(my[c].call.code)
      BY <2>1 DEF HasReloaded, Verified, Allowed, Found
    <3> QED
      BY <2>1, <2>2, <3>1, <3>2 DEF DeskFits
  <2> QED
    BY <2>1, <2>2, <2>3 DEF DInv
<1>3. ~EditEnd /\ ~EditBegin
  BY DEF EditEnd, EditBegin, EditStarts, CalmEdits, DInv
<1>4. CASE EditFile
  <2>1. /\ \A c \in Clients : pc[c] = "idle" /\ pc'[c] = "idle" /\ my'[c] = my[c]
        /\ up = "up" /\ up' = up /\ fileTimestamp' = fileTimestamp /\ editing' = editing
    BY <1>4 DEF EditFile, EditStarts, CalmEdits, memory, clients
  <2>2. PICK i, lines : i \in Inodes /\ PutFile(i, lines) /\ usersFile' = i
    BY <1>4 DEF EditFile
  <2>3. /\ \A j \in Inodes : disk'[j].mtime <= mtimes'
        /\ UsersMtime' = mtimes + 1 /\ mtimes \in Nat
    BY <2>2, PutFileIs DEF UsersMtime
  <2>4. fileTimestamp <= mtimes /\ fileTimestamp \in Nat
    BY Timestamps DEF DInv, UsersMtime
  <2>5. ASSUME NEW c \in Clients PROVE DeskFits(c)'
    <3>1. DeskFits(c)
      BY DEF DInv
    <3>2. ~HasReloaded(c)' /\ ~Verified(c)'
      BY <2>1 DEF HasReloaded, Verified
    <3> QED
      BY <2>1, <3>1, <3>2 DEF DeskFits
  <2> QED
    BY <2>1, <2>3, <2>4, <2>5 DEF DInv
<1> QED
  BY <1>1, <1>2, <1>3, <1>4 DEF Surroundings

LEMMA CalmInit == Init => DInv
<1> SUFFICES ASSUME Init PROVE DInv
  OBVIOUS
<1>1. IInv
  BY InitFits
<1>2. /\ fileTimestamp = 0 /\ mtimes = 1 /\ up = "down" /\ usersFile \in Inodes /\ editing = Nil
      /\ disk = [i \in Inodes |-> IF i = usersFile THEN [lines |-> InitialFile, mtime |-> 1]
                                  ELSE [lines |-> <<>>, mtime |-> 0]]
      /\ \A c \in Clients : pc[c] = "idle" /\ my[c].phase = "none"
  BY DEF Init, NoLocals
<1>3. \A i \in Inodes : disk[i].mtime = IF i = usersFile THEN 1 ELSE 0
  BY <1>2
<1>4. (\A i \in Inodes : disk[i].mtime <= mtimes) /\ fileTimestamp <= UsersMtime
  BY <1>2, <1>3 DEF UsersMtime
<1>5. \A c \in Clients : DeskFits(c)
  BY <1>2 DEF DeskFits, HasReloaded, Verified, ChangeSteps
<1> QED
  BY <1>1, <1>2, <1>4, <1>5 DEF DInv

LEMMA CalmNext == CalmDesk /\ DInv /\ [Next]_vars => DInv'
<1> SUFFICES ASSUME CalmDesk, DInv, [Next]_vars PROVE DInv'
  OBVIOUS
<1>5. OneDesk /\ CalmEdits /\ ~ReadMayFail
  BY DEF CalmDesk
<1>0. IInv'
  BY NextKeeps DEF DInv
<1>1. ASSUME NEW c \in Clients, Called(c) \/ Step(c) PROVE DInv'
  BY <1>5, <1>0, <1>1, CalledStaysCalm, ReloadingStaysCalm, LookingUpStaysCalm, ChangingStaysCalm,
     WritingStaysCalm, ReturnStaysCalm, PanickingStaysCalm, PostingStaysCalm DEF Step, Proceeding
<1>2. CASE Process
  BY <1>0, <1>2, ProcessStaysCalm
<1>3. CASE Surroundings
  BY <1>5, <1>0, <1>3, SurroundingsStayCalm
<1>4. CASE UNCHANGED vars
  <2>1. /\ UNCHANGED <<db, fileTimestamp, newTimestamp, reading, pc, my, up>>
        /\ UNCHANGED <<disk, usersFile, tmpFile, mtimes, editing>>
    BY <1>4 DEF vars, memory, loader, files, clients, world
  <2>2. UsersMtime' = UsersMtime
    BY <2>1 DEF UsersMtime
  <2>3. ASSUME NEW c \in Clients PROVE DeskFits(c)'
    <3>1. DeskFits(c)
      BY DEF DInv
    <3>2. /\ HasReloaded(c)' = HasReloaded(c) /\ Verified(c)' = Verified(c)
          /\ Allowed(my[c].call)' = Allowed(my[c].call)
          /\ Found(my[c].call.code)' = Found(my[c].call.code)
      BY <2>1 DEF HasReloaded, Verified, Allowed, Found
    <3> QED
      BY <2>1, <2>2, <3>1, <3>2 DEF DeskFits
  <2> QED
    BY <1>0, <2>1, <2>2, <2>3 DEF DInv
<1> QED
  BY <1>1, <1>2, <1>3, <1>4 DEF Next

LEMMA OneDeskInvariant == CalmDesk => (Spec => []DInv)
<1> SUFFICES ASSUME CalmDesk PROVE Spec => []DInv
  OBVIOUS
<1>1. DInv /\ [Next]_vars => DInv'
  BY CalmNext
<1> QED
  BY <1>1, CalmInit, PTL DEF Spec

\* With one desk, edits between calls and a file that can be read, an update
\* changes the very user that was looked up (authenticator.go:229-230): no
\* reload comes between.
THEOREM UpdatesSeen == CalmDesk => (FairSpec => UpdatesWhatWasSeen)
<1> SUFFICES ASSUME CalmDesk PROVE FairSpec => UpdatesWhatWasSeen
  OBVIOUS
<1>1. ASSUME DInv, NEW c \in Clients, ReplaceDelete(c) PROVE my[c].target \in ObjectsOf(db)
  <2>1. pc[c] = "modify" /\ my[c].call.op = "update" /\ DeskFits(c) /\ Fits(c) /\ IndexesAgree(db)
        /\ db \in Databases
    BY <1>1 DEF ReplaceDelete, DInv, IInv, IndexConsistent, MemoryOK
  <2>2. my[c].target = Found(my[c].call.code) /\ my[c].target \in Objects
        /\ my[c].call \in UpdateCalls \cup DeleteCalls
    BY <2>1 DEF DeskFits, Fits, CallFits
  <2>3. my[c].call.code \in Codes /\ my[c].target # Nil
    BY <2>2, Constants DEF UpdateCalls, DeleteCalls, Codes
  <2> QED
    BY <2>1, <2>2, <2>3 DEF IndexesAgree, Found
<1>2. DInv => \A c \in Clients : ReplaceDelete(c) => my[c].target \in ObjectsOf(db)
  BY <1>1
<1>3. Spec => []DInv
  BY OneDeskInvariant
<1> QED
  BY <1>2, <1>3, PTL DEF UpdatesWhatWasSeen, FairSpec

\* With one desk, edits between calls and a file that can be read, whoever
\* authorised a change is, when the change is made, still listed with a level
\* that allows it (verifyOpAllowed is long over by then).
THEOREM StaysAuthorised == CalmDesk => (Spec => ChangesAreAuthorised)
<1> SUFFICES ASSUME CalmDesk PROVE Spec => ChangesAreAuthorised
  OBVIOUS
<1>1. DInv => \A c \in Clients : AddUser(c) \/ ReplaceDelete(c) \/ DeleteUser(c) =>
                LET by == Found(my[c].call.auth)
                IN  by # Nil /\ IsOpAllowed(my[c].call.op, by.user.level)
  BY DEF DInv, DeskFits, Verified, Allowed, AddUser, ReplaceDelete, DeleteUser
<1>2. Spec => []DInv
  BY OneDeskInvariant
<1> QED
  BY <1>1, <1>2, PTL DEF ChangesAreAuthorised

\* With one desk, edits between calls and a file that can be read, too, no lookup
\* uses a list older than the file was when the call was made, although the file
\* is also replaced.
THEOREM LookupsStayFresh == CalmDesk => (Spec => []LookupIsFresh)
<1> SUFFICES ASSUME CalmDesk PROVE Spec => []LookupIsFresh
  OBVIOUS
<1>1. DInv => LookupIsFresh
  <2> SUFFICES ASSUME DInv, NEW c \in Clients, pc[c] = "lookup" PROVE fileTimestamp >= my[c].asOf
    BY DEF LookupIsFresh
  <2>1. fileTimestamp \in Nat /\ my[c].asOf \in Nat /\ DeskFits(c)
    BY Timestamps DEF DInv
  <2> QED
    BY <2>1 DEF DeskFits
<1>2. Spec => []DInv
  BY OneDeskInvariant
<1> QED
  BY <1>1, <1>2, PTL

\* One desk, with edits between calls and a file that can be read, never dumps
\* into the file that is in place: what its dump goes to is the temporary file
\* until it is renamed (authenticator.go:461, "Atomic rename").
THEOREM FileStaysComplete == CalmDesk => (Spec => []FileIsComplete)
<1> SUFFICES ASSUME CalmDesk PROVE Spec => []FileIsComplete
  OBVIOUS
<1>1. DInv => FileIsComplete
  BY DEF DInv, DeskFits, FileIsComplete
<1> QED
  BY <1>1, OneDeskInvariant, PTL

-----------------------------------------------------------------------------
(* Induction, over sets of numbers, and what it says of functions that are *)
(* defined step by step.                                                   *)

LEMMA NatLess == IsWellFoundedOn({ss \in Nat \X Nat : ss[1] < ss[2]}, Nat)
BY NatLessThanWellFounded DEF OpToRel

LEMMA SetInduction ==
  ASSUME NEW T \in SUBSET Nat, 0 \in T, \A n \in T : n + 1 \in T
  PROVE  T = Nat
<1> DEFINE R == {ss \in Nat \X Nat : ss[1] < ss[2]}
           U == Nat \ T
<1> SUFFICES ASSUME U # {} PROVE FALSE
  OBVIOUS
<1>1. IsWellFoundedOn(R, Nat)
  BY NatLess
<1>2. U \subseteq Nat
  OBVIOUS
<1> HIDE DEF U
<1>3. PICK x \in U : \A y \in U : ~ (<<y, x>> \in R)
  BY <1>1, <1>2, WFMin
<1>4. x \in Nat /\ x # 0
  BY <1>2 DEF U
<1>5. x - 1 \in Nat /\ <<x - 1, x>> \in R
  BY <1>4
<1>6. x - 1 \in T
  BY <1>3, <1>5 DEF U
<1>7. x - 1 + 1 = x
  BY <1>4
<1> QED
  BY <1>6, <1>7, <1>4 DEF U

Follows(f, x, g, n) == f[0] = x /\ \A m \in 1..n : f[m] = g[<<m, f[m - 1]>>]

\* There is a function that starts with x and goes on as g says, ...
LEMMA Recursion ==
  ASSUME NEW S, NEW x \in S, NEW N \in Nat, NEW g \in [(1..N) \X S -> S]
  PROVE  \E f \in [0..N -> S] : Follows(f, x, g, N)
<1> DEFINE Begun(f, n) == f[0] = x /\ \A m \in 1..n : f[m] = g[<<m, f[m - 1]>>]
           T == {n \in Nat : n <= N => \E f \in [0..n -> S] : Begun(f, n)}
<1>1. 0 \in T
  <2> DEFINE f == [m \in 0..0 |-> x]
  <2>1. f \in [0..0 -> S] /\ Begun(f, 0)
    OBVIOUS
  <2> HIDE DEF f
  <2> QED
    BY <2>1
<1>2. ASSUME NEW n \in T PROVE n + 1 \in T
  <2> SUFFICES ASSUME n + 1 <= N PROVE \E f \in [0..(n + 1) -> S] : Begun(f, n + 1)
    OBVIOUS
  <2>1. n \in Nat /\ n <= N /\ n + 1 \in 1..N
    OBVIOUS
  <2>2. PICK f \in [0..n -> S] : Begun(f, n)
    BY <2>1
  <2> DEFINE h == [m \in 0..(n + 1) |-> IF m = n + 1 THEN g[<<n + 1, f[n]>>] ELSE f[m]]
  <2>3. f[n] \in S /\ <<n + 1, f[n]>> \in (1..N) \X S
    BY <2>1
  <2>4. g[<<n + 1, f[n]>>] \in S
    BY <2>3
  <2>5. h \in [0..(n + 1) -> S]
    <3>1. \A m \in 0..(n + 1) : m # n + 1 => m \in 0..n
      BY <2>1
    <3> QED
      BY <2>4, <3>1
  <2>6. h[n + 1] = g[<<n + 1, f[n]>>] /\ \A m \in 0..n : h[m] = f[m]
    BY <2>1
  <2> HIDE DEF h
  <2>7. ASSUME NEW m \in 1..(n + 1) PROVE h[m] = g[<<m, h[m - 1]>>]
    <3>1. CASE m = n + 1
      <4>1. m - 1 = n /\ n \in 0..n
        BY <2>1, <3>1
      <4> QED
        BY <2>6, <3>1, <4>1
    <3>2. CASE m # n + 1
      <4>1. m \in 1..n /\ m \in 0..n /\ m - 1 \in 0..n
        BY <2>1, <3>2
      <4> QED
        BY <2>2, <2>6, <4>1
    <3> QED
      BY <3>1, <3>2
  <2>8. h[0] = x
    BY <2>1, <2>2, <2>6
  <2> QED
    BY <2>5, <2>7, <2>8
<1>3. T \in SUBSET Nat
  OBVIOUS
<1> HIDE DEF T
<1>4. N \in T
  BY <1>1, <1>2, <1>3, SetInduction
<1> QED
  BY <1>4 DEF T, Follows

\* ... and no other.
Alike(e, f, n) == e[n] = f[n]

LEMMA SameSteps ==
  ASSUME NEW N \in Nat, NEW e, NEW f, Alike(e, f, 0),
         \A n \in 1..N : Alike(e, f, n - 1) => Alike(e, f, n)
  PROVE  \A n \in 0..N : Alike(e, f, n)
<1> DEFINE T == {n \in Nat : n <= N => Alike(e, f, n)}
<1>1. 0 \in T
  OBVIOUS
<1>2. ASSUME NEW n \in T PROVE n + 1 \in T
  <2> SUFFICES ASSUME n + 1 <= N PROVE Alike(e, f, n + 1)
    OBVIOUS
  <2>1. n \in Nat /\ n <= N /\ n + 1 \in 1..N /\ (n + 1) - 1 = n
    OBVIOUS
  <2> QED
    BY <2>1
<1>3. T \in SUBSET Nat
  OBVIOUS
<1> HIDE DEF T
<1>4. T = Nat
  BY <1>1, <1>2, <1>3, SetInduction
<1> QED
  BY <1>4 DEF T

-----------------------------------------------------------------------------
(* What reading a file makes of its lines, one after the other.            *)

\* A record that can be written as a row and found in it again.
Readable(user) == user.name # "hash" /\ user.codes # {}
StoredUsers == {u \in UserRecords : Readable(u) /\ Reloaded(u) = u}

LEMMA RowIsLine ==
  ASSUME NEW u \in UserRecords, Readable(u)
  PROVE  /\ WriteCSV(u) \in Lines /\ IsUserRow(WriteCSV(u)) /\ ~EndsReading(WriteCSV(u))
         /\ Reloaded(u).codes = u.codes /\ NewUserFromCSV(WriteCSV(u)) = Reloaded(u)
<1>1. FormatTime(u.from) \in {0} \cup UtcInstant /\ FormatTime(u.to) \in {0} \cup UtcInstant
  BY TimeColumn DEF UserRecords
<1>2. /\ u.name \in NameKinds /\ u.contact \in BOOLEAN
      /\ u.level \in Levels /\ u.codes \in SUBSET Codes
  BY DEF UserRecords, Codes
<1>3. WriteCSV(u) \in Columns
  BY <1>1, <1>2 DEF WriteCSV, Columns
<1>4. WriteCSV(u) \in Lines /\ WriteCSV(u) \notin {Garbled, ShortRow}
  BY <1>3, LineAssumption DEF Lines
<1>5. /\ WriteCSV(u).name = u.name /\ WriteCSV(u).level = u.level /\ WriteCSV(u).codes = u.codes
  BY DEF WriteCSV
<1>6. Reloaded(u).codes = u.codes
  BY <1>5 DEF Reloaded, NewUserFromCSV, Readable
<1> QED
  BY <1>2, <1>4, <1>5, <1>6 DEF IsUserRow, EndsReading, Readable, Reloaded

\* What has been read is written as it was read.
LEMMA ReadIsStored ==
  ASSUME NEW line \in Lines, IsUserRow(line)
  PROVE  NewUserFromCSV(line) \in StoredUsers
<1>1. line \in Columns /\ line.level \in Levels /\ line.name # "hash"
  BY DEF IsUserRow, Lines
<1>2. ASSUME NEW field \in {0} \cup UtcInstant PROVE FormatTime(ParseTime(field)) = field
  <2>1. field \in Int /\ field % 60 = 0 /\ MinuteLen = 60
    BY DEF UtcInstant, MinuteLen
  <2> QED
    BY <2>1 DEF FormatTime, ParseTime, IsZero, WallClock
<1>3. FormatTime(ParseTime(line.from)) = line.from /\ FormatTime(ParseTime(line.to)) = line.to
  BY <1>1, <1>2 DEF Columns
<1> DEFINE u == NewUserFromCSV(line)
<1>4. /\ u.name = line.name /\ u.contact = line.contact /\ u.level = line.level
      /\ u.from = ParseTime(line.from) /\ u.to = ParseTime(line.to)
      /\ u.codes = (IF line.codes = {} THEN {NoCode} ELSE line.codes)
      /\ u = [name |-> u.name, contact |-> u.contact, level |-> u.level,
              from |-> u.from, to |-> u.to, codes |-> u.codes]
  BY DEF NewUserFromCSV
<1>5. u \in UserRecords
  BY LineIsUser
<1> HIDE DEF u
<1>6. u.codes # {}
  BY <1>4
<1>7. WriteCSV(u).name = u.name /\ WriteCSV(u).contact = u.contact /\ WriteCSV(u).level = u.level
      /\ WriteCSV(u).from = line.from /\ WriteCSV(u).to = line.to /\ WriteCSV(u).codes = u.codes
  BY <1>3, <1>4 DEF WriteCSV
<1>8. Reloaded(u) = [name |-> u.name, contact |-> u.contact, level |-> u.level,
                     from |-> ParseTime(line.from), to |-> ParseTime(line.to), codes |-> u.codes]
  BY <1>6, <1>7 DEF Reloaded, NewUserFromCSV
<1> QED
  BY <1>1, <1>4, <1>5, <1>6, <1>8 DEF StoredUsers, Readable, u

NoneLoaded == [users |-> <<>>, ended |-> FALSE]
Loads == [users: Seq(StoredUsers), ended: BOOLEAN]

LEMMA NextLoadedType ==
  ASSUME NEW before \in Loads, NEW line \in Lines
  PROVE  NextLoaded(before, line) \in Loads
<1>1. CASE before.ended \/ EndsReading(line)
  BY <1>1 DEF NextLoaded, Loads
<1>2. CASE ~(before.ended \/ EndsReading(line)) /\ (~IsUserRow(line) \/ Taken(before.users, line))
  BY <1>2 DEF NextLoaded
<1>3. CASE ~(before.ended \/ EndsReading(line)) /\ ~(~IsUserRow(line) \/ Taken(before.users, line))
  <2>1. NewUserFromCSV(line) \in StoredUsers
    BY <1>3, ReadIsStored
  <2>2. Append(before.users, NewUserFromCSV(line)) \in Seq(StoredUsers)
    BY <2>1 DEF Loads
  <2>3. NextLoaded(before, line) = [before EXCEPT !.users = Append(@, NewUserFromCSV(line))]
    BY <1>3 DEF NextLoaded
  <2> QED
    BY <2>2, <2>3 DEF Loads
<1> QED
  BY <1>1, <1>2, <1>3

LEMMA LoadingIs ==
  ASSUME NEW lines \in Seq(Lines)
  PROVE  /\ Loading(lines) \in [0..Len(lines) -> Loads]
         /\ Loading(lines)[0] = NoneLoaded
         /\ \A n \in 1..Len(lines) :
              Loading(lines)[n] = NextLoaded(Loading(lines)[n - 1], lines[n])
<1> DEFINE g == [p \in (1..Len(lines)) \X Loads |-> NextLoaded(p[2], lines[p[1]])]
           Eq(f) == f = [n \in 0..Len(lines) |-> IF n = 0 THEN NoneLoaded
                                                 ELSE NextLoaded(f[n - 1], lines[n])]
<1>1. Len(lines) \in Nat /\ \A n \in 1..Len(lines) : lines[n] \in Lines
  OBVIOUS
<1>2. g \in [(1..Len(lines)) \X Loads -> Loads]
  BY <1>1, NextLoadedType
<1>3. NoneLoaded \in Loads
  BY DEF NoneLoaded, Loads
<1>4. \A n \in 1..Len(lines), b \in Loads : g[<<n, b>>] = NextLoaded(b, lines[n])
  OBVIOUS
<1> HIDE DEF g
<1>5. PICK f \in [0..Len(lines) -> Loads] : Follows(f, NoneLoaded, g, Len(lines))
  BY <1>1, <1>2, <1>3, Recursion
<1>6. ASSUME NEW n \in 1..Len(lines) PROVE f[n] = NextLoaded(f[n - 1], lines[n])
  <2>1. n - 1 \in 0..Len(lines)
    BY <1>1
  <2> QED
    BY <1>4, <1>5, <2>1 DEF Follows
<1>7. Eq(f)
  <2>1. \A n \in 0..Len(lines) : n # 0 => n \in 1..Len(lines)
    BY <1>1
  <2> QED
    BY <1>5, <1>6, <2>1 DEF Follows
<1>8. Loading(lines) = CHOOSE e : Eq(e)
  BY DEF Loading, NoneLoaded
<1>9. Eq(Loading(lines))
  BY <1>7, <1>8
<1> DEFINE l == Loading(lines)
<1>10. l = [n \in 0..Len(lines) |-> IF n = 0 THEN NoneLoaded ELSE NextLoaded(l[n - 1], lines[n])]
  BY <1>9
<1> HIDE DEF l, Eq
<1>11. l[0] = NoneLoaded /\ \A n \in 1..Len(lines) : l[n] = NextLoaded(l[n - 1], lines[n])
  <2>1. 0 \in 0..Len(lines) /\ \A n \in 1..Len(lines) : n \in 0..Len(lines) /\ n # 0
    BY <1>1
  <2> QED
    BY <1>10, <2>1
<1>12. ASSUME NEW n \in 1..Len(lines), Alike(l, f, n - 1) PROVE Alike(l, f, n)
  BY <1>6, <1>11, <1>12 DEF Alike
<1>13. \A n \in 0..Len(lines) : l[n] = f[n]
  <2>1. Alike(l, f, 0)
    BY <1>1, <1>5, <1>11 DEF Follows, Alike
  <2>2. \A n \in 0..Len(lines) : Alike(l, f, n)
    BY <1>1, <1>12, <2>1, SameSteps
  <2> QED
    BY <2>2 DEF Alike
<1>14. l \in [0..Len(lines) -> Loads]
  BY <1>10, <1>13
<1> QED
  BY <1>11, <1>14 DEF l

\* A further line does not change what the lines before it come to.
LEMMA LoadingPrefix ==
  ASSUME NEW lines \in Seq(Lines), NEW line \in Lines
  PROVE  /\ Append(lines, line) \in Seq(Lines) /\ Len(Append(lines, line)) = Len(lines) + 1
         /\ \A n \in 0..Len(lines) : Loading(Append(lines, line))[n] = Loading(lines)[n]
         /\ Loading(Append(lines, line))[Len(lines) + 1] = NextLoaded(Loading(lines)[Len(lines)], line)
<1> DEFINE more == Append(lines, line)
           N == Len(lines)
<1>1. /\ more \in Seq(Lines) /\ N \in Nat /\ Len(more) = N + 1 /\ more[N + 1] = line
      /\ \A n \in 1..N : more[n] = lines[n]
  OBVIOUS
<1>2. /\ Loading(lines)[0] = NoneLoaded
      /\ \A n \in 1..N : Loading(lines)[n] = NextLoaded(Loading(lines)[n - 1], lines[n])
  BY LoadingIs
<1> HIDE DEF more
<1>3. /\ Loading(more)[0] = NoneLoaded
      /\ \A n \in 1..(N + 1) : Loading(more)[n] = NextLoaded(Loading(more)[n - 1], more[n])
  BY <1>1, LoadingIs
<1> HIDE DEF N
<1>4. ASSUME NEW n \in 1..N, Alike(Loading(more), Loading(lines), n - 1)
      PROVE  Alike(Loading(more), Loading(lines), n)
  <2>1. n \in 1..(N + 1)
    BY <1>1
  <2> QED
    BY <1>1, <1>2, <1>3, <1>4, <2>1 DEF Alike
<1>5. \A n \in 0..N : Loading(more)[n] = Loading(lines)[n]
  <2>1. Alike(Loading(more), Loading(lines), 0)
    BY <1>2, <1>3 DEF Alike
  <2>2. \A n \in 0..N : Alike(Loading(more), Loading(lines), n)
    BY <1>1, <1>4, <2>1, SameSteps
  <2> QED
    BY <2>2 DEF Alike
<1>6. Loading(more)[N + 1] = NextLoaded(Loading(lines)[N], line)
  <2>1. N + 1 \in 1..(N + 1) /\ (N + 1) - 1 = N /\ N \in 0..N
    BY <1>1
  <2> QED
    BY <1>1, <1>3, <1>5, <2>1
<1> QED
  BY <1>1, <1>5, <1>6 DEF more, N

Clean(lines) == \A i \in DOMAIN lines : ~EndsReading(lines[i])

LEMMA CleanNeverEnds ==
  ASSUME NEW lines \in Seq(Lines), Clean(lines)
  PROVE  \A n \in 0..Len(lines) : ~Loading(lines)[n].ended
<1> DEFINE l == Loading(lines)
           N == Len(lines)
           T == {n \in Nat : n <= N => ~l[n].ended}
<1>1. l[0] = NoneLoaded /\ l \in [0..N -> Loads] /\ \A n \in 1..N : l[n] = NextLoaded(l[n - 1], lines[n])
  BY LoadingIs
<1>2. N \in Nat /\ \A n \in 1..N : ~EndsReading(lines[n])
  BY DEF Clean
<1> HIDE DEF l, N
<1>3. 0 \in T
  BY <1>1 DEF NoneLoaded
<1>4. ASSUME NEW n \in T PROVE n + 1 \in T
  <2> SUFFICES ASSUME n + 1 <= N PROVE ~l[n + 1].ended
    OBVIOUS
  <2>1. n \in Nat /\ n \in 0..N /\ n + 1 \in 1..N /\ (n + 1) - 1 = n /\ ~l[n].ended
    BY <1>2
  <2>2. l[n + 1] = NextLoaded(l[n], lines[n + 1]) /\ l[n] \in Loads /\ ~EndsReading(lines[n + 1])
    BY <1>1, <1>2, <2>1
  <2> QED
    BY <2>1, <2>2 DEF NextLoaded, Loads
<1>5. T \in SUBSET Nat
  OBVIOUS
<1> HIDE DEF T
<1>6. T = Nat
  BY <1>3, <1>4, <1>5, SetInduction
<1> QED
  BY <1>6 DEF T, l, N

LEMMA LoadedType == ASSUME NEW lines \in Seq(Lines) PROVE Loaded(lines) \in Seq(StoredUsers)
<1>1. Loading(lines) \in [0..Len(lines) -> Loads] /\ Len(lines) \in 0..Len(lines)
  BY LoadingIs
<1>2. Loading(lines)[Len(lines)] \in Loads
  BY <1>1
<1> QED
  BY <1>2 DEF Loaded, Loads

LEMMA LoadedNothing == Loaded(<<>>) = <<>>
<1>1. <<>> \in Seq(Lines) /\ Len(<<>>) = 0
  OBVIOUS
<1>2. Loading(<<>>)[0] = NoneLoaded
  BY <1>1, LoadingIs
<1> QED
  BY <1>1, <1>2 DEF Loaded, NoneLoaded

\* After the end nothing more is loaded.
LEMMA EndedStays ==
  ASSUME NEW lines \in Seq(Lines), NEW k \in 0..Len(lines), Loading(lines)[k].ended
  PROVE  Loaded(lines) = Loading(lines)[k].users
<1> DEFINE l == Loading(lines)
           N == Len(lines)
           T == {n \in Nat : k + n <= N => l[k + n] = l[k]}
<1>1. l \in [0..N -> Loads] /\ \A n \in 1..N : l[n] = NextLoaded(l[n - 1], lines[n])
  BY LoadingIs
<1>2. N \in Nat /\ k \in 0..N /\ l[k].ended
  OBVIOUS
<1> HIDE DEF l, N
<1>3. 0 \in T
  BY <1>2
<1>4. ASSUME NEW n \in T PROVE n + 1 \in T
  <2> SUFFICES ASSUME k + (n + 1) <= N PROVE l[k + (n + 1)] = l[k]
    OBVIOUS
  <2>1. n \in Nat /\ k + n <= N /\ k + (n + 1) \in 1..N /\ (k + (n + 1)) - 1 = k + n
    BY <1>2
  <2>2. l[k + n] = l[k] /\ l[k] \in Loads
    BY <1>1, <1>2, <2>1
  <2>3. l[k + (n + 1)] = NextLoaded(l[k], lines[k + (n + 1)])
    BY <1>1, <2>1, <2>2
  <2>4. [l[k] EXCEPT !.ended = TRUE] = l[k]
    BY <1>2, <2>2 DEF Loads
  <2> QED
    BY <1>2, <2>3, <2>4 DEF NextLoaded
<1>5. T \in SUBSET Nat
  OBVIOUS
<1> HIDE DEF T
<1>6. T = Nat
  BY <1>3, <1>4, <1>5, SetInduction
<1>7. N - k \in T /\ k + (N - k) = N
  BY <1>2, <1>6
<1>8. l[N] = l[k]
  BY <1>2, <1>7 DEF T
<1> QED
  BY <1>8 DEF Loaded, l, N

\* A row at the end of a file that can be read adds its user, ...
LEMMA RowIsLoaded ==
  ASSUME NEW lines \in Seq(Lines), Clean(lines), NEW row \in Lines, IsUserRow(row), ~EndsReading(row),
         ~Taken(Loaded(lines), row)
  PROVE  Loaded(Append(lines, row)) = Append(Loaded(lines), NewUserFromCSV(row))
<1> DEFINE N == Len(lines)
           before == Loading(lines)[N]
<1>1. N \in 0..N
  OBVIOUS
<1>2. ~before.ended /\ before.users = Loaded(lines)
  BY <1>1, CleanNeverEnds DEF Loaded
<1>3. Loaded(Append(lines, row)) = NextLoaded(before, row).users
  BY LoadingPrefix DEF Loaded
<1>4. before \in Loads
  BY <1>1, LoadingIs
<1> HIDE DEF before
<1>5. NextLoaded(before, row) = [before EXCEPT !.users = Append(@, NewUserFromCSV(row))]
  BY <1>2 DEF NextLoaded
<1> QED
  BY <1>2, <1>3, <1>4, <1>5 DEF Loads

LEMMA CleanAppend ==
  ASSUME NEW lines \in Seq(Lines), Clean(lines), NEW line \in Lines, ~EndsReading(line)
  PROVE  Append(lines, line) \in Seq(Lines) /\ Clean(Append(lines, line))
BY DEF Clean

\* ... and no code is somebody else's.
Disjoint(users) == \A i, j \in DOMAIN users : users[i].codes \cap users[j].codes # {} => i = j

LEMMA DisjointAppend ==
  ASSUME NEW S, NEW users \in Seq(S), Disjoint(users), NEW u \in S,
         \A i \in DOMAIN users : users[i].codes \cap u.codes = {}
  PROVE  Disjoint(Append(users, u))
<1> DEFINE more == Append(users, u)
<1>1. Len(users) \in Nat /\ Len(more) = Len(users) + 1 /\ DOMAIN users = 1..Len(users)
      /\ DOMAIN more = 1..(Len(users) + 1) /\ more[Len(users) + 1] = u
      /\ \A i \in 1..Len(users) : more[i] = users[i]
  OBVIOUS
<1> HIDE DEF more
<1> SUFFICES ASSUME NEW i \in DOMAIN more, NEW j \in DOMAIN more, more[i].codes \cap more[j].codes # {}
             PROVE  i = j
  BY DEF Disjoint, more
<1>2. CASE i \in 1..Len(users) /\ j \in 1..Len(users)
  BY <1>1, <1>2 DEF Disjoint
<1>3. CASE i \in 1..Len(users) /\ j = Len(users) + 1
  BY <1>1, <1>3
<1>4. CASE i = Len(users) + 1 /\ j \in 1..Len(users)
  BY <1>1, <1>4
<1> QED
  BY <1>1, <1>2, <1>3, <1>4

LEMMA LoadedDisjoint == ASSUME NEW lines \in Seq(Lines) PROVE Disjoint(Loaded(lines))
<1> DEFINE l == Loading(lines)
           N == Len(lines)
           T == {n \in Nat : n <= N => Disjoint(l[n].users)}
<1>1. l[0] = NoneLoaded /\ l \in [0..N -> Loads] /\ \A n \in 1..N : l[n] = NextLoaded(l[n - 1], lines[n])
  BY LoadingIs
<1>2. N \in Nat /\ \A n \in 1..N : lines[n] \in Lines
  OBVIOUS
<1> HIDE DEF l, N
<1>3. 0 \in T
  BY <1>1 DEF NoneLoaded, Disjoint
<1>4. ASSUME NEW n \in T PROVE n + 1 \in T
  <2> SUFFICES ASSUME n + 1 <= N PROVE Disjoint(l[n + 1].users)
    OBVIOUS
  <2>1. n \in Nat /\ n \in 0..N /\ n + 1 \in 1..N /\ (n + 1) - 1 = n /\ Disjoint(l[n].users)
    BY <1>2
  <2> DEFINE before == l[n]
             line == lines[n + 1]
  <2>2. l[n + 1] = NextLoaded(before, line) /\ before \in Loads /\ line \in Lines
    BY <1>1, <1>2, <2>1
  <2>3. Disjoint(before.users)
    BY <2>1
  <2> HIDE DEF before, line
  <2>4. CASE before.ended \/ EndsReading(line)
    BY <2>2, <2>3, <2>4 DEF NextLoaded, Loads
  <2>5. CASE ~(before.ended \/ EndsReading(line)) /\ (~IsUserRow(line) \/ Taken(before.users, line))
    BY <2>2, <2>3, <2>5 DEF NextLoaded
  <2>6. CASE ~(before.ended \/ EndsReading(line)) /\ ~(~IsUserRow(line) \/ Taken(before.users, line))
    <3>1. l[n + 1] = [before EXCEPT !.users = Append(@, NewUserFromCSV(line))]
      BY <2>2, <2>6 DEF NextLoaded
    <3>2. l[n + 1].users = Append(before.users, NewUserFromCSV(line))
      BY <2>2, <3>1 DEF Loads
    <3>3. NewUserFromCSV(line) \in StoredUsers /\ before.users \in Seq(StoredUsers)
      BY <2>2, <2>6, ReadIsStored DEF Loads
    <3>4. \A i \in DOMAIN before.users : before.users[i].codes \cap NewUserFromCSV(line).codes = {}
      BY <2>6 DEF Taken
    <3> QED
      BY <2>3, <3>2, <3>3, <3>4, DisjointAppend
  <2> QED
    BY <2>4, <2>5, <2>6
<1>5. T \in SUBSET Nat
  OBVIOUS
<1> HIDE DEF T
<1>6. T = Nat
  BY <1>3, <1>4, <1>5, SetInduction
<1> QED
  BY <1>2, <1>6 DEF T, l, N, Loaded

-----------------------------------------------------------------------------
(* The users of a list.                                                    *)

Lists == Seq(Objects \cup {Nil})
Elements(s) == {s[i] : i \in DOMAIN s}

LEMMA ElementsAppend ==
  ASSUME NEW S, NEW s \in Seq(S), NEW x \in S
  PROVE  Elements(Append(s, x)) = Elements(s) \cup {x}
<1> DEFINE more == Append(s, x)
<1>1. /\ Len(s) \in Nat /\ DOMAIN s = 1..Len(s) /\ DOMAIN more = 1..(Len(s) + 1)
      /\ more[Len(s) + 1] = x /\ \A i \in 1..Len(s) : more[i] = s[i]
  OBVIOUS
<1> HIDE DEF more
<1>2. \A i \in 1..(Len(s) + 1) : i \in 1..Len(s) \/ i = Len(s) + 1
  BY <1>1
<1>3. \A i \in 1..Len(s) : i \in 1..(Len(s) + 1)
  BY <1>1
<1>4. Len(s) + 1 \in 1..(Len(s) + 1)
  BY <1>1
<1>5. Elements(more) \subseteq Elements(s) \cup {x}
  BY <1>1, <1>2 DEF Elements
<1>6. Elements(s) \subseteq Elements(more)
  BY <1>1, <1>3 DEF Elements
<1>7. x \in Elements(more)
  BY <1>1, <1>4 DEF Elements
<1> QED
  BY <1>5, <1>6, <1>7 DEF more

LEMMA UsersBeforeIs ==
  ASSUME NEW list \in Lists
  PROVE  /\ UsersBefore(list) \in [0..Len(list) -> Seq(UserRecords)]
         /\ UsersBefore(list)[0] = <<>>
         /\ \A n \in 1..Len(list) :
              UsersBefore(list)[n] = IF list[n] = Nil THEN UsersBefore(list)[n - 1]
                                     ELSE Append(UsersBefore(list)[n - 1], list[n].user)
<1> DEFINE Next1(n, s) == IF list[n] = Nil THEN s ELSE Append(s, list[n].user)
           S == Seq(UserRecords)
           g == [p \in (1..Len(list)) \X S |-> Next1(p[1], p[2])]
           Eq(f) == f = [n \in 0..Len(list) |-> IF n = 0 THEN <<>> ELSE Next1(n, f[n - 1])]
<1>1. /\ Len(list) \in Nat
      /\ \A n \in 1..Len(list) : list[n] # Nil => list[n] \in Objects
  BY DEF Lists
<1>2. \A n \in 1..Len(list), s \in S : Next1(n, s) \in S
  <2> SUFFICES ASSUME NEW n \in 1..Len(list), NEW s \in S, list[n] # Nil
               PROVE  Append(s, list[n].user) \in S
    OBVIOUS
  <2>1. list[n].user \in UserRecords
    BY <1>1 DEF Objects
  <2> QED
    BY <2>1
<1>3. <<>> \in S
  OBVIOUS
<1> HIDE DEF Next1, S
<1>4. g \in [(1..Len(list)) \X S -> S] /\ \A n \in 1..Len(list), s \in S : g[<<n, s>>] = Next1(n, s)
  BY <1>2
<1> HIDE DEF g
<1>5. PICK f \in [0..Len(list) -> S] : Follows(f, <<>>, g, Len(list))
  BY <1>1, <1>3, <1>4, Recursion
<1>6. ASSUME NEW n \in 1..Len(list) PROVE f[n] = Next1(n, f[n - 1])
  <2>1. n - 1 \in 0..Len(list)
    BY <1>1
  <2> QED
    BY <1>4, <1>5, <2>1 DEF Follows
<1>7. Eq(f)
  <2>1. \A n \in 0..Len(list) : n # 0 => n \in 1..Len(list)
    BY <1>1
  <2> QED
    BY <1>5, <1>6, <2>1 DEF Follows
<1> DEFINE l == UsersBefore(list)
<1>8. l = CHOOSE e : Eq(e)
  BY DEF UsersBefore, Next1
<1>9. Eq(l)
  BY <1>7, <1>8
<1> HIDE DEF l
<1>10. l = [n \in 0..Len(list) |-> IF n = 0 THEN <<>> ELSE Next1(n, l[n - 1])]
  BY <1>9
<1> HIDE DEF Eq
<1>11. l[0] = <<>> /\ \A n \in 1..Len(list) : l[n] = Next1(n, l[n - 1])
  <2>1. 0 \in 0..Len(list) /\ \A n \in 1..Len(list) : n \in 0..Len(list) /\ n # 0
    BY <1>1
  <2> QED
    BY <1>10, <2>1
<1>12. ASSUME NEW n \in 1..Len(list), Alike(l, f, n - 1) PROVE Alike(l, f, n)
  BY <1>6, <1>11, <1>12 DEF Alike
<1>13. \A n \in 0..Len(list) : l[n] = f[n]
  <2>1. Alike(l, f, 0)
    BY <1>5, <1>11 DEF Follows, Alike
  <2>2. \A n \in 0..Len(list) : Alike(l, f, n)
    BY <1>1, <1>12, <2>1, SameSteps
  <2> QED
    BY <2>2 DEF Alike
<1>14. l \in [0..Len(list) -> S]
  BY <1>10, <1>13
<1> QED
  BY <1>11, <1>14 DEF l, S, Next1

LEMMA UsersOfAppend ==
  ASSUME NEW list \in Lists, NEW obj \in Objects
  PROVE  UsersOf(Append(list, obj)) = Append(UsersOf(list), obj.user)
<1> DEFINE more == Append(list, obj)
           N == Len(list)
           e == UsersBefore(more)
           f == UsersBefore(list)
<1>1. /\ more \in Lists /\ N \in Nat /\ Len(more) = N + 1 /\ more[N + 1] = obj
      /\ \A n \in 1..N : more[n] = list[n]
  BY DEF Lists
<1>2. /\ f[0] = <<>>
      /\ \A n \in 1..N : f[n] = IF list[n] = Nil THEN f[n - 1] ELSE Append(f[n - 1], list[n].user)
  BY UsersBeforeIs
<1> HIDE DEF more
<1>3. /\ e[0] = <<>>
      /\ \A n \in 1..(N + 1) : e[n] = IF more[n] = Nil THEN e[n - 1] ELSE Append(e[n - 1], more[n].user)
  BY <1>1, UsersBeforeIs
<1> HIDE DEF N, e, f
<1>4. ASSUME NEW n \in 1..N, Alike(e, f, n - 1) PROVE Alike(e, f, n)
  <2>1. n \in 1..(N + 1)
    BY <1>1
  <2> QED
    BY <1>1, <1>2, <1>3, <1>4, <2>1 DEF Alike
<1>5. Alike(e, f, N)
  <2>1. Alike(e, f, 0)
    BY <1>2, <1>3 DEF Alike
  <2>2. \A n \in 0..N : Alike(e, f, n)
    BY <1>1, <1>4, <2>1, SameSteps
  <2> QED
    BY <1>1, <2>2
<1>6. e[N + 1] = Append(f[N], obj.user)
  <2>1. N + 1 \in 1..(N + 1) /\ (N + 1) - 1 = N /\ obj # Nil
    BY <1>1, Constants
  <2> QED
    BY <1>1, <1>3, <1>5, <2>1 DEF Alike
<1> QED
  BY <1>1, <1>6 DEF UsersOf, e, f, N, more

\* They are those of the objects in the list.
ListedBefore(list, n) == {list[j].user : j \in {i \in 1..n : list[i] # Nil}}

LEMMA UsersAreListed ==
  ASSUME NEW list \in Lists
  PROVE  \A n \in 0..Len(list) : Elements(UsersBefore(list)[n]) = ListedBefore(list, n)
<1> DEFINE f == UsersBefore(list)
           N == Len(list)
           T == {n \in Nat : n <= N => Elements(f[n]) = ListedBefore(list, n)}
<1>1. /\ f[0] = <<>> /\ f \in [0..N -> Seq(UserRecords)]
      /\ \A n \in 1..N : f[n] = IF list[n] = Nil THEN f[n - 1] ELSE Append(f[n - 1], list[n].user)
  BY UsersBeforeIs
<1>2. N \in Nat /\ \A n \in 1..N : list[n] # Nil => list[n] \in Objects
  BY DEF Lists
<1> HIDE DEF f, N
<1>3. 0 \in T
  BY <1>1 DEF Elements, ListedBefore
<1>4. ASSUME NEW n \in T PROVE n + 1 \in T
  <2> SUFFICES ASSUME n + 1 <= N PROVE Elements(f[n + 1]) = ListedBefore(list, n + 1)
    OBVIOUS
  <2>1. n \in Nat /\ n \in 0..N /\ n + 1 \in 1..N /\ (n + 1) - 1 = n
        /\ Elements(f[n]) = ListedBefore(list, n)
        /\ 1..(n + 1) = (1..n) \cup {n + 1}
    BY <1>2
  <2>2. CASE list[n + 1] = Nil
    <3>1. f[n + 1] = f[n] /\ ListedBefore(list, n + 1) = ListedBefore(list, n)
      BY <1>1, <2>1, <2>2 DEF ListedBefore
    <3> QED
      BY <2>1, <3>1
  <2>3. CASE list[n + 1] # Nil
    <3>1. list[n + 1].user \in UserRecords /\ f[n] \in Seq(UserRecords)
      BY <1>1, <1>2, <2>1, <2>3 DEF Objects
    <3>2. f[n + 1] = Append(f[n], list[n + 1].user)
      BY <1>1, <2>1, <2>3
    <3>3. Elements(f[n + 1]) = Elements(f[n]) \cup {list[n + 1].user}
      BY <3>1, <3>2, ElementsAppend
    <3>4. ListedBefore(list, n + 1) = ListedBefore(list, n) \cup {list[n + 1].user}
      BY <2>1, <2>3 DEF ListedBefore
    <3> QED
      BY <2>1, <3>3, <3>4
  <2> QED
    BY <2>2, <2>3
<1>5. T \in SUBSET Nat
  OBVIOUS
<1> HIDE DEF T
<1>6. T = Nat
  BY <1>3, <1>4, <1>5, SetInduction
<1> QED
  BY <1>2, <1>6 DEF T, f, N

LEMMA UsersOfIs ==
  ASSUME NEW d \in Databases
  PROVE  /\ UsersOf(d.userList) \in Seq(UserRecords)
         /\ Elements(UsersOf(d.userList)) = {obj.user : obj \in ObjectsOf(d)}
<1>1. d.userList \in Lists /\ Len(d.userList) \in 0..Len(d.userList)
  BY DEF Databases, Lists
<1>2. UsersOf(d.userList) \in Seq(UserRecords)
  BY <1>1, UsersBeforeIs DEF UsersOf
<1>3. Elements(UsersOf(d.userList)) = ListedBefore(d.userList, Len(d.userList))
  BY <1>1, UsersAreListed DEF UsersOf
<1>4. DOMAIN d.userList = 1..Len(d.userList)
  BY <1>1 DEF Lists
<1> QED
  BY <1>2, <1>3, <1>4 DEF ListedBefore, ObjectsOf

\* Users as they will be read.
LEMMA PersistedAppend ==
  ASSUME NEW S, NEW users \in Seq(S), NEW u \in S
  PROVE  Persisted(Append(users, u)) = Append(Persisted(users), Reloaded(u))
<1> DEFINE more == Append(users, u)
           done == Persisted(users)
           all == Append(done, Reloaded(u))
           R == {Reloaded(users[i]) : i \in DOMAIN users} \cup {Reloaded(u)}
<1>1. /\ Len(users) \in Nat /\ DOMAIN users = 1..Len(users) /\ DOMAIN more = 1..(Len(users) + 1)
      /\ more[Len(users) + 1] = u /\ \A i \in 1..Len(users) : more[i] = users[i]
  OBVIOUS
<1>2. done \in Seq(R) /\ Len(done) = Len(users) /\ \A i \in 1..Len(users) : done[i] = Reloaded(users[i])
  BY <1>1 DEF Persisted
<1>3. Reloaded(u) \in R
  OBVIOUS
<1>4. Persisted(more) = [i \in DOMAIN more |-> Reloaded(more[i])]
  BY DEF Persisted
<1> HIDE DEF R, more, done
<1>5. /\ all \in Seq(R) /\ DOMAIN all = 1..(Len(users) + 1) /\ all[Len(users) + 1] = Reloaded(u)
      /\ \A i \in 1..Len(users) : all[i] = done[i]
  BY <1>1, <1>2, <1>3
<1> HIDE DEF all
<1>6. all = [i \in DOMAIN all |-> all[i]]
  BY <1>5
<1>7. \A i \in DOMAIN all : all[i] = Reloaded(more[i])
  <2>1. \A i \in 1..(Len(users) + 1) : i \in 1..Len(users) \/ i = Len(users) + 1
    BY <1>1
  <2> QED
    BY <1>1, <1>2, <1>5, <2>1
<1>8. all = Persisted(more)
  BY <1>1, <1>4, <1>5, <1>6, <1>7
<1> QED
  BY <1>8 DEF more, done, all

LEMMA PersistedIs ==
  ASSUME NEW users \in Seq(UserRecords)
  PROVE  /\ DOMAIN Persisted(users) = DOMAIN users
         /\ \A i \in DOMAIN users : Persisted(users)[i] = Reloaded(users[i])
         /\ Elements(Persisted(users)) = {Reloaded(u) : u \in Elements(users)}
         /\ users \in Seq(StoredUsers) => Persisted(users) = users
<1>1. DOMAIN users = 1..Len(users) /\ Len(users) \in Nat
  OBVIOUS
<1>2. users \in Seq(StoredUsers) => Persisted(users) = users
  <2> SUFFICES ASSUME users \in Seq(StoredUsers) PROVE Persisted(users) = users
    OBVIOUS
  <2>1. \A i \in DOMAIN users : Reloaded(users[i]) = users[i]
    BY <1>1 DEF StoredUsers
  <2>2. users = [i \in DOMAIN users |-> users[i]]
    OBVIOUS
  <2> QED
    BY <2>1, <2>2 DEF Persisted
<1> QED
  BY <1>1, <1>2 DEF Persisted, Elements

-----------------------------------------------------------------------------
(* The objects of a list, and whose codes are whose.                       *)

LEMMA AddedObjects ==
  ASSUME NEW d \in Databases, NEW obj \in Objects, NEW pos \in Nat,
         pos # 0 => pos \in DOMAIN d.userList /\ d.userList[pos] = Nil
  PROVE  ObjectsOf(AddUserAtPos(d, obj, pos)) = ObjectsOf(d) \cup {obj}
<1> DEFINE list == AddUserAtPos(d, obj, pos).userList
<1>1. /\ d.userList \in Seq(Objects \cup {Nil}) /\ Len(d.userList) \in Nat
      /\ DOMAIN d.userList = 1..Len(d.userList) /\ obj # Nil
  BY Constants DEF Databases
<1>2. CASE pos = 0
  <2>1. list = Append(d.userList, obj)
    BY <1>2 DEF AddUserAtPos
  <2>2. Elements(list) = Elements(d.userList) \cup {obj}
    BY <1>1, <2>1, ElementsAppend
  <2> QED
    BY <1>1, <2>2 DEF ObjectsOf, Elements
<1>3. CASE pos # 0
  <2>1. list = [d.userList EXCEPT ![pos] = obj]
    BY <1>3 DEF AddUserAtPos
  <2> HIDE DEF list
  <2>2. /\ DOMAIN list = DOMAIN d.userList /\ list[pos] = obj /\ pos \in DOMAIN d.userList
        /\ d.userList[pos] = Nil
        /\ \A i \in DOMAIN d.userList : i # pos => list[i] = d.userList[i]
    BY <1>1, <1>3, <2>1
  <2>3. {list[i] : i \in DOMAIN list} \ {Nil} = ({d.userList[i] : i \in DOMAIN d.userList} \ {Nil}) \cup {obj}
    BY <1>1, <2>2
  <2> QED
    BY <2>3 DEF ObjectsOf, list
<1> QED
  BY <1>2, <1>3

LEMMA CodeOwners ==
  ASSUME NEW d \in Databases, IndexesAgree(d)
  PROVE  /\ ObjectsOf(d) \subseteq Objects
         /\ \A x \in ObjectsOf(d) : x.user.codes \subseteq Codes /\ x.user \in UserRecords
         /\ \A x \in ObjectsOf(d) : \A c \in x.user.codes : d.code2user[c] = x
         /\ \A x, y \in ObjectsOf(d) : x.user.codes \cap y.user.codes # {} => x = y
<1>1. ObjectsOf(d) \subseteq Objects
  BY DEF Databases, ObjectsOf
<1>2. \A x \in Objects : x.user.codes \subseteq Codes /\ x.user \in UserRecords
  BY DEF Objects, UserRecords, Codes
<1>3. \A x \in ObjectsOf(d) : \A c \in x.user.codes : d.code2user[c] = x
  BY DEF IndexesAgree, ObjectsOf
<1> QED
  BY <1>1, <1>2, <1>3

LEMMA FreeCodes ==
  ASSUME NEW d \in Databases, IndexesAgree(d), NEW user \in UserRecords
  PROVE  CodesFree(d, user) <=> \A x \in ObjectsOf(d) : x.user.codes \cap user.codes = {}
<1>1. user.codes \subseteq Codes
  BY DEF UserRecords, Codes
<1>2. ASSUME CodesFree(d, user), NEW x \in ObjectsOf(d), NEW c \in x.user.codes \cap user.codes
      PROVE  FALSE
  <2>1. d.code2user[c] = x /\ x # Nil
    BY CodeOwners DEF ObjectsOf
  <2> QED
    BY <1>2, <2>1 DEF CodesFree
<1>3. ASSUME ~CodesFree(d, user)
      PROVE  \E x \in ObjectsOf(d) : x.user.codes \cap user.codes # {}
  <2>1. PICK c \in user.codes : d.code2user[c] # Nil
    BY <1>3 DEF CodesFree
  <2>2. c \in d.code2user[c].user.codes /\ d.code2user[c] \in ObjectsOf(d)
    BY <1>1, <2>1 DEF IndexesAgree
  <2> QED
    BY <2>2
<1> QED
  BY <1>2, <1>3

LEMMA DeletedObjects ==
  ASSUME NEW d \in Databases, IndexesAgree(d), NEW obj \in ObjectsOf(d)
  PROVE  /\ IndexOf(d, obj) # 0
         /\ ObjectsOf(DeleteUserFrom(d, obj)) = ObjectsOf(d) \ {obj}
         /\ \A c \in obj.user.codes : DeleteUserFrom(d, obj).code2user[c] = Nil
<1> DEFINE pos == IndexOf(d, obj)
           list == DeleteUserFrom(d, obj).userList
<1>0. obj \in Objects /\ obj.user.codes \subseteq Codes
  BY CodeOwners
<1>1. /\ d.userList \in Seq(Objects \cup {Nil}) /\ DOMAIN d.userList = 1..Len(d.userList)
      /\ obj \in Objects /\ obj # Nil /\ obj.user.codes \subseteq Codes
  BY <1>0, Constants DEF Databases
<1>2. PICK i \in DOMAIN d.userList : d.userList[i] = obj
  BY DEF ObjectsOf
<1>3. \A j \in DOMAIN d.userList : d.userList[j] = obj => d.user2index[obj.addr] = j
  BY <1>1 DEF IndexesAgree
<1>4. pos = i /\ i # 0
  BY <1>1, <1>2, <1>3 DEF IndexOf
<1>5. /\ DeleteUserFrom(d, obj).userList = [d.userList EXCEPT ![i] = Nil]
      /\ \A c \in Codes : c \in d.userList[i].user.codes => DeleteUserFrom(d, obj).code2user[c] = Nil
  BY <1>4 DEF DeleteUserFrom
<1>6. /\ DOMAIN list = DOMAIN d.userList /\ list[i] = Nil
      /\ \A j \in DOMAIN d.userList : j # i => list[j] = d.userList[j] /\ d.userList[j] # obj
  BY <1>1, <1>2, <1>3, <1>5
<1> HIDE DEF list
<1>7. {list[j] : j \in DOMAIN list} \ {Nil} = ({d.userList[j] : j \in DOMAIN d.userList} \ {Nil}) \ {obj}
  BY <1>1, <1>2, <1>6
<1> QED
  BY <1>1, <1>2, <1>4, <1>5, <1>7 DEF ObjectsOf, list

\* A code is taken in the file if it is in memory.
LEMMA TakenIs ==
  ASSUME NEW users, NEW row
  PROVE  Taken(users, row) <=> \E u \in Elements(users) : u.codes \cap NewUserFromCSV(row).codes # {}
BY DEF Taken, Elements

LEMMA UsersTaken ==
  ASSUME NEW d \in Databases, IndexesAgree(d), NEW row, NewUserFromCSV(row) \in UserRecords
  PROVE  Taken(UsersOf(d.userList), row) <=> ~CodesFree(d, NewUserFromCSV(row))
<1>1. Elements(UsersOf(d.userList)) = {obj.user : obj \in ObjectsOf(d)}
  BY UsersOfIs
<1>2. CodesFree(d, NewUserFromCSV(row)) <=>
        \A x \in ObjectsOf(d) : x.user.codes \cap NewUserFromCSV(row).codes = {}
  BY FreeCodes
<1> QED
  BY <1>1, <1>2, TakenIs

AllReadable(d) == \A obj \in ObjectsOf(d) : Readable(obj.user)

\* What a list comes to when it has been written and read.
LEMMA PersistedUsers ==
  ASSUME NEW d \in Databases, IndexesAgree(d), AllReadable(d)
  PROVE  /\ Elements(Persisted(UsersOf(d.userList))) = {Reloaded(obj.user) : obj \in ObjectsOf(d)}
         /\ \A obj \in ObjectsOf(d) : Reloaded(obj.user).codes = obj.user.codes
<1>1. /\ UsersOf(d.userList) \in Seq(UserRecords)
      /\ Elements(UsersOf(d.userList)) = {obj.user : obj \in ObjectsOf(d)}
  BY UsersOfIs
<1>2. Elements(Persisted(UsersOf(d.userList))) = {Reloaded(u) : u \in Elements(UsersOf(d.userList))}
  BY <1>1, PersistedIs
<1>3. \A obj \in ObjectsOf(d) : obj.user \in UserRecords
  BY CodeOwners
<1>4. \A obj \in ObjectsOf(d) : Reloaded(obj.user).codes = obj.user.codes
  BY <1>3, RowIsLine DEF AllReadable
<1> QED
  BY <1>1, <1>2, <1>4

LEMMA StoredTaken ==
  ASSUME NEW d \in Databases, IndexesAgree(d), AllReadable(d), NEW row, NewUserFromCSV(row) \in UserRecords
  PROVE  Taken(Persisted(UsersOf(d.userList)), row) <=> ~CodesFree(d, NewUserFromCSV(row))
<1>1. /\ Elements(Persisted(UsersOf(d.userList))) = {Reloaded(obj.user) : obj \in ObjectsOf(d)}
      /\ \A obj \in ObjectsOf(d) : Reloaded(obj.user).codes = obj.user.codes
  BY PersistedUsers
<1>2. CodesFree(d, NewUserFromCSV(row)) <=>
        \A x \in ObjectsOf(d) : x.user.codes \cap NewUserFromCSV(row).codes = {}
  BY FreeCodes
<1> QED
  BY <1>1, <1>2, TakenIs

-----------------------------------------------------------------------------
(* On a host whose disk does not fill up, with a file that can be read to  *)
(* its end and requests that can be written and found again, one desk      *)
(* keeps memory and file the same but for the change under way.            *)

QuietHost ==
  /\ ~DiskMayFill /\ ~OpenMayFail
  /\ Clean(InitialFile) /\ \A line \in HandEdits : ~EndsReading(line)
  /\ \A call \in Requests \cap AddCalls : Readable(call.user)
  /\ \A call \in Requests \cap UpdateCalls : call.updater \in {"renew", "abort"}

InFile == LoadedNow = Persisted(InMemory)

\* The list is changed and not yet written.
Half == {"replace", "post", "append", "create", "write", "stamp"}

\* The change of the call is in memory.
Done(c) ==
  IF my[c].call.op = "delete" THEN db.code2user[my[c].call.code] = Nil
  ELSE my[c].target.user \in {obj.user : obj \in ObjectsOf(db)}

\* All but one user are in the file, and that one's codes are free in it.
Appending(c) ==
  /\ Persisted(InMemory) = Append(LoadedNow, Reloaded(my[c].target.user))
  /\ ~Taken(LoadedNow, WriteCSV(my[c].target.user))

\* The dump holds the users of the list up to some place.
Dumped(c) == Len(db.userList) - Len(my[c].dump)
Dumping(c) ==
  LET lines == disk[my[c].fd].lines
  IN  /\ Clean(lines)
      /\ Dumped(c) \in 0..Len(db.userList)
      /\ \A j \in 1..Len(my[c].dump) : my[c].dump[j] = db.userList[Dumped(c) + j]
      /\ Loaded(lines) = Persisted(UsersBefore(db.userList)[Dumped(c)])

Answered(c) ==
  IF my[c].call.op = "delete"
  THEN \A u \in Elements(LoadedNow) : my[c].call.code \notin u.codes
  ELSE Reloaded(my[c].target.user) \in Elements(LoadedNow)

HostFits(c) ==
  /\ pc[c] = "replace" => /\ my[c].call.op = "update" /\ Readable(my[c].target.user)
                          /\ CodesFree(db, my[c].target.user)
  /\ pc[c] = "append" => my[c].call.op = "add"
  /\ pc[c] \in {"post", "append"} /\ my[c].call.op = "add" => Appending(c)
  /\ pc[c] = "write" => Dumping(c)
  /\ pc[c] = "stamp" => InFile
  /\ pc[c] \in {"post", "append", "create", "write", "stamp"} => Done(c)
  /\ my[c].result = "ok" => c \in Modifiers /\ pc[c] = "done" /\ Answered(c)

\* The users read so far are those the lines read so far come to.
IsRead == up = "starting" \/ \E c \in Clients : pc[c] \in {"stat", "read"}
ReadSoFar ==
  LET lines == disk[usersFile].lines
  IN  /\ readPos <= Len(lines)
      /\ UsersOf(newAuth.userList) = Loading(lines)[readPos].users
      /\ ~Loading(lines)[readPos].ended

HInv ==
  /\ Clean(disk[usersFile].lines)
  /\ AllReadable(db) /\ AllReadable(newAuth)
  /\ IsRead => ReadSoFar
  /\ up = "up" /\ fileTimestamp = UsersMtime /\ (\A c \in Clients : pc[c] \notin Half) => InFile
  /\ \A c \in Clients : HostFits(c)

LEMMA HostTypes ==
  ASSUME IInv
  PROVE  /\ db \in Databases /\ newAuth \in Databases /\ IndexesAgree(db) /\ IndexesAgree(newAuth)
         /\ usersFile \in Inodes /\ \A i \in Inodes : disk[i].lines \in Seq(Lines)
         /\ LoadedNow \in Seq(StoredUsers) /\ InMemory \in Seq(UserRecords)
         /\ disk \in [Inodes -> [lines: Seq(Lines), mtime: Nat]]
<1>1. /\ db \in Databases /\ newAuth \in Databases /\ IndexesAgree(db) /\ IndexesAgree(newAuth)
      /\ usersFile \in Inodes /\ disk \in [Inodes -> [lines: Seq(Lines), mtime: Nat]]
  BY DEF IInv, MemoryOK, LoaderOK, FilesOK, IndexConsistent
<1>2. \A i \in Inodes : disk[i].lines \in Seq(Lines)
  BY <1>1
<1>3. LoadedNow \in Seq(StoredUsers)
  BY <1>1, <1>2, LoadedType DEF LoadedNow
<1>4. InMemory \in Seq(UserRecords)
  BY <1>1, UsersOfIs DEF InMemory
<1> QED
  BY <1>1, <1>2, <1>3, <1>4

\* A step that leaves list and file as they are.
LEMMA HostQuiet ==
  ASSUME DInv, HInv, NEW c \in Clients, up = "up", up' = up,
         \A d \in Clients \ {c} : pc'[d] = pc[d] /\ my'[d] = my[d],
         UNCHANGED <<db, fileTimestamp, newAuth, readPos, files>>,
         pc'[c] \in {"stat", "read"} => pc[c] \in {"stat", "read"},
         pc[c] \notin Half \/ pc'[c] \in Half, HostFits(c)'
  PROVE  HInv'
<1>1. /\ disk' = disk /\ usersFile' = usersFile /\ UsersMtime' = UsersMtime
      /\ LoadedNow' = LoadedNow /\ InMemory' = InMemory
  BY DEF files, UsersMtime, LoadedNow, InMemory
<1>2. ASSUME NEW d \in Clients \ {c} PROVE HostFits(d)'
  <2>1. HostFits(d) /\ pc'[d] = pc[d] /\ my'[d] = my[d]
    BY DEF HInv
  <2>2. /\ Appending(d)' = Appending(d) /\ InFile' = InFile /\ Done(d)' = Done(d)
        /\ Answered(d)' = Answered(d)
    BY <1>1, <2>1 DEF Appending, InFile, Done, Answered
  <2>3. Dumping(d)' = Dumping(d)
    BY <1>1, <2>1 DEF Dumping, Dumped
  <2>4. CodesFree(db, my[d].target.user)' = CodesFree(db, my[d].target.user)
    BY <2>1
  <2> QED
    BY <2>1, <2>2, <2>3, <2>4 DEF HostFits
<1>3. IsRead' => IsRead
  BY DEF IsRead
<1>4. ReadSoFar' = ReadSoFar /\ InFile' = InFile
  BY <1>1 DEF ReadSoFar, InFile
<1>5. (\A d \in Clients : pc'[d] \notin Half) => \A d \in Clients : pc[d] \notin Half
  OBVIOUS
<1>6. AllReadable(db)' /\ AllReadable(newAuth)' /\ Clean(disk[usersFile].lines)'
  BY <1>1 DEF HInv, AllReadable
<1> QED
  BY <1>1, <1>2, <1>3, <1>4, <1>5, <1>6 DEF HInv

\* Everybody else while the one desk changes something.
LEMMA OthersStored ==
  ASSUME DInv, HInv, OneDesk, NEW c \in Clients, c \in Modifiers,
         \A d \in Clients \ {c} : pc'[d] = pc[d] /\ my'[d] = my[d]
  PROVE  \A d \in Clients \ {c} : HostFits(d)' /\ pc'[d] \notin Half
<1> SUFFICES ASSUME NEW d \in Clients \ {c} PROVE HostFits(d)' /\ pc'[d] \notin Half
  OBVIOUS
<1>1. d \notin Modifiers /\ DeskFits(d) /\ HostFits(d) /\ pc'[d] = pc[d] /\ my'[d] = my[d]
  BY DEF OneDesk, DInv, HInv
<1> QED
  BY <1>1 DEF DeskFits, ChangeSteps, HostFits, Half

LEMMA HostAnswer ==
  ASSUME DInv, HInv, NEW c \in Clients, pc[c] # "idle", pc[c] \notin Half, NEW r, r # "ok", Answer(c, r),
         up' = up, UNCHANGED <<db, fileTimestamp, newAuth, readPos, files>>
  PROVE  HInv'
<1>1. /\ pc \in [Clients -> Steps] /\ my \in [Clients -> Locals] /\ up = "up"
  BY InCall DEF DInv, IInv, ClientsOK
<1>2. /\ pc'[c] = "done" /\ my'[c].result = r
      /\ \A d \in Clients \ {c} : pc'[d] = pc[d] /\ my'[d] = my[d]
  BY <1>1 DEF Answer, Goto, Locals
<1>3. HostFits(c)'
  BY <1>2 DEF HostFits
<1> QED
  BY <1>1, <1>2, <1>3, HostQuiet

LEMMA CalledStaysStored == ASSUME DInv, HInv, NEW c \in Clients, Called(c) PROVE HInv'
<1>1. PICK request, step, what, r :
        /\ step \in {"reload", "done"} /\ Begin(c, request, step, what, r) /\ r # "ok"
  <2>1. CASE CallLookup(c)
    BY <2>1 DEF CallLookup
  <2>2. CASE CallChange(c)
    BY <2>2 DEF CallChange
  <2> QED
    BY <2>1, <2>2 DEF Called
<1>2. pc \in [Clients -> Steps] /\ my \in [Clients -> Locals]
  BY DEF DInv, IInv, ClientsOK
<1>3. /\ up = "up" /\ up' = up /\ UNCHANGED <<db, fileTimestamp, newAuth, readPos, files>>
      /\ pc' = [pc EXCEPT ![c] = step] /\ pc[c] = "idle"
      /\ my' = [my EXCEPT ![c].call = request, ![c].phase = what, ![c].result = r, ![c].asOf = UsersMtime]
  BY <1>1 DEF Begin, Goto, memory, loader
<1>4. /\ pc'[c] = step /\ my'[c].result = r
      /\ \A d \in Clients \ {c} : pc'[d] = pc[d] /\ my'[d] = my[d]
  BY <1>2, <1>3 DEF Locals
<1>5. HostFits(c)'
  BY <1>1, <1>4 DEF HostFits
<1> QED
  BY <1>1, <1>3, <1>4, <1>5, HostQuiet DEF Half

LEMMA ReturnStaysStored == ASSUME DInv, HInv, NEW c \in Clients, Return(c) PROVE HInv'
<1>1. /\ pc \in [Clients -> Steps] /\ my \in [Clients -> Locals] /\ up = "up" /\ pc[c] = "done"
  BY InCall DEF DInv, IInv, ClientsOK, Return
<1>2. /\ pc' = [pc EXCEPT ![c] = "idle"] /\ my' = [my EXCEPT ![c] = NoLocals] /\ up' = up
      /\ UNCHANGED <<db, fileTimestamp, newAuth, readPos, files>>
  BY DEF Return, Goto, memory, loader, world
<1>3. /\ pc'[c] = "idle" /\ my'[c].result = "none"
      /\ \A d \in Clients \ {c} : pc'[d] = pc[d] /\ my'[d] = my[d]
  BY <1>1, <1>2 DEF NoLocals
<1>4. HostFits(c)'
  BY <1>3 DEF HostFits
<1> QED
  BY <1>1, <1>2, <1>3, <1>4, HostQuiet DEF Half

-----------------------------------------------------------------------------
(* Reading. *)

LEMMA NoneRead ==
  ASSUME NEW lines \in Seq(Lines)
  PROVE  /\ 0 <= Len(lines) /\ ~Loading(lines)[0].ended
         /\ UsersOf(EmptyDb.userList) = Loading(lines)[0].users
<1>1. Loading(lines)[0].users = <<>> /\ ~Loading(lines)[0].ended /\ 0 <= Len(lines)
  BY LoadingIs DEF NoneLoaded
<1>2. UsersOf(<<>>) = <<>>
  <2>1. <<>> \in Lists /\ Len(<<>>) = 0
    BY DEF Lists
  <2>2. UsersBefore(<<>>)[0] = <<>>
    BY <2>1, UsersBeforeIs
  <2> QED
    BY <2>1, <2>2 DEF UsersOf
<1> QED
  BY <1>1, <1>2 DEF EmptyDb

LEMMA BeginReads ==
  ASSUME IInv, BeginReading, UNCHANGED files
  PROVE  ReadSoFar' /\ AllReadable(newAuth)'
<1>1. newAuth' = EmptyDb /\ readPos' = 0 /\ disk' = disk /\ usersFile' = usersFile
  BY DEF BeginReading, files
<1> DEFINE lines == disk[usersFile].lines
<1>2. lines \in Seq(Lines) /\ lines' = lines
  BY <1>1, HostTypes
<1>3. ObjectsOf(newAuth') = {}
  BY <1>1 DEF ObjectsOf, EmptyDb
<1> HIDE DEF lines
<1> QED
  BY <1>1, <1>2, <1>3, NoneRead DEF ReadSoFar, AllReadable, lines

LEMMA LineReads ==
  ASSUME IInv, ReadSoFar, reading = usersFile, ReadLine, UNCHANGED files
  PROVE  ReadSoFar' /\ (AllReadable(newAuth) => AllReadable(newAuth)')
<1> DEFINE lines == disk[usersFile].lines
           line == lines[readPos + 1]
           user == NewUserFromCSV(line)
           before == Loading(lines)[readPos]
<1>1. /\ lines \in Seq(Lines) /\ lines' = lines /\ readPos \in Nat
      /\ newAuth \in Databases /\ IndexesAgree(newAuth)
      /\ UsersOf(newAuth.userList) = before.users /\ ~before.ended
  BY HostTypes DEF IInv, LoaderOK, ReadSoFar, files
<1>2. readPos < Len(lines) /\ readPos' = readPos + 1 /\ ~EndsReading(line)
  BY DEF ReadLine, AtEnd
<1>3. /\ IsUserRow(line) /\ CodesFree(newAuth, user) =>
           \E a \in Addrs : Fresh(a) /\ newAuth' = AddUserAtPos(newAuth, [addr |-> a, user |-> user], 0)
      /\ ~(IsUserRow(line) /\ CodesFree(newAuth, user)) => newAuth' = newAuth
  BY DEF ReadLine
<1> HIDE DEF lines
<1>4. /\ readPos + 1 \in 1..Len(lines) /\ readPos \in 0..Len(lines) /\ (readPos + 1) - 1 = readPos
      /\ readPos + 1 <= Len(lines)
  BY <1>1, <1>2
<1>5. /\ line \in Lines /\ before \in Loads
      /\ Loading(lines)[readPos + 1] = NextLoaded(before, line)
  BY <1>1, <1>4, LoadingIs
<1> HIDE DEF line, before
<1>6. CASE IsUserRow(line) /\ CodesFree(newAuth, user)
  <2>1. PICK a \in Addrs : Fresh(a) /\ newAuth' = AddUserAtPos(newAuth, [addr |-> a, user |-> user], 0)
    BY <1>3, <1>6
  <2>2. user \in StoredUsers /\ user \in UserRecords /\ Readable(user)
    BY <1>5, <1>6, ReadIsStored DEF StoredUsers
  <2> DEFINE obj == [addr |-> a, user |-> user]
  <2>3. obj \in Objects /\ obj.user = user
    BY <2>2 DEF Objects
  <2>4. ~Taken(before.users, line)
    BY <1>1, <1>6, <2>2, UsersTaken
  <2>5. newAuth' = AddUserAtPos(newAuth, obj, 0)
    BY <2>1
  <2> HIDE DEF obj, user
  <2>6. newAuth'.userList = Append(newAuth.userList, obj)
    BY <2>5 DEF AddUserAtPos
  <2>7. UsersOf(newAuth'.userList) = Append(before.users, user)
    BY <1>1, <2>3, <2>6, UsersOfAppend DEF Databases, Lists
  <2>8. NextLoaded(before, line) = [before EXCEPT !.users = Append(@, NewUserFromCSV(line))]
    BY <1>1, <1>2, <1>5, <1>6, <2>4 DEF NextLoaded
  <2>9. /\ NextLoaded(before, line).users = Append(before.users, user)
        /\ ~NextLoaded(before, line).ended
    BY <1>1, <1>5, <2>8 DEF Loads, user
  <2>10. ObjectsOf(newAuth') = ObjectsOf(newAuth) \cup {obj}
    BY <1>1, <2>3, <2>5, AddedObjects
  <2>11. AllReadable(newAuth) => AllReadable(newAuth)'
    BY <1>1, <2>2, <2>3, <2>10 DEF AllReadable
  <2> QED
    BY <1>1, <1>2, <1>4, <1>5, <2>7, <2>9, <2>11 DEF ReadSoFar, lines
<1>7. CASE ~(IsUserRow(line) /\ CodesFree(newAuth, user))
  <2>1. newAuth' = newAuth
    BY <1>3, <1>7
  <2>2. ~IsUserRow(line) \/ Taken(before.users, line)
    BY <1>1, <1>5, <1>7, LineIsUser, UsersTaken
  <2>3. NextLoaded(before, line) = before
    BY <1>1, <1>2, <1>5, <2>2 DEF NextLoaded, line
  <2> QED
    BY <1>1, <1>2, <1>4, <1>5, <2>1, <2>3 DEF ReadSoFar, lines, AllReadable
<1> QED
  BY <1>6, <1>7

\* What has been read to the end is what is loaded.
LEMMA EndReads ==
  ASSUME IInv, ReadSoFar, reading = usersFile, AtEnd
  PROVE  /\ UsersOf(newAuth.userList) = LoadedNow
         /\ Persisted(UsersOf(newAuth.userList)) = LoadedNow
<1> DEFINE lines == disk[usersFile].lines
           before == Loading(lines)[readPos]
<1>1. /\ lines \in Seq(Lines) /\ readPos \in Nat /\ readPos <= Len(lines)
      /\ UsersOf(newAuth.userList) = before.users
      /\ LoadedNow \in Seq(StoredUsers) /\ LoadedNow = Loaded(lines)
  BY HostTypes DEF IInv, LoaderOK, ReadSoFar, LoadedNow
<1>2. readPos < Len(lines) => EndsReading(lines[readPos + 1])
  BY DEF AtEnd
<1> HIDE DEF lines
<1>3. readPos \in 0..Len(lines) /\ Len(lines) \in Nat
  BY <1>1
<1>4. Loaded(lines) = before.users
  <2>1. CASE readPos = Len(lines)
    BY <2>1 DEF Loaded
  <2>2. CASE readPos < Len(lines)
    <3> DEFINE k == readPos + 1
    <3>1. k \in 1..Len(lines) /\ k \in 0..Len(lines) /\ k - 1 = readPos /\ EndsReading(lines[k])
      BY <1>1, <1>2, <1>3, <2>2
    <3>2. Loading(lines)[k] = NextLoaded(before, lines[k]) /\ before \in Loads
      BY <1>1, <1>3, <3>1, LoadingIs
    <3> HIDE DEF k, before
    <3>3. Loading(lines)[k].ended /\ Loading(lines)[k].users = before.users
      BY <3>1, <3>2 DEF NextLoaded, Loads
    <3>4. Loaded(lines) = Loading(lines)[k].users
      BY <1>1, <3>1, <3>3, EndedStays
    <3> QED
      BY <3>3, <3>4
  <2> QED
    BY <1>1, <1>3, <2>1, <2>2
<1>5. LoadedNow \in Seq(UserRecords)
  BY <1>1 DEF StoredUsers
<1>6. Persisted(LoadedNow) = LoadedNow
  BY <1>1, <1>5, PersistedIs
<1> QED
  BY <1>1, <1>4, <1>6

LEMMA NothingRead == ASSUME EndReading PROVE AllReadable(newAuth)'
BY DEF EndReading, EmptyDb, AllReadable, ObjectsOf

LEMMA ReloadingStaysStored ==
  ASSUME DInv, HInv, ~ReadMayFail, NEW c \in Clients, Reloading(c)
  PROVE  HInv'
<1> USE DEF ReloadFails
<1>1. pc[c] # "idle" /\ pc[c] \notin Half /\ pc[c] # "done"
  BY DEF Reloading, ReloadNotNeeded, ReloadOpen, ReloadStat, ReloadLine, ReloadSwap, Half
<1>2. /\ pc \in [Clients -> Steps] /\ my \in [Clients -> Locals] /\ up = "up" /\ IInv
      /\ DeskFits(c) /\ Fits(c) /\ HostFits(c)
  BY <1>1, InCall DEF DInv, HInv, IInv, ClientsOK
<1>3. /\ my' = my /\ up' = up /\ UNCHANGED files /\ UsersMtime' = UsersMtime
      /\ usersFile' = usersFile /\ disk' = disk /\ LoadedNow' = LoadedNow
  <2>1. my' = my /\ up' = up /\ UNCHANGED files
    BY DEF Reloading, ReloadNotNeeded, ReloadOpen, ReloadStat, ReloadLine, ReloadSwap, clients, world
  <2> QED
    BY <2>1 DEF files, UsersMtime, LoadedNow
<1>4. my[c].result # "ok"
  BY <1>1, <1>2 DEF HostFits
\* To a step that needs nothing of list and file.
<1>5. ASSUME pc'[c] \in {"lookup", "stat", "read", "announce"} PROVE HostFits(c)'
  BY <1>3, <1>4, <1>5 DEF HostFits
\* A step that leaves the list in memory as it is.
<1>6. ASSUME UNCHANGED <<db, fileTimestamp>>, \A d \in Clients \ {c} : pc'[d] = pc[d], HostFits(c)',
             ReadSoFar', AllReadable(newAuth)', fileTimestamp # UsersMtime \/ pc'[c] \notin Half
      PROVE  HInv'
  <2>1. InMemory' = InMemory /\ InFile' = InFile
    BY <1>3, <1>6 DEF InMemory, InFile
  <2>2. ASSUME NEW d \in Clients \ {c} PROVE HostFits(d)'
    <3>1. HostFits(d) /\ pc'[d] = pc[d] /\ my'[d] = my[d]
      BY <1>3, <1>6 DEF HInv
    <3>2. /\ Appending(d)' = Appending(d) /\ Done(d)' = Done(d) /\ Answered(d)' = Answered(d)
      BY <1>3, <1>6, <2>1, <3>1 DEF Appending, Done, Answered
    <3>3. Dumping(d)' = Dumping(d)
      BY <1>3, <1>6, <2>1, <3>1 DEF Dumping, Dumped
    <3>4. CodesFree(db, my[d].target.user)' = CodesFree(db, my[d].target.user)
      BY <1>6, <3>1
    <3> QED
      BY <2>1, <3>1, <3>2, <3>3, <3>4 DEF HostFits
  <2>3. AllReadable(db)' /\ Clean(disk[usersFile].lines)'
    BY <1>3, <1>6 DEF HInv, AllReadable
  <2>4. (\A d \in Clients : pc'[d] \notin Half) => \A d \in Clients : pc[d] \notin Half
    BY <1>1, <1>6
  <2> QED
    BY <1>2, <1>3, <1>6, <2>1, <2>2, <2>3, <2>4 DEF HInv
<1>7. CASE ReloadNotNeeded(c)
  <2>1. /\ pc'[c] = "lookup" /\ \A d \in Clients \ {c} : pc'[d] = pc[d] /\ my'[d] = my[d]
        /\ UNCHANGED <<db, fileTimestamp, newAuth, readPos>>
    BY <1>2, <1>3, <1>7 DEF ReloadNotNeeded, Goto, memory, loader
  <2> QED
    BY <1>1, <1>2, <1>3, <1>5, <2>1, HostQuiet
<1>8. CASE ReloadOpen(c)
  <2>1. /\ pc'[c] = "stat" /\ \A d \in Clients \ {c} : pc'[d] = pc[d]
        /\ UNCHANGED <<db, fileTimestamp>> /\ BeginReading
    BY <1>2, <1>8 DEF ReloadOpen, Goto, memory
  <2>2. ReadSoFar' /\ AllReadable(newAuth)'
    BY <1>2, <1>3, <2>1, BeginReads
  <2> QED
    BY <1>5, <1>6, <2>1, <2>2 DEF Half
<1>9. CASE ReloadStat(c)
  <2>1. /\ pc[c] = "stat" /\ pc'[c] = "read" /\ \A d \in Clients \ {c} : pc'[d] = pc[d] /\ my'[d] = my[d]
        /\ UNCHANGED <<db, fileTimestamp, newAuth, readPos>>
    BY <1>2, <1>3, <1>9 DEF ReloadStat, Goto, memory
  <2> QED
    BY <1>1, <1>2, <1>3, <1>5, <2>1, HostQuiet
<1>10. CASE ReloadLine(c)
  <2>1. /\ pc[c] = "read" /\ pc' = pc /\ UNCHANGED <<db, fileTimestamp>> /\ ReadLine
    BY <1>10 DEF ReloadLine, memory, clients
  <2>2. reading = usersFile /\ ReadSoFar
    BY <1>2, <2>1 DEF DeskFits, HInv, IsRead
  <2>3. ReadSoFar' /\ AllReadable(newAuth)'
    BY <1>2, <1>3, <2>1, <2>2, LineReads DEF HInv
  <2> QED
    BY <1>5, <1>6, <2>1, <2>3 DEF Half
<1>11. CASE ReloadSwap(c)
  <2>1. /\ pc[c] = "read" /\ pc'[c] = "announce" /\ db' = newAuth /\ EndReading /\ AtEnd
        /\ \A d \in Clients \ {c} : pc'[d] = pc[d]
    BY <1>2, <1>11 DEF ReloadSwap, Goto
  <2>2. fileLock = c
    BY <1>2, <2>1 DEF Fits, LocksHeld
  <2>3. ASSUME NEW d \in Clients \ {c}
        PROVE  /\ pc[d] \notin {"stat", "read", "stamp"} /\ ~HasReloaded(d)
               /\ pc[d] \notin Half
    <3>1. pc[d] \notin {"stat", "read", "stamp"}
      BY <1>2, <2>2, OneReader
    <3>2. DeskFits(d)
      BY DEF DInv
    <3>3. ~HasReloaded(d)
      BY <2>1, <3>2 DEF DeskFits
    <3> QED
      BY <3>1, <3>3 DEF HasReloaded, Half
  <2>4. reading = usersFile /\ ReadSoFar
    BY <1>2, <2>1 DEF DeskFits, HInv, IsRead
  <2>5. InFile'
    BY <1>2, <1>3, <2>1, <2>4, EndReads DEF InFile, InMemory
  <2>6. ASSUME NEW d \in Clients \ {c} PROVE HostFits(d)'
    <3>1. HostFits(d) /\ pc'[d] = pc[d] /\ my'[d] = my[d] /\ pc[d] \notin Half
      BY <1>3, <2>1, <2>3 DEF HInv
    <3>2. Answered(d)' = Answered(d)
      BY <1>3, <3>1 DEF Answered
    <3> QED
      BY <3>1, <3>2 DEF HostFits, Half
  <2>7. ~IsRead'
    BY <1>2, <1>3, <2>1, <2>3 DEF IsRead
  <2>8. AllReadable(newAuth)' /\ AllReadable(db)' /\ Clean(disk[usersFile].lines)'
    BY <1>3, <2>1, NothingRead DEF HInv, AllReadable
  <2> QED
    BY <1>5, <2>1, <2>5, <2>6, <2>7, <2>8 DEF HInv
<1> QED
  BY <1>7, <1>8, <1>9, <1>10, <1>11 DEF Reloading

-----------------------------------------------------------------------------
(* The process and lookups. *)

LEMMA DieStaysStored == ASSUME DInv, HInv, Die PROVE HInv'
<1>1. /\ up' = "down" /\ db' = EmptyDb /\ EndReading /\ disk' = disk /\ usersFile' = usersFile
      /\ \A c \in Clients : pc'[c] = "idle" /\ my'[c].result = "none"
  BY DEF Die, NoLocals, files
<1>2. AllReadable(db)' /\ AllReadable(newAuth)'
  BY <1>1, NothingRead DEF EmptyDb, AllReadable, ObjectsOf
<1>3. \A c \in Clients : HostFits(c)'
  BY <1>1 DEF HostFits
<1> QED
  BY <1>1, <1>2, <1>3 DEF HInv, IsRead

LEMMA ProcessStaysStored == ASSUME DInv, HInv, Process PROVE HInv'
<1>1. /\ UNCHANGED files /\ UNCHANGED clients /\ up # "up" /\ IInv
  BY DEF Process, Start, StartLine, Started, DInv
<1>2. \A c \in Clients : pc'[c] = "idle" /\ HostFits(c)'
  <2> SUFFICES ASSUME NEW c \in Clients PROVE HostFits(c)' /\ pc'[c] = "idle"
    OBVIOUS
  <2>1. pc[c] = "idle" /\ pc'[c] = "idle" /\ my'[c] = my[c] /\ HostFits(c)
    BY <1>1, NotUpIsIdle DEF clients, HInv
  <2> QED
    BY <2>1 DEF HostFits
<1>3. disk' = disk /\ usersFile' = usersFile /\ LoadedNow' = LoadedNow /\ Clean(disk[usersFile].lines)'
  BY <1>1 DEF files, LoadedNow, HInv
<1>4. \A c \in Clients : pc'[c] \notin Half
  BY <1>2 DEF Half
<1>5. CASE Start
  <2>1. ReadSoFar' /\ AllReadable(newAuth)' /\ db' = db /\ up' = "starting"
    BY <1>1, <1>5, BeginReads DEF Start, memory
  <2> QED
    BY <1>2, <1>3, <2>1 DEF HInv, AllReadable
<1>6. CASE StartLine
  <2>1. ReadSoFar /\ reading = usersFile /\ ReadLine /\ db' = db /\ up' = "starting"
    BY <1>6 DEF StartLine, DInv, HInv, IsRead, memory, world
  <2>2. ReadSoFar' /\ AllReadable(newAuth)'
    BY <1>1, <2>1, LineReads DEF HInv
  <2> QED
    BY <1>2, <1>3, <2>1, <2>2 DEF HInv, AllReadable
<1>7. CASE Started
  <2>1. ReadSoFar /\ reading = usersFile /\ AtEnd /\ db' = newAuth /\ EndReading /\ up' = "up"
    BY <1>7 DEF Started, DInv, HInv, IsRead
  <2>2. InFile'
    BY <1>1, <1>3, <2>1, EndReads DEF InFile, InMemory
  <2>3. AllReadable(newAuth)' /\ AllReadable(db)'
    BY <2>1, NothingRead DEF HInv, AllReadable
  <2>4. ~IsRead'
    BY <1>2, <2>1 DEF IsRead
  <2> QED
    BY <1>2, <1>3, <2>2, <2>3, <2>4 DEF HInv
<1> QED
  BY <1>5, <1>6, <1>7 DEF Process

LEMMA LookingUpStaysStored ==
  ASSUME DInv, HInv, NEW c \in Clients, LookingUp(c)
  PROVE  HInv'
<1> USE DEF Lookup
<1>1. pc[c] = "lookup"
  BY DEF LookingUp, FindUser, AuthUser, VerifyOpAllowed, FindTarget
<1>2. /\ pc \in [Clients -> Steps] /\ my \in [Clients -> Locals] /\ HostFits(c) /\ up = "up"
  BY <1>1, InCall DEF DInv, HInv, IInv, ClientsOK
<1>4. ASSUME FindUser(c) \/ AuthUser(c) \/ VerifyOpAllowed(c) \/ FindTarget(c)
      PROVE  UNCHANGED <<db, fileTimestamp, newAuth, readPos, files>> /\ up' = up
  BY <1>4 DEF FindUser, AuthUser, VerifyOpAllowed, FindTarget, memory, loader, world
<1>5. ASSUME FindUser(c) \/ AuthUser(c) \/ VerifyOpAllowed(c) \/ FindTarget(c),
             \A d \in Clients \ {c} : pc'[d] = pc[d] /\ my'[d] = my[d],
             pc'[c] \in {"add", "reload", "modify"}, my'[c].result = my[c].result
      PROVE  HInv'
  <2>1. HostFits(c)'
    BY <1>1, <1>2, <1>5 DEF HostFits
  <2> QED
    BY <1>1, <1>2, <1>4, <1>5, <2>1, HostQuiet DEF Half
<1>6. CASE FindUser(c) \/ AuthUser(c)
  <2>1. \A u, t : AuthResult(u, t) # "ok"
    BY DEF AuthResult, UserHasAccess
  <2>2. PICK r : Answer(c, r) /\ r # "ok"
    BY <1>6, <2>1 DEF FindUser, AuthUser
  <2> QED
    BY <1>1, <1>4, <1>6, <2>2, HostAnswer DEF Half
<1>7. CASE VerifyOpAllowed(c)
  <2>1. CASE Answer(c, "refused")
    BY <1>1, <1>4, <1>7, <2>1, HostAnswer DEF Half
  <2>2. CASE ~Answer(c, "refused")
    <3>1. \/ Goto(c, "add") /\ my' = my
          \/ /\ Goto(c, "reload")
             /\ my' = [my EXCEPT ![c].phase = "target", ![c].asOf = UsersMtime]
      BY <1>7, <2>2 DEF VerifyOpAllowed
    <3>2. /\ \A d \in Clients \ {c} : pc'[d] = pc[d] /\ my'[d] = my[d]
          /\ pc'[c] \in {"add", "reload"} /\ my'[c].result = my[c].result
      BY <1>2, <3>1 DEF Goto, Locals
    <3> QED
      BY <1>5, <1>7, <3>2
  <2> QED
    BY <2>1, <2>2
<1>8. CASE FindTarget(c)
  <2>1. /\ Goto(c, "modify")
        /\ my' = [my EXCEPT ![c].target = Found(my[c].call.code), ![c].seen = revision]
    BY <1>8 DEF FindTarget
  <2>2. /\ \A d \in Clients \ {c} : pc'[d] = pc[d] /\ my'[d] = my[d]
        /\ pc'[c] = "modify" /\ my'[c].result = my[c].result
    BY <1>2, <2>1 DEF Goto, Locals
  <2> QED
    BY <1>5, <1>8, <2>2
<1> QED
  BY <1>6, <1>7, <1>8 DEF LookingUp

LEMMA PanickingStaysStored == ASSUME DInv, HInv, NEW c \in Clients, Panicking(c) PROVE HInv'
BY DieStaysStored DEF Panicking, UpdatePanics, StatPanics

\* Waiting for the event bus leaves list and file as they are.
LEMMA PostingStaysStored == ASSUME DInv, HInv, NEW c \in Clients, Posting(c) PROVE HInv'
<1>1. /\ up' = up /\ my' = my /\ UNCHANGED <<db, fileTimestamp, newAuth, readPos, files>>
      /\ pc[c] \in {"announce", "post"}
  BY DEF Posting, ReloadPosted, Posted, memory, loader, world
<1>2. /\ pc \in [Clients -> Steps] /\ up = "up" /\ HostFits(c)
  BY <1>1, InCall DEF DInv, HInv, IInv, ClientsOK
<1>3. \A d \in Clients \ {c} : pc'[d] = pc[d] /\ my'[d] = my[d]
  BY <1>1, <1>2 DEF Posting, ReloadPosted, Posted, Goto
<1>4. CASE ReloadPosted(c)
  <2>1. pc[c] = "announce" /\ pc'[c] = "lookup"
    BY <1>2, <1>4 DEF ReloadPosted, Goto
  <2>2. HostFits(c)'
    BY <1>1, <1>2, <2>1 DEF HostFits
  <2> QED
    BY <1>1, <1>2, <1>3, <2>1, <2>2, HostQuiet DEF Half
<1>5. CASE Posted(c)
  <2>1. /\ pc[c] = "post"
        /\ pc'[c] = IF my[c].call.op = "add" THEN "append" ELSE "create"
    BY <1>2, <1>5 DEF Posted, Goto
  <2>2. LoadedNow' = LoadedNow /\ InMemory' = InMemory
    BY <1>1 DEF files, LoadedNow, InMemory
  <2>3. Appending(c)' = Appending(c) /\ Done(c)' = Done(c)
    BY <1>1, <2>2 DEF Appending, Done
  <2>4. HostFits(c)'
    BY <1>1, <1>2, <2>1, <2>3 DEF HostFits
  <2> QED
    BY <1>1, <1>2, <1>3, <2>1, <2>4, HostQuiet DEF Half
<1> QED
  BY <1>4, <1>5 DEF Posting

-----------------------------------------------------------------------------
(* Changes. *)

\* Before the change memory and file are the same; what is left to show after.
LEMMA BeforeChange ==
  ASSUME DInv, HInv, OneDesk, NEW c \in Clients, pc[c] \in {"add", "modify", "replace"}
  PROVE  /\ c \in Modifiers /\ fileTimestamp = UsersMtime /\ up = "up"
         /\ \A d \in Clients : pc[d] \notin {"stat", "read"}
         /\ \A d \in Clients \ {c} : pc[d] \notin Half
         /\ pc[c] # "replace" => InFile
         /\ my[c].result # "ok" /\ pc \in [Clients -> Steps] /\ my \in [Clients -> Locals]
         /\ my[c] \in Locals /\ my[c].call \in Requests /\ Fits(c) /\ DeskFits(c)
<1>1. /\ up = "up" /\ DeskFits(c) /\ HostFits(c) /\ Fits(c) /\ my[c].call \in Requests /\ my[c] \in Locals
      /\ pc \in [Clients -> Steps] /\ my \in [Clients -> Locals]
  BY InCall DEF DInv, HInv, IInv, ClientsOK
<1>2. c \in Modifiers /\ HasReloaded(c)
  BY <1>1 DEF DeskFits, ChangeSteps, HasReloaded, Verified
<1>3. ASSUME NEW d \in Clients \ {c} PROVE pc[d] \notin Half
  <2>1. d \notin Modifiers /\ DeskFits(d)
    BY <1>2 DEF OneDesk, DInv
  <2> QED
    BY <2>1 DEF DeskFits, ChangeSteps, Half
<1>4. pc[c] # "replace" => pc[c] \notin Half
  BY DEF Half
<1>5. pc[c] # "replace" => InFile
  BY <1>1, <1>2, <1>3, <1>4 DEF HInv, DeskFits
<1> QED
  BY <1>1, <1>2, <1>3, <1>5 DEF DeskFits, HostFits

LEMMA ChangeStored ==
  ASSUME DInv, HInv, OneDesk, NEW c \in Clients, pc[c] \in {"add", "modify", "replace"}, up' = up,
         UNCHANGED <<newAuth, files>>,
         \A d \in Clients \ {c} : pc'[d] = pc[d] /\ my'[d] = my[d],
         pc'[c] \in Half, AllReadable(db)', HostFits(c)'
  PROVE  HInv'
<1>1. /\ c \in Modifiers /\ up = "up" /\ \A d \in Clients : pc[d] \notin {"stat", "read"}
  BY BeforeChange
<1>2. \A d \in Clients \ {c} : HostFits(d)'
  BY <1>1, OthersStored
<1>3. ~IsRead'
  BY <1>1 DEF IsRead, Half
<1>4. Clean(disk[usersFile].lines)' /\ AllReadable(newAuth)'
  BY DEF files, HInv, AllReadable
<1> QED
  BY <1>2, <1>3, <1>4 DEF HInv

LEMMA AddUserStaysStored ==
  ASSUME DInv, HInv, OneDesk, QuietHost, IInv', NEW c \in Clients, AddUser(c)
  PROVE  HInv'
<1> DEFINE user == Stamped(my[c].call.user)
<1>1. /\ pc[c] = "add" /\ up' = up /\ UNCHANGED <<fileTimestamp, newAuth, readPos, files>>
  BY DEF AddUser, loader, world
<1>2. /\ fileTimestamp = UsersMtime /\ up = "up" /\ InFile /\ my[c].result # "ok"
      /\ pc \in [Clients -> Steps] /\ my \in [Clients -> Locals] /\ my[c] \in Locals
      /\ my[c].call \in Requests /\ Fits(c)
      /\ db \in Databases /\ IndexesAgree(db) /\ AllReadable(db) /\ IInv
  BY <1>1, BeforeChange, HostTypes DEF DInv, HInv
<1>3. my[c].call \in AddCalls
  BY <1>1, <1>2 DEF Fits, CallFits
<1>4. my[c].call.user \in UserRecords /\ my[c].call.op = "add" /\ Readable(my[c].call.user)
  BY <1>2, <1>3 DEF AddCalls, QuietHost
<1>5. user \in UserRecords /\ Readable(user)
  <2>1. user \in UserRecords
    BY <1>2, <1>4, RenewedIsRecord
  <2>2. user.name = my[c].call.user.name /\ user.codes = my[c].call.user.codes
    BY <1>4 DEF Stamped, UserRecords
  <2> QED
    BY <1>4, <2>1, <2>2 DEF Readable
<1>6. CASE Answer(c, "refused") /\ db' = db
  BY <1>1, <1>6, HostAnswer DEF Half
<1>7. ASSUME CodesFree(db, user), NEW a \in Addrs,
             db' = AddUserAtPos(db, [addr |-> a, user |-> user], 0),
             Goto(c, "post"), my' = [my EXCEPT ![c].target = [addr |-> a, user |-> user]]
      PROVE  HInv'
  <2> DEFINE obj == [addr |-> a, user |-> user]
  <2>1. obj \in Objects /\ obj.user = user
    BY <1>5 DEF Objects
  <2>2. db' = AddUserAtPos(db, obj, 0) /\ my' = [my EXCEPT ![c].target = obj]
    BY <1>7
  <2> HIDE DEF obj, user
  <2>3. /\ pc'[c] = "post" /\ my'[c].target = obj /\ my'[c].call = my[c].call
        /\ my'[c].result = my[c].result
        /\ \A d \in Clients \ {c} : pc'[d] = pc[d] /\ my'[d] = my[d]
    BY <1>2, <1>7, <2>2 DEF Goto, Locals
  <2>4. ObjectsOf(db') = ObjectsOf(db) \cup {obj}
    BY <1>2, <2>1, <2>2, AddedObjects
  <2>5. AllReadable(db)'
    BY <1>2, <1>5, <2>1, <2>4 DEF AllReadable
  <2>6. Done(c)'
    BY <1>4, <2>1, <2>3, <2>4 DEF Done
  <2>7. InMemory' = Append(InMemory, user)
    <3>1. db'.userList = Append(db.userList, obj) /\ db.userList \in Lists
      BY <1>2, <2>2 DEF AddUserAtPos, Databases, Lists
    <3> QED
      BY <2>1, <3>1, UsersOfAppend DEF InMemory
  <2>8. Persisted(InMemory)' = Append(LoadedNow, Reloaded(user))
    <3>1. InMemory \in Seq(UserRecords)
      BY <1>2, HostTypes
    <3>2. Persisted(Append(InMemory, user)) = Append(Persisted(InMemory), Reloaded(user))
      BY <1>5, <3>1, PersistedAppend
    <3> QED
      BY <1>2, <2>7, <3>2 DEF InFile
  <2>9. LoadedNow' = LoadedNow
    BY <1>1 DEF LoadedNow, files
  <2>10. ~Taken(LoadedNow, WriteCSV(user))
    <3>1. /\ NewUserFromCSV(WriteCSV(user)) = Reloaded(user) /\ Reloaded(user).codes = user.codes
          /\ Reloaded(user) \in UserRecords
      BY <1>5, RowIsLine, LineIsUser
    <3>2. CodesFree(db, Reloaded(user))
      BY <1>7, <3>1 DEF CodesFree
    <3>3. LoadedNow = Persisted(UsersOf(db.userList))
      BY <1>2 DEF InFile, InMemory
    <3> QED
      BY <1>2, <3>1, <3>2, <3>3, StoredTaken
  <2>11. Appending(c)'
    BY <2>1, <2>3, <2>8, <2>9, <2>10 DEF Appending
  <2>12. HostFits(c)'
    BY <1>2, <1>4, <2>3, <2>6, <2>11 DEF HostFits
  <2>13. pc'[c] \in Half
    BY <2>3 DEF Half
  <2> QED
    BY <1>1, <2>3, <2>5, <2>12, <2>13, ChangeStored
<1>8. \/ Answer(c, "refused") /\ db' = db
      \/ /\ CodesFree(db, user)
         /\ \E a \in Addrs : /\ db' = AddUserAtPos(db, [addr |-> a, user |-> user], 0)
                             /\ Goto(c, "post")
                             /\ my' = [my EXCEPT ![c].target = [addr |-> a, user |-> user]]
  BY DEF AddUser
<1> QED
  BY <1>6, <1>7, <1>8

\* The object found is one of the list.
LEMMA TargetListed ==
  ASSUME DInv, NEW c \in Clients, pc[c] = "modify", my[c].target # Nil
  PROVE  /\ my[c].target \in ObjectsOf(db) /\ my[c].call.code \in Codes
         /\ my[c].call.code \in my[c].target.user.codes
<1>1. /\ DeskFits(c) /\ Fits(c) /\ db \in Databases /\ IndexesAgree(db)
  BY HostTypes DEF DInv, IInv
<1>2. my[c].target = Found(my[c].call.code) /\ my[c].call \in UpdateCalls \cup DeleteCalls
  BY <1>1 DEF DeskFits, Fits, CallFits
<1>3. my[c].call.code \in Codes
  BY <1>2 DEF UpdateCalls, DeleteCalls, Codes
<1> QED
  BY <1>1, <1>2, <1>3 DEF Found, IndexesAgree

LEMMA ReplaceDeleteStaysStored ==
  ASSUME DInv, HInv, OneDesk, QuietHost, NEW c \in Clients, ReplaceDelete(c)
  PROVE  HInv'
<1> DEFINE old == my[c].target
           new == Updated(old.user, my[c].call.updater)
           pos == IndexOf(db, old)
<1>1. /\ pc[c] = "modify" /\ up' = up /\ UNCHANGED <<fileTimestamp, newAuth, readPos, files>>
      /\ my[c].call.op = "update" /\ ~Declines(my[c].call.updater)
      /\ db' = DeleteUserFrom(db, old)
      /\ my' = [my EXCEPT ![c].slot = pos, ![c].target.user = new] /\ Goto(c, "replace")
  BY DEF ReplaceDelete, loader, world
<1>2. /\ up = "up" /\ my[c].result # "ok"
      /\ pc \in [Clients -> Steps] /\ my \in [Clients -> Locals] /\ my[c] \in Locals
      /\ my[c].call \in Requests /\ Fits(c)
      /\ db \in Databases /\ IndexesAgree(db) /\ AllReadable(db)
  BY <1>1, BeforeChange, HostTypes DEF DInv, HInv
<1>3. my[c].call \in UpdateCalls /\ old \in Objects
  BY <1>1, <1>2 DEF Fits, CallFits, DeleteCalls
<1>4. my[c].call.updater = "renew"
  BY <1>1, <1>2, <1>3 DEF QuietHost, Declines
<1>5. old \in ObjectsOf(db)
  BY <1>1, <1>3, Constants, TargetListed
<1>6. new = [old.user EXCEPT !.from = Now(now)]
  BY <1>4 DEF Updated
<1>7. new.codes = old.user.codes /\ new.name = old.user.name
  BY <1>3, <1>6 DEF Objects, UserRecords
<1>8. Readable(new)
  BY <1>2, <1>5, <1>7 DEF AllReadable, Readable
<1>9. CodesFree(db', new) /\ AllReadable(db')
  <2>1. /\ ObjectsOf(db') = ObjectsOf(db) \ {old}
        /\ \A x \in old.user.codes : db'.code2user[x] = Nil
    BY <1>1, <1>2, <1>5, DeletedObjects
  <2> QED
    BY <1>2, <1>7, <2>1 DEF AllReadable, CodesFree
<1> HIDE DEF new, pos
<1>10. /\ pc'[c] = "replace" /\ my'[c].target.user = new /\ my'[c].result = my[c].result
       /\ my'[c].call = my[c].call
       /\ \A d \in Clients \ {c} : pc'[d] = pc[d] /\ my'[d] = my[d]
  BY <1>1, <1>2, <1>3 DEF Goto, Locals, Objects
<1>11. HostFits(c)'
  BY <1>1, <1>2, <1>8, <1>9, <1>10 DEF HostFits
<1>12. pc'[c] \in Half /\ AllReadable(db)'
  BY <1>9, <1>10 DEF Half, AllReadable
<1> QED
  BY <1>1, <1>10, <1>11, <1>12, ChangeStored

LEMMA ReplaceAddStaysStored ==
  ASSUME DInv, HInv, OneDesk, NEW c \in Clients, ReplaceAdd(c)
  PROVE  HInv' /\ pc'[c] = "post"
<1> DEFINE user == my[c].target.user
<1>1. /\ pc[c] = "replace" /\ up' = up /\ UNCHANGED <<fileTimestamp, newAuth, readPos, files>>
  BY DEF ReplaceAdd, loader, world
<1>2. /\ up = "up" /\ my[c].result # "ok"
      /\ pc \in [Clients -> Steps] /\ my \in [Clients -> Locals] /\ my[c] \in Locals
      /\ my[c].call \in Requests /\ Fits(c) /\ DeskFits(c) /\ HostFits(c)
      /\ db \in Databases /\ IndexesAgree(db) /\ AllReadable(db)
  BY <1>1, BeforeChange, HostTypes DEF DInv, HInv
<1>3. CodesFree(db, user) /\ Readable(user)
  BY <1>1, <1>2 DEF HostFits
<1>4. PICK a \in Addrs : db' = AddUserAtPos(db, [addr |-> a, user |-> user], my[c].slot)
  BY <1>3 DEF ReplaceAdd
<1>5. Goto(c, "post") /\ my' = my
  BY <1>3 DEF ReplaceAdd
<1> DEFINE obj == [addr |-> a, user |-> user]
<1>6. /\ obj \in Objects /\ obj.user = user /\ my[c].slot \in Nat
      /\ my[c].slot # 0 => my[c].slot \in DOMAIN db.userList /\ db.userList[my[c].slot] = Nil
  BY <1>1, <1>2 DEF Objects, Fits, LocalsOK, LocksHeld, Locals
<1>7. db' = AddUserAtPos(db, obj, my[c].slot)
  BY <1>4
<1> HIDE DEF obj, user
<1>8. ObjectsOf(db') = ObjectsOf(db) \cup {obj}
  BY <1>2, <1>6, <1>7, AddedObjects
<1>9. AllReadable(db)'
  BY <1>2, <1>3, <1>6, <1>8 DEF AllReadable
<1>10. pc'[c] = "post" /\ \A d \in Clients \ {c} : pc'[d] = pc[d] /\ my'[d] = my[d]
  BY <1>2, <1>5 DEF Goto
<1>11. my[c].call.op = "update"
  BY <1>1, <1>2 DEF HostFits
<1>12. Done(c)'
  BY <1>5, <1>6, <1>8, <1>11 DEF Done, user
<1>13. HostFits(c)'
  BY <1>2, <1>5, <1>10, <1>11, <1>12 DEF HostFits
<1>14. pc'[c] \in Half
  BY <1>10 DEF Half
<1> QED
  BY <1>1, <1>5, <1>9, <1>10, <1>13, <1>14, ChangeStored

LEMMA DeleteUserStaysStored ==
  ASSUME DInv, HInv, OneDesk, NEW c \in Clients, DeleteUser(c)
  PROVE  HInv'
<1> DEFINE old == my[c].target
<1>1. /\ pc[c] = "modify" /\ up' = up /\ UNCHANGED <<fileTimestamp, newAuth, readPos, files>>
      /\ my[c].call.op = "delete" /\ db' = DeleteUserFrom(db, old)
      /\ IF IndexOf(db, old) > 0 THEN Goto(c, "post") /\ UNCHANGED my ELSE Answer(c, "refused")
  BY DEF DeleteUser, loader, world
<1>2. /\ up = "up" /\ my[c].result # "ok"
      /\ pc \in [Clients -> Steps] /\ my \in [Clients -> Locals] /\ my[c] \in Locals
      /\ db \in Databases /\ IndexesAgree(db) /\ AllReadable(db)
  BY <1>1, BeforeChange, HostTypes DEF DInv, HInv
<1>3. CASE old = Nil
  <2>1. IndexOf(db, old) = 0
    BY <1>3 DEF IndexOf
  <2>2. db' = db /\ Answer(c, "refused")
    BY <1>1, <2>1 DEF DeleteUserFrom
  <2> QED
    BY <1>1, <2>2, HostAnswer DEF Half
<1>4. CASE old # Nil
  <2>1. /\ old \in ObjectsOf(db) /\ my[c].call.code \in old.user.codes
    BY <1>1, <1>4, TargetListed
  <2>2. /\ ObjectsOf(db') = ObjectsOf(db) \ {old} /\ IndexOf(db, old) # 0
        /\ \A x \in old.user.codes : db'.code2user[x] = Nil
    BY <1>1, <1>2, <2>1, DeletedObjects
  <2>3. IndexOf(db, old) \in Nat
    <3>1. old \in Objects \cup {Nil}
      BY <1>2 DEF Locals
    <3> QED
      BY <1>2, <3>1, DeleteAgrees
  <2>4. Goto(c, "post") /\ my' = my
    BY <1>1, <2>2, <2>3
  <2>5. pc'[c] = "post" /\ \A d \in Clients \ {c} : pc'[d] = pc[d] /\ my'[d] = my[d]
    BY <1>2, <2>4 DEF Goto
  <2>6. AllReadable(db)'
    BY <1>2, <2>2 DEF AllReadable
  <2>7. Done(c)'
    BY <1>1, <2>1, <2>2, <2>4 DEF Done
  <2>8. HostFits(c)'
    BY <1>1, <1>2, <2>4, <2>5, <2>7 DEF HostFits
  <2>9. pc'[c] \in Half
    BY <2>5 DEF Half
  <2> QED
    BY <1>1, <2>4, <2>5, <2>6, <2>8, <2>9, ChangeStored
<1> QED
  BY <1>3, <1>4

LEMMA ChangingStaysStored ==
  ASSUME DInv, HInv, OneDesk, QuietHost, IInv', NEW c \in Clients, Changing(c)
  PROVE  HInv'
<1>1. CASE NotModified(c)
  <2>1. /\ pc[c] = "modify" /\ Answer(c, "refused") /\ up' = up
        /\ UNCHANGED <<db, fileTimestamp, newAuth, readPos, files>>
    BY <1>1 DEF NotModified, memory, loader, world
  <2> QED
    BY <2>1, HostAnswer DEF Half
<1> QED
  BY <1>1, AddUserStaysStored, ReplaceDeleteStaysStored, ReplaceAddStaysStored, DeleteUserStaysStored
     DEF Changing

-----------------------------------------------------------------------------
(* Writing. *)

\* The row of the next user goes to the dump.
LEMMA RowGoesOn ==
  ASSUME NEW d \in Databases, IndexesAgree(d), AllReadable(d),
         NEW k \in Nat, k + 1 \in DOMAIN d.userList, d.userList[k + 1] # Nil,
         NEW lines \in Seq(Lines), Clean(lines), Loaded(lines) = Persisted(UsersBefore(d.userList)[k])
  PROVE  LET more == Append(lines, WriteCSV(d.userList[k + 1].user))
         IN  /\ more \in Seq(Lines) /\ Clean(more)
             /\ Loaded(more) = Persisted(UsersBefore(d.userList)[k + 1])
<1> DEFINE list == d.userList
           obj == list[k + 1]
           row == WriteCSV(obj.user)
           before == UsersBefore(list)[k]
<1>1. /\ list \in Lists /\ DOMAIN list = 1..Len(list) /\ Len(list) \in Nat /\ k \in 0..Len(list)
      /\ k + 1 \in 1..Len(list) /\ (k + 1) - 1 = k
  BY DEF Databases, Lists
<1>2. obj \in ObjectsOf(d)
  BY DEF ObjectsOf
<1>3. Readable(obj.user) /\ obj.user \in UserRecords
  BY <1>2, CodeOwners DEF AllReadable
<1>4. /\ row \in Lines /\ IsUserRow(row) /\ ~EndsReading(row) /\ NewUserFromCSV(row) = Reloaded(obj.user)
      /\ Reloaded(obj.user).codes = obj.user.codes
  BY <1>3, RowIsLine
<1>5. before \in Seq(UserRecords) /\ Elements(before) = ListedBefore(list, k)
  BY <1>1, UsersBeforeIs, UsersAreListed
<1>6. UsersBefore(list)[k + 1] = Append(before, obj.user)
  BY <1>1, UsersBeforeIs
<1>7. Elements(Persisted(before)) = {Reloaded(u) : u \in Elements(before)}
  BY <1>5, PersistedIs
<1>8. ASSUME NEW u \in Elements(before), Reloaded(u).codes \cap obj.user.codes # {} PROVE FALSE
  <2>1. PICK j \in 1..k : list[j] # Nil /\ u = list[j].user
    BY <1>5 DEF ListedBefore
  <2>2. j \in DOMAIN list /\ j # k + 1
    BY <1>1
  <2>3. list[j] \in ObjectsOf(d)
    BY <2>1, <2>2 DEF ObjectsOf
  <2>4. Reloaded(list[j].user).codes = list[j].user.codes
    BY <2>3, PersistedUsers
  <2>5. list[j] = obj
    BY <1>2, <1>8, <2>1, <2>3, <2>4, CodeOwners
  <2>6. d.user2index[list[j].addr] = j /\ d.user2index[obj.addr] = k + 1
    BY <2>1, <2>2 DEF IndexesAgree
  <2> QED
    BY <2>2, <2>5, <2>6
<1> HIDE DEF before, row, list, obj
<1>9. ~Taken(Loaded(lines), row)
  <2>1. Loaded(lines) = Persisted(before)
    BY DEF before, list
  <2> QED
    BY <1>4, <1>7, <1>8, <2>1, TakenIs
<1>10. Loaded(Append(lines, row)) = Append(Loaded(lines), Reloaded(obj.user))
  BY <1>4, <1>9, RowIsLoaded
<1>11. Persisted(Append(before, obj.user)) = Append(Persisted(before), Reloaded(obj.user))
  BY <1>3, <1>5, PersistedAppend
<1>12. Append(lines, row) \in Seq(Lines) /\ Clean(Append(lines, row))
  BY <1>4, CleanAppend
<1> QED
  BY <1>6, <1>10, <1>11, <1>12 DEF before, row, list, obj

\* Who writes is alone with list and file.
LEMMA BeforeWrite ==
  ASSUME DInv, HInv, OneDesk, NEW c \in Clients, pc[c] \in {"append", "create", "write", "stamp"}
  PROVE  /\ c \in Modifiers /\ up = "up" /\ Done(c) /\ pc[c] \in Half
         /\ \A d \in Clients \ {c} : pc[d] \notin {"stat", "read"}
         /\ my[c].result # "ok" /\ pc \in [Clients -> Steps] /\ my \in [Clients -> Locals]
         /\ my[c] \in Locals /\ my[c].call \in Requests /\ Fits(c) /\ DeskFits(c) /\ HostFits(c)
<1>1. /\ up = "up" /\ DeskFits(c) /\ HostFits(c) /\ Fits(c) /\ my[c].call \in Requests /\ my[c] \in Locals
      /\ pc \in [Clients -> Steps] /\ my \in [Clients -> Locals]
  BY InCall DEF DInv, HInv, IInv, ClientsOK
<1>2. c \in Modifiers /\ (HasReloaded(c) \/ fileLock = c)
  BY <1>1 DEF DeskFits, ChangeSteps, HasReloaded, Fits, LocksHeld
<1>3. \A d \in Clients \ {c} : pc[d] \notin {"stat", "read"}
  <2>1. fileLock = c => \A d \in Clients \ {c} : pc[d] \notin {"stat", "read"}
    BY OneReader DEF DInv
  <2> QED
    BY <1>1, <1>2, <2>1 DEF DeskFits
<1> QED
  BY <1>1, <1>2, <1>3 DEF HostFits, Half

\* What is left to show of a step of it.
LEMMA WriteStored ==
  ASSUME DInv, HInv, OneDesk, NEW c \in Clients, pc[c] \in {"append", "create", "write", "stamp"},
         UNCHANGED <<db, newAuth>>, up' = up,
         \A d \in Clients \ {c} : pc'[d] = pc[d] /\ my'[d] = my[d],
         pc'[c] \notin {"stat", "read"}, pc'[c] \in Half \/ InFile',
         Clean(disk[usersFile].lines)', HostFits(c)'
  PROVE  HInv'
<1>1. /\ c \in Modifiers /\ up = "up" /\ \A d \in Clients \ {c} : pc[d] \notin {"stat", "read"}
  BY BeforeWrite
<1>2. \A d \in Clients \ {c} : HostFits(d)'
  BY <1>1, OthersStored
<1>3. ~IsRead'
  BY <1>1 DEF IsRead
<1>4. AllReadable(db)' /\ AllReadable(newAuth)'
  BY DEF HInv, AllReadable
<1> QED
  BY <1>2, <1>3, <1>4 DEF HInv

LEMMA AppendStaysStored ==
  ASSUME DInv, HInv, OneDesk, QuietHost, NEW c \in Clients, AppendEntry(c)
  PROVE  HInv' /\ InFile'
<1> DEFINE lines == disk[usersFile].lines
           user == my[c].target.user
           row == WriteCSV(user)
<1>1. /\ pc[c] = "append" /\ UNCHANGED <<db, newAuth>> /\ up' = up /\ my' = my /\ usersFile' = usersFile
      /\ Goto(c, "stamp") /\ PutFile(usersFile, Append(lines, row))
  BY DEF AppendEntry, memory, loader, world, QuietHost
<1>2. /\ up = "up" /\ Done(c) /\ my[c].result # "ok" /\ pc \in [Clients -> Steps]
      /\ my[c] \in Locals /\ Fits(c) /\ HostFits(c)
      /\ usersFile \in Inodes /\ lines \in Seq(Lines) /\ Clean(lines) /\ LoadedNow = Loaded(lines)
      /\ db \in Databases /\ IndexesAgree(db) /\ AllReadable(db)
  BY <1>1, BeforeWrite, HostTypes DEF DInv, HInv, LoadedNow
<1>3. Appending(c) /\ my[c].target \in Objects
  BY <1>1, <1>2 DEF HostFits, Fits, LocalsOK
<1>4. user \in UserRecords
  BY <1>3 DEF Objects
<1>5. my[c].call.op # "delete"
  BY <1>1, <1>2 DEF HostFits
<1>6. Readable(user)
  <2>1. PICK obj \in ObjectsOf(db) : user = obj.user
    BY <1>2, <1>5 DEF Done
  <2> QED
    BY <1>2, <2>1 DEF AllReadable
<1>7. row \in Lines /\ IsUserRow(row) /\ ~EndsReading(row) /\ NewUserFromCSV(row) = Reloaded(user)
  BY <1>4, <1>6, RowIsLine
<1>8. ~Taken(Loaded(lines), row) /\ Persisted(InMemory) = Append(Loaded(lines), Reloaded(user))
  BY <1>2, <1>3 DEF Appending
<1>9. disk'[usersFile].lines = Append(lines, row)
  BY <1>1, <1>2, PutFileIs
<1> HIDE DEF lines, row, user
<1>10. Loaded(Append(lines, row)) = Append(Loaded(lines), Reloaded(user))
  BY <1>2, <1>7, <1>8, RowIsLoaded
<1>11. Clean(Append(lines, row))
  BY <1>2, <1>7, CleanAppend
<1>12. InMemory' = InMemory
  BY <1>1 DEF InMemory
<1>13. InFile'
  BY <1>1, <1>8, <1>9, <1>10, <1>12 DEF InFile, LoadedNow
<1>14. pc'[c] = "stamp" /\ \A d \in Clients \ {c} : pc'[d] = pc[d] /\ my'[d] = my[d]
  BY <1>1, <1>2 DEF Goto
<1>15. Done(c)'
  BY <1>1, <1>2 DEF Done
<1>16. HostFits(c)'
  BY <1>1, <1>2, <1>13, <1>14, <1>15 DEF HostFits
<1>17. HInv'
  BY <1>1, <1>9, <1>11, <1>13, <1>14, <1>16, WriteStored
<1> QED
  BY <1>13, <1>17

LEMMA CreateStaysStored ==
  ASSUME DInv, HInv, OneDesk, NEW c \in Clients, CreateTemp(c)
  PROVE  HInv' /\ LoadedNow' = LoadedNow
<1>1. /\ pc[c] = "create" /\ UNCHANGED <<db, newAuth>> /\ up' = up /\ usersFile' = usersFile
      /\ Goto(c, "write")
  BY DEF CreateTemp, memory, loader, world
<1>2. PICK i \in Inodes : FreshInode(i) /\ PutFile(i, <<>>)
                          /\ my' = [my EXCEPT ![c].fd = i, ![c].dump = db.userList]
  BY DEF CreateTemp
<1>3. /\ up = "up" /\ Done(c) /\ my[c].result # "ok" /\ pc \in [Clients -> Steps]
      /\ my \in [Clients -> Locals] /\ my[c] \in Locals
      /\ usersFile \in Inodes /\ db \in Databases /\ Clean(disk[usersFile].lines)
  BY <1>1, BeforeWrite, HostTypes DEF DInv, HInv
<1>4. /\ i # usersFile /\ disk'[usersFile] = disk[usersFile] /\ disk'[i].lines = <<>>
  BY <1>2, <1>3, PutFileIs DEF FreshInode
<1>5. /\ pc'[c] = "write" /\ my'[c].fd = i /\ my'[c].dump = db.userList /\ my'[c].call = my[c].call
      /\ my'[c].target = my[c].target /\ my'[c].result = my[c].result
      /\ \A d \in Clients \ {c} : pc'[d] = pc[d] /\ my'[d] = my[d]
  BY <1>1, <1>2, <1>3 DEF Goto, Locals
<1>6. Done(c)'
  BY <1>1, <1>3, <1>5 DEF Done
<1>7. Dumping(c)'
  <2>1. db.userList \in Lists /\ Len(db.userList) \in Nat
    BY <1>3 DEF Databases, Lists
  <2>2. UsersBefore(db.userList)[0] = <<>>
    BY <2>1, UsersBeforeIs
  <2>3. <<>> \in Seq(UserRecords) /\ <<>> \in Seq(StoredUsers)
    OBVIOUS
  <2>4. Persisted(<<>>) = <<>>
    BY <2>3, PersistedIs
  <2>5. Dumped(c)' = 0
    BY <1>1, <1>5, <2>1 DEF Dumped
  <2>6. Clean(<<>>)
    BY DEF Clean
  <2>7. \A j \in 1..Len(db.userList) : db.userList[j] = db.userList[0 + j]
    BY <2>1
  <2> QED
    BY <1>1, <1>4, <1>5, <2>1, <2>2, <2>4, <2>5, <2>6, <2>7, LoadedNothing DEF Dumping
<1>8. HostFits(c)'
  BY <1>3, <1>5, <1>6, <1>7 DEF HostFits
<1>9. Clean(disk[usersFile].lines)' /\ LoadedNow' = LoadedNow
  BY <1>1, <1>3, <1>4 DEF LoadedNow
<1>10. HInv'
  BY <1>1, <1>5, <1>8, <1>9, WriteStored DEF Half
<1> QED
  BY <1>9, <1>10

LEMMA WriteRowStaysStored ==
  ASSUME DInv, HInv, OneDesk, NEW c \in Clients, WriteRow(c)
  PROVE  HInv' /\ LoadedNow' = LoadedNow
<1> DEFINE list == db.userList
           dump == my[c].dump
           fd == my[c].fd
           k == Dumped(c)
           obj == Head(dump)
<1>1. /\ pc[c] = "write" /\ dump # <<>> /\ UNCHANGED <<db, newAuth>> /\ up' = up /\ usersFile' = usersFile
      /\ pc' = pc /\ my' = [my EXCEPT ![c].dump = Tail(@)]
      /\ obj = Nil => disk' = disk
      /\ obj # Nil => PutFile(fd, Append(disk[fd].lines, WriteCSV(obj.user)))
  BY DEF WriteRow, memory, loader, world
<1>2. /\ up = "up" /\ Done(c) /\ my[c].result # "ok" /\ pc \in [Clients -> Steps] /\ HostFits(c)
      /\ my \in [Clients -> Locals] /\ my[c] \in Locals /\ Fits(c) /\ DeskFits(c)
      /\ usersFile \in Inodes /\ db \in Databases /\ IndexesAgree(db) /\ AllReadable(db)
      /\ Clean(disk[usersFile].lines)
  BY <1>1, BeforeWrite, HostTypes DEF DInv, HInv
<1>3. fd \in Inodes /\ fd # usersFile /\ disk[fd].lines \in Seq(Lines)
  BY <1>1, <1>2, HostTypes DEF Fits, LocalsOK, DeskFits, DInv
<1>4. /\ Clean(disk[fd].lines) /\ k \in 0..Len(list) /\ \A j \in 1..Len(dump) : dump[j] = list[k + j]
      /\ Loaded(disk[fd].lines) = Persisted(UsersBefore(list)[k]) /\ k = Len(list) - Len(dump)
  BY <1>1, <1>2 DEF HostFits, Dumping, Dumped
<1>5. /\ list \in Lists /\ Len(list) \in Nat /\ DOMAIN list = 1..Len(list) /\ dump \in Seq(Objects \cup {Nil})
      /\ Len(dump) \in Nat
  BY <1>2 DEF Databases, Lists, Locals
<1>6. /\ my'[c].dump = Tail(dump) /\ my'[c].fd = fd /\ my'[c].call = my[c].call
      /\ my'[c].target = my[c].target /\ my'[c].result = my[c].result
      /\ \A d \in Clients \ {c} : pc'[d] = pc[d] /\ my'[d] = my[d]
  BY <1>1, <1>2 DEF Locals
<1> HIDE DEF k, dump, list, fd
<1>7. /\ Len(Tail(dump)) = Len(dump) - 1 /\ Len(dump) >= 1 /\ obj = dump[1]
      /\ \A j \in 1..Len(Tail(dump)) : Tail(dump)[j] = dump[j + 1] /\ j + 1 \in 1..Len(dump)
  BY <1>1, <1>5
<1>8. /\ k \in Nat /\ k + 1 \in DOMAIN list /\ k + 1 \in 1..Len(list) /\ k + 1 \in 0..Len(list)
      /\ k + 1 = Len(list) - Len(Tail(dump)) /\ (k + 1) - 1 = k
  <2> DEFINE n == Len(list)
             m == Len(dump)
             rest == Len(Tail(dump))
  <2>0. k \in 0..n /\ k = n - m
    BY <1>4
  <2>1. k \in 0..n /\ k = n - m /\ n \in Nat /\ m \in Nat /\ m >= 1 /\ rest = m - 1
    BY <1>5, <1>7, <2>0
  <2> HIDE DEF n, m, rest
  <2>2. k \in Nat /\ k + 1 \in 1..n /\ k + 1 \in 0..n /\ k + 1 = n - rest /\ (k + 1) - 1 = k
    BY <2>1
  <2>3. DOMAIN list = 1..n
    BY <1>5 DEF n
  <2>4. k + 1 \in DOMAIN list
    BY <2>2, <2>3
  <2> QED
    BY <2>2, <2>4 DEF n, rest
<1>9. obj = list[k + 1]
  BY <1>4, <1>5, <1>7
<1>10. ASSUME NEW j \in 1..Len(Tail(dump)) PROVE Tail(dump)[j] = list[(k + 1) + j]
  <2>1. Tail(dump)[j] = list[k + (j + 1)]
    BY <1>4, <1>7
  <2>2. k + (j + 1) = (k + 1) + j
    BY <1>8
  <2> QED
    BY <2>1, <2>2
<1>11. /\ disk'[usersFile] = disk[usersFile]
       /\ Clean(disk'[fd].lines) /\ Loaded(disk'[fd].lines) = Persisted(UsersBefore(list)[k + 1])
  <2>1. CASE obj = Nil
    <3>1. UsersBefore(list)[k + 1] = UsersBefore(list)[k]
      BY <1>5, <1>8, <1>9, <2>1, UsersBeforeIs
    <3> QED
      BY <1>1, <1>4, <2>1, <3>1
  <2>2. CASE obj # Nil
    <3>1. disk'[usersFile] = disk[usersFile] /\ disk'[fd].lines = Append(disk[fd].lines, WriteCSV(obj.user))
      BY <1>1, <1>2, <1>3, <2>2, PutFileIs
    <3>2. list = db.userList
      BY DEF list
    <3>3. /\ db \in Databases /\ IndexesAgree(db) /\ AllReadable(db) /\ k \in Nat
          /\ k + 1 \in DOMAIN db.userList /\ db.userList[k + 1] # Nil /\ obj = db.userList[k + 1]
          /\ disk[fd].lines \in Seq(Lines) /\ Clean(disk[fd].lines)
          /\ Loaded(disk[fd].lines) = Persisted(UsersBefore(db.userList)[k])
      BY <1>2, <1>3, <1>4, <1>8, <1>9, <2>2, <3>2
    <3> HIDE DEF obj
    <3>4. LET more == Append(disk[fd].lines, WriteCSV(obj.user))
          IN  Clean(more) /\ Loaded(more) = Persisted(UsersBefore(db.userList)[k + 1])
      BY <3>3, RowGoesOn
    <3> QED
      BY <3>1, <3>2, <3>4
  <2> QED
    BY <2>1, <2>2
<1>12. Dumped(c)' = k + 1
  BY <1>1, <1>6, <1>8 DEF Dumped, list
<1>13. Dumping(c)'
  BY <1>1, <1>6, <1>8, <1>10, <1>11, <1>12 DEF Dumping, list
<1>14. Done(c)'
  BY <1>1, <1>2, <1>6 DEF Done
<1>15. HostFits(c)'
  BY <1>1, <1>2, <1>6, <1>13, <1>14 DEF HostFits
<1>16. Clean(disk[usersFile].lines)' /\ LoadedNow' = LoadedNow
  BY <1>1, <1>2, <1>11 DEF LoadedNow
<1>17. HInv'
  BY <1>1, <1>6, <1>15, <1>16, WriteStored DEF Half
<1> QED
  BY <1>16, <1>17

LEMMA RenameStaysStored ==
  ASSUME DInv, HInv, OneDesk, NEW c \in Clients, RenameTemp(c)
  PROVE  HInv' /\ InFile'
<1>1. /\ pc[c] = "write" /\ my[c].dump = <<>> /\ UNCHANGED <<db, newAuth, disk>> /\ up' = up
      /\ usersFile' = (IF tmpFile # 0 THEN tmpFile ELSE usersFile)
      /\ my' = [my EXCEPT ![c].fd = 0] /\ Goto(c, "stamp")
  BY DEF RenameTemp, memory, loader, world
<1>2. /\ up = "up" /\ Done(c) /\ my[c].result # "ok" /\ pc \in [Clients -> Steps] /\ HostFits(c)
      /\ my \in [Clients -> Locals] /\ my[c] \in Locals /\ Fits(c) /\ DeskFits(c) /\ db \in Databases
  BY <1>1, BeforeWrite, HostTypes DEF DInv, HInv
<1>3. my[c].fd = tmpFile /\ my[c].fd \in Inodes
  BY <1>1, <1>2 DEF DeskFits, Fits, LocalsOK
<1>4. usersFile' = my[c].fd
  BY <1>1, <1>3, Constants
<1>5. /\ Clean(disk[my[c].fd].lines)
      /\ Loaded(disk[my[c].fd].lines) = Persisted(UsersBefore(db.userList)[Dumped(c)])
  BY <1>1, <1>2 DEF HostFits, Dumping
<1>6. Dumped(c) = Len(db.userList)
  BY <1>1, <1>2 DEF Dumped, Databases
<1>7. InFile'
  BY <1>1, <1>4, <1>5, <1>6 DEF InFile, LoadedNow, InMemory, UsersOf
<1>8. /\ pc'[c] = "stamp" /\ my'[c].call = my[c].call
      /\ my'[c].target = my[c].target /\ my'[c].result = my[c].result
      /\ \A d \in Clients \ {c} : pc'[d] = pc[d] /\ my'[d] = my[d]
  BY <1>1, <1>2 DEF Goto, Locals
<1>9. Done(c)'
  BY <1>1, <1>2, <1>8 DEF Done
<1>10. HostFits(c)'
  BY <1>2, <1>7, <1>8, <1>9 DEF HostFits
<1>11. Clean(disk[usersFile].lines)'
  BY <1>1, <1>4, <1>5
<1>12. HInv'
  BY <1>1, <1>7, <1>8, <1>10, <1>11, WriteStored
<1> QED
  BY <1>7, <1>12

LEMMA StampStaysStored ==
  ASSUME DInv, HInv, OneDesk, NEW c \in Clients, Stamp(c)
  PROVE  HInv'
<1>1. /\ pc[c] = "stamp" /\ UNCHANGED <<db, newAuth, files>> /\ up' = up
      /\ my' = [my EXCEPT ![c].result = "ok"] /\ Goto(c, "done")
  BY DEF Stamp, Answer, memory, loader, world
<1>2. /\ up = "up" /\ Done(c) /\ pc \in [Clients -> Steps] /\ HostFits(c) /\ c \in Modifiers
      /\ my \in [Clients -> Locals] /\ my[c] \in Locals /\ my[c].call \in Requests
      /\ db \in Databases /\ IndexesAgree(db) /\ AllReadable(db) /\ Clean(disk[usersFile].lines)
  BY <1>1, BeforeWrite, HostTypes DEF DInv, HInv
<1>3. InFile
  BY <1>1, <1>2 DEF HostFits
<1>4. /\ disk' = disk /\ usersFile' = usersFile /\ LoadedNow' = LoadedNow /\ InMemory' = InMemory
  BY <1>1 DEF files, LoadedNow, InMemory
<1>5. InFile'
  BY <1>3, <1>4 DEF InFile
<1>6. /\ pc'[c] = "done" /\ my'[c].call = my[c].call /\ my'[c].target = my[c].target
      /\ \A d \in Clients \ {c} : pc'[d] = pc[d] /\ my'[d] = my[d]
  BY <1>1, <1>2 DEF Goto, Locals
<1>7. /\ Elements(LoadedNow) = {Reloaded(obj.user) : obj \in ObjectsOf(db)}
      /\ \A obj \in ObjectsOf(db) : Reloaded(obj.user).codes = obj.user.codes
  BY <1>2, <1>3, PersistedUsers DEF InFile, InMemory
<1>8. Answered(c)
  <2>1. CASE my[c].call.op = "delete"
    <3>1. db.code2user[my[c].call.code] = Nil
      BY <1>2, <2>1 DEF Done
    <3>2. \A obj \in ObjectsOf(db) : my[c].call.code \notin obj.user.codes
      <4>1. \A obj \in ObjectsOf(db) : obj # Nil
        BY DEF ObjectsOf
      <4> QED
        BY <1>2, <3>1, <4>1, CodeOwners
    <3> QED
      BY <1>7, <2>1, <3>2 DEF Answered
  <2>2. CASE my[c].call.op # "delete"
    <3>1. PICK obj \in ObjectsOf(db) : my[c].target.user = obj.user
      BY <1>2, <2>2 DEF Done
    <3> QED
      BY <1>7, <2>2, <3>1 DEF Answered
  <2> QED
    BY <2>1, <2>2
<1>9. Answered(c)'
  BY <1>4, <1>6, <1>8 DEF Answered
<1>10. HostFits(c)'
  BY <1>2, <1>6, <1>9 DEF HostFits
<1>11. Clean(disk[usersFile].lines)'
  BY <1>2, <1>4
<1> QED
  BY <1>1, <1>5, <1>6, <1>10, <1>11, WriteStored

LEMMA WritingStaysStored ==
  ASSUME DInv, HInv, OneDesk, QuietHost, NEW c \in Clients, Writing(c)
  PROVE  HInv'
BY AppendStaysStored, CreateStaysStored, WriteRowStaysStored, RenameStaysStored, StampStaysStored
   DEF Writing, AppendFails, CreateFails, DiskFull, QuietHost

-----------------------------------------------------------------------------
(* Surroundings. *)

LEMMA CleanEdits ==
  ASSUME QuietHost, NEW lines \in Seq(Lines), Clean(lines), NEW edited \in EditsOf(lines)
  PROVE  Clean(edited)
<1>1. ASSUME NEW i \in DOMAIN lines PROVE Clean(Without(lines, i))
  <2> DEFINE short == Without(lines, i)
  <2>1. /\ Len(lines) \in Nat /\ DOMAIN lines = 1..Len(lines) /\ DOMAIN short = 1..(Len(lines) - 1)
        /\ \A j \in 1..(Len(lines) - 1) : short[j] = IF j < i THEN lines[j] ELSE lines[j + 1]
    BY DEF Without
  <2> HIDE DEF short
  <2>2. ASSUME NEW j \in DOMAIN short PROVE ~EndsReading(short[j])
    <3>1. j \in DOMAIN lines /\ j + 1 \in DOMAIN lines
      BY <2>1
    <3>2. short[j] = lines[j] \/ short[j] = lines[j + 1]
      BY <2>1
    <3> QED
      BY <3>1, <3>2 DEF Clean
  <2> QED
    BY <2>2 DEF Clean, short
<1>2. ASSUME NEW line \in HandEdits PROVE Clean(Append(lines, line))
  <2>1. line \in Lines /\ ~EndsReading(line)
    BY Constants DEF QuietHost
  <2> QED
    BY <2>1, CleanAppend
<1>3. ASSUME NEW i \in DOMAIN lines PROVE Clean([lines EXCEPT ![i] = WithContact(lines[i])])
  <2>1. lines[i] \in Lines /\ ~EndsReading(lines[i])
    BY DEF Clean
  <2>2. ~EndsReading(WithContact(lines[i]))
    <3>1. CASE lines[i] \in {Garbled, ShortRow}
      BY <2>1, <3>1 DEF WithContact
    <3>2. CASE lines[i] \notin {Garbled, ShortRow}
      <4>1. lines[i] \in Columns
        BY <2>1, <3>2 DEF Lines
      <4>2. [lines[i] EXCEPT !.contact = TRUE] \in Columns
        BY <4>1 DEF Columns
      <4>3. Garbled \notin Columns
        BY LineAssumption
      <4> QED
        BY <3>2, <4>2, <4>3 DEF WithContact, EndsReading
    <3> QED
      BY <3>1, <3>2
  <2> QED
    BY <2>2 DEF Clean
<1> QED
  BY <1>1, <1>2, <1>3 DEF EditsOf

LEMMA EditStaysStored ==
  ASSUME DInv, HInv, CalmEdits, QuietHost, EditFile
  PROVE  HInv' /\ db' = db /\ LoadedNow' = Loaded(disk'[usersFile'].lines) /\ edits' = edits + 1
<1>1. /\ \A c \in Clients : pc[c] = "idle" /\ pc'[c] = "idle" /\ my'[c] = my[c] /\ HostFits(c)
      /\ up = "up" /\ up' = up /\ fileTimestamp' = fileTimestamp /\ UNCHANGED <<db, newAuth>>
      /\ edits' = edits + 1
  BY DEF EditFile, EditStarts, CalmEdits, memory, clients, loader, HInv
<1>2. PICK i \in Inodes, lines \in EditsOf(disk[usersFile].lines) : PutFile(i, lines) /\ usersFile' = i
  BY DEF EditFile
<1>3. UsersMtime' = mtimes + 1 /\ mtimes \in Nat /\ disk'[i].lines = lines
  BY <1>2, PutFileIs DEF UsersMtime
<1>4. fileTimestamp <= mtimes /\ fileTimestamp \in Nat
  BY Timestamps DEF DInv, UsersMtime
<1>5. Clean(lines)
  BY <1>2, HostTypes, CleanEdits DEF DInv, HInv
<1>6. \A c \in Clients : HostFits(c)'
  BY <1>1 DEF HostFits
<1>7. AllReadable(db)' /\ AllReadable(newAuth)' /\ ~IsRead'
  BY <1>1 DEF HInv, AllReadable, IsRead
<1>8. HInv'
  BY <1>1, <1>2, <1>3, <1>4, <1>5, <1>6, <1>7 DEF HInv
<1> QED
  BY <1>1, <1>8 DEF LoadedNow

LEMMA StutterStaysStored ==
  ASSUME HInv, UNCHANGED <<db, fileTimestamp, newAuth, readPos, disk, usersFile, pc, my, up>>
  PROVE  HInv'
<1>1. UsersMtime' = UsersMtime /\ LoadedNow' = LoadedNow /\ InMemory' = InMemory
  BY DEF UsersMtime, LoadedNow, InMemory
<1>2. InFile' = InFile /\ IsRead' = IsRead /\ ReadSoFar' = ReadSoFar
  BY <1>1 DEF InFile, IsRead, ReadSoFar
<1>3. ASSUME NEW d \in Clients PROVE HostFits(d)'
  <2>1. HostFits(d)
    BY DEF HInv
  <2>2. /\ Appending(d)' = Appending(d) /\ Done(d)' = Done(d) /\ Answered(d)' = Answered(d)
    BY <1>1 DEF Appending, Done, Answered
  <2>3. Dumping(d)' = Dumping(d)
    BY DEF Dumping, Dumped
  <2>4. CodesFree(db, my[d].target.user)' = CodesFree(db, my[d].target.user)
    OBVIOUS
  <2> QED
    BY <1>2, <2>1, <2>2, <2>3, <2>4 DEF HostFits
<1> QED
  BY <1>1, <1>2, <1>3 DEF HInv, AllReadable

LEMMA SurroundingsStayStored ==
  ASSUME DInv, HInv, CalmEdits, QuietHost, Surroundings
  PROVE  HInv'
<1>1. CASE Crash
  BY <1>1, DieStaysStored DEF Crash
<1>2. CASE Tick
  <2>1. UNCHANGED <<db, fileTimestamp, newAuth, readPos, disk, usersFile, pc, my, up>>
    BY <1>2 DEF Tick, memory, loader, clients, files
  <2> QED
    BY <2>1, StutterStaysStored
<1>3. ~EditEnd /\ ~EditBegin
  BY DEF EditEnd, EditBegin, EditStarts, CalmEdits, DInv
<1> QED
  BY <1>1, <1>2, <1>3, EditStaysStored DEF Surroundings

-----------------------------------------------------------------------------
(* The invariant. *)

LEMMA StoredInit == QuietHost /\ Init => HInv
<1> SUFFICES ASSUME QuietHost, Init PROVE HInv
  OBVIOUS
<1>1. /\ db = EmptyDb /\ newAuth = EmptyDb /\ up = "down" /\ usersFile \in Inodes
      /\ disk = [i \in Inodes |-> IF i = usersFile THEN [lines |-> InitialFile, mtime |-> 1]
                                  ELSE [lines |-> <<>>, mtime |-> 0]]
      /\ \A c \in Clients : pc[c] = "idle" /\ my[c].result = "none"
  BY DEF Init, NoLocals
<1>2. disk[usersFile].lines = InitialFile
  BY <1>1
<1>3. Clean(disk[usersFile].lines)
  BY <1>2 DEF QuietHost
<1>4. AllReadable(db) /\ AllReadable(newAuth)
  BY <1>1 DEF AllReadable, EmptyDb, ObjectsOf
<1>5. \A c \in Clients : HostFits(c)
  BY <1>1 DEF HostFits
<1> QED
  BY <1>1, <1>3, <1>4, <1>5 DEF HInv, IsRead

LEMMA StoredNext == CalmDesk /\ QuietHost /\ DInv /\ HInv /\ [Next]_vars => HInv'
<1> SUFFICES ASSUME CalmDesk, QuietHost, DInv, HInv, [Next]_vars PROVE HInv'
  OBVIOUS
<1>0. IInv' /\ OneDesk /\ CalmEdits /\ ~ReadMayFail
  BY NextKeeps DEF DInv, CalmDesk
<1>1. ASSUME NEW c \in Clients, Called(c) \/ Step(c) PROVE HInv'
  BY <1>0, <1>1, CalledStaysStored, ReloadingStaysStored, LookingUpStaysStored, ChangingStaysStored,
     WritingStaysStored, PanickingStaysStored, PostingStaysStored, ReturnStaysStored
     DEF Step, Proceeding
<1>2. CASE Process
  BY <1>2, ProcessStaysStored
<1>3. CASE Surroundings
  BY <1>0, <1>3, SurroundingsStayStored
<1>4. CASE UNCHANGED vars
  <2>1. UNCHANGED <<db, fileTimestamp, newAuth, readPos, disk, usersFile, pc, my, up>>
    BY <1>4 DEF vars, memory, loader, files, clients, world
  <2> QED
    BY <2>1, StutterStaysStored
<1> QED
  BY <1>1, <1>2, <1>3, <1>4 DEF Next

Calm == CalmDesk /\ QuietHost

LEMMA CalmInvariant == Calm => (Spec => [](DInv /\ HInv))
<1> SUFFICES ASSUME Calm PROVE Spec => [](DInv /\ HInv)
  OBVIOUS
<1>1. Init => DInv /\ HInv
  BY CalmInit, StoredInit DEF Calm
<1>2. (DInv /\ HInv) /\ [Next]_vars => (DInv /\ HInv)'
  BY CalmNext, StoredNext DEF Calm
<1> QED
  BY <1>1, <1>2, PTL DEF Spec

\* A calm host with one desk is in step with its file: whenever the timestamps
\* agree and no change is being written, a restart loads what memory holds
\* (reloadIfChanged, appendDatabaseSingleEntry, writeDatabase).
THEOREM StaysSynced == Calm => (Spec => []Synced)
<1> SUFFICES ASSUME Calm PROVE Spec => []Synced
  OBVIOUS
<1>1. DInv /\ HInv => Synced
  <2> SUFFICES ASSUME DInv, HInv, Settled, fileTimestamp = UsersMtime
               PROVE  Persisted(InMemory) = LoadedNow
    BY DEF Synced
  <2> QED
    BY DEF HInv, Settled, Half, InFile
<1> QED
  BY <1>1, CalmInvariant, PTL

\* On a calm host with one desk, a change answered with success is in the file.
THEOREM AnswersAreStored == Calm => (Spec => []AcknowledgedIsStored)
<1> SUFFICES ASSUME Calm PROVE Spec => []AcknowledgedIsStored
  OBVIOUS
<1>1. DInv /\ HInv => AcknowledgedIsStored
  BY DEF HInv, HostFits, Answered, AcknowledgedIsStored, Elements
<1> QED
  BY <1>1, CalmInvariant, PTL

\* On a calm host with one desk, what is renamed into place is the whole list
\* (authenticator.go:454-455), and the second half of a replacement does not
\* fail (authenticator.go:307).
THEOREM WholeDumps == Calm => (Spec => RenamesWholeDump /\ ReplaceReplaces)
<1> SUFFICES ASSUME Calm PROVE Spec => RenamesWholeDump /\ ReplaceReplaces
  OBVIOUS
<1>1. DInv /\ HInv => \A c \in Clients : RenameTemp(c) =>
                        Loaded(disk[usersFile'].lines) = Persisted(InMemory)
  <2> SUFFICES ASSUME DInv, HInv, NEW c \in Clients, RenameTemp(c)
               PROVE  Loaded(disk[usersFile'].lines) = Persisted(InMemory)
    OBVIOUS
  <2>1. InFile'
    BY RenameStaysStored DEF Calm, CalmDesk
  <2>2. disk' = disk /\ db' = db
    BY DEF RenameTemp, memory
  <2> QED
    BY <2>1, <2>2 DEF InFile, LoadedNow, InMemory
<1>2. DInv /\ HInv => \A c \in Clients : ReplaceAdd(c) => pc'[c] = "post"
  BY ReplaceAddStaysStored DEF Calm, CalmDesk
<1> QED
  BY <1>1, <1>2, CalmInvariant, PTL DEF RenamesWholeDump, ReplaceReplaces

-----------------------------------------------------------------------------
(* The directory: its users are those of the list and, while a replacement *)
(* is half done, the one who is about to be put back.                      *)

UsersIn(d) == {obj.user : obj \in ObjectsOf(d)}
Dir == UsersIn(db) \cup Replacing
Stored == Elements(LoadedNow)
OnePerCode(users) == \A u, v \in users : u.codes \cap v.codes # {} => u = v

\* A step of the directory, or none of it.
DirectoryStep == [Directory!Next]_Directory!vars

LEMMA DirectoryIs ==
  /\ Directory!vars = <<Dir, Stored, edits>>
  /\ Directory!Init <=> Dir = {} /\ OnePerCode(Stored) /\ edits = 0
BY DEF Directory!vars, Directory!Init, Directory!OneUserPerCode, Dir, UsersIn, Stored, Elements, OnePerCode

\* What makes a step one of the directory.
LEMMA Same == ASSUME UNCHANGED <<Dir, Stored, edits>> PROVE DirectoryStep
BY DEF DirectoryStep, Directory!vars, Dir, UsersIn, Stored, Elements

LEMMA Changed ==
  ASSUME UNCHANGED <<Stored, edits>>,
         Directory!Add \/ Directory!Remove \/ Directory!Replace \/ Directory!Load \/ Directory!Forget
  PROVE  DirectoryStep
<1>1. CASE Dir' = Dir
  BY <1>1, Same
<1>2. CASE Dir' # Dir
  BY <1>2 DEF DirectoryStep, Directory!Next, Directory!Change, Dir, UsersIn, Stored, Elements
<1> QED
  BY <1>1, <1>2

LEMMA Comes ==
  ASSUME UNCHANGED <<Stored, edits>>, NEW u, Dir' = Dir \cup {u}, OnePerCode(Dir')
  PROVE  DirectoryStep
<1>1. CASE u \in Dir
  BY <1>1, Same
<1>2. CASE u \notin Dir
  <2>1. Directory!Add
    BY <1>2 DEF Directory!Add, Directory!OneUserPerCode, OnePerCode, Dir, UsersIn
  <2> QED
    BY <2>1, Changed
<1> QED
  BY <1>1, <1>2

LEMMA Goes ==
  ASSUME UNCHANGED <<Stored, edits>>, NEW u \in Dir, Dir' = Dir \ {u}
  PROVE  DirectoryStep
<1>1. Directory!Remove
  BY DEF Directory!Remove, Dir, UsersIn
<1> QED
  BY <1>1, Changed

LEMMA IsReplaced ==
  ASSUME UNCHANGED <<Stored, edits>>, NEW u \in Dir, NEW v, Dir' = (Dir \ {u}) \cup {v}, OnePerCode(Dir')
  PROVE  DirectoryStep
<1>1. Directory!Replace
  BY DEF Directory!Replace, Directory!OneUserPerCode, OnePerCode, Dir, UsersIn
<1> QED
  BY <1>1, Changed

LEMMA IsLoaded ==
  ASSUME UNCHANGED <<Stored, edits>>, Dir' = Stored \/ Dir' = {}
  PROVE  DirectoryStep
<1>1. Directory!Load \/ Directory!Forget
  BY DEF Directory!Load, Directory!Forget, Dir, UsersIn, Stored, Elements
<1> QED
  BY <1>1, Changed

LEMMA IsStored ==
  ASSUME UNCHANGED <<Dir, edits>>, Stored' = {Reloaded(u) : u \in Dir}
  PROVE  DirectoryStep
<1>1. Directory!Store
  BY DEF Directory!Store, Dir, UsersIn, Stored, Elements
<1> QED
  BY <1>1 DEF DirectoryStep, Directory!Next

LEMMA IsEdited ==
  ASSUME Dir' = Dir, edits' = edits + 1, OnePerCode(Stored')
  PROVE  DirectoryStep
<1>1. Directory!Edit
  BY DEF Directory!Edit, Directory!OneUserPerCode, OnePerCode, Dir, UsersIn, Stored, Elements
<1> QED
  BY <1>1 DEF DirectoryStep, Directory!Next

-----------------------------------------------------------------------------
(* What is in the directory. *)

LEMMA NoneHalf == ASSUME \A d \in Clients : pc[d] # "replace" PROVE Replacing = {} /\ Dir = UsersIn(db)
BY DEF Replacing, Dir

LEMMA NoneHalfThen ==
  ASSUME \A d \in Clients : pc'[d] # "replace" PROVE Replacing' = {} /\ Dir' = UsersIn(db')
BY DEF Replacing, Dir, UsersIn

\* A step that neither changes the list nor begins or ends a replacement.
LEMMA ListSame ==
  ASSUME db' = db,
         \A d \in Clients : /\ pc'[d] = "replace" <=> pc[d] = "replace"
                            /\ pc[d] = "replace" => my'[d].target = my[d].target
  PROVE  Dir' = Dir
<1>1. UsersIn(db)' = UsersIn(db)
  BY DEF UsersIn
<1>2. Replacing' = Replacing
  BY DEF Replacing
<1> QED
  BY <1>1, <1>2 DEF Dir

LEMMA FileSame == ASSUME UNCHANGED files PROVE Stored' = Stored
BY DEF files, Stored, LoadedNow

LEMMA ListedOnce ==
  ASSUME NEW d \in Databases, IndexesAgree(d)
  PROVE  OnePerCode(UsersIn(d))
<1> SUFFICES ASSUME NEW x \in ObjectsOf(d), NEW y \in ObjectsOf(d), x.user.codes \cap y.user.codes # {}
             PROVE  x.user = y.user
  BY DEF OnePerCode, UsersIn
<1> QED
  BY CodeOwners

LEMMA LoadedOnce == ASSUME NEW lines \in Seq(Lines) PROVE OnePerCode(Elements(Loaded(lines)))
BY LoadedDisjoint DEF OnePerCode, Elements, Disjoint

\* Nobody has the record of another.
LEMMA UsersWithout ==
  ASSUME NEW d \in Databases, IndexesAgree(d), AllReadable(d), NEW obj \in ObjectsOf(d)
  PROVE  UsersIn(DeleteUserFrom(d, obj)) = UsersIn(d) \ {obj.user}
<1>1. ObjectsOf(DeleteUserFrom(d, obj)) = ObjectsOf(d) \ {obj}
  BY DeletedObjects
<1>2. ASSUME NEW x \in ObjectsOf(d), x.user = obj.user PROVE x = obj
  <2>1. x.user.codes # {}
    BY DEF AllReadable, Readable
  <2> QED
    BY <1>2, <2>1, CodeOwners
<1> QED
  BY <1>1, <1>2 DEF UsersIn

\* The file holds what the directory holds.
LEMMA FileIsDirectory ==
  ASSUME DInv, InFile', db' = db
  PROVE  Stored' = {Reloaded(u) : u \in UsersIn(db)}
<1>1. db \in Databases
  BY HostTypes DEF DInv
<1>2. LoadedNow' = Persisted(UsersOf(db.userList))
  BY DEF InFile, InMemory
<1>3. /\ UsersOf(db.userList) \in Seq(UserRecords)
      /\ Elements(UsersOf(db.userList)) = UsersIn(db)
  BY <1>1, UsersOfIs DEF UsersIn
<1>4. Elements(Persisted(UsersOf(db.userList))) = {Reloaded(u) : u \in UsersIn(db)}
  BY <1>3, PersistedIs
<1> QED
  BY <1>2, <1>4 DEF Stored

-----------------------------------------------------------------------------
(* Every step is one of the directory. *)

LEMMA CalledIsDirectory == ASSUME DInv, NEW c \in Clients, Called(c) \/ Return(c) PROVE DirectoryStep
<1>1. /\ db' = db /\ edits' = edits /\ UNCHANGED files
  <2>1. ASSUME NEW request, NEW step, NEW what, NEW r, Begin(c, request, step, what, r)
        PROVE  db' = db /\ edits' = edits /\ UNCHANGED files
    BY <2>1 DEF Begin, memory
  <2>2. CASE Called(c)
    BY <2>1, <2>2 DEF Called, CallLookup, CallChange
  <2>3. CASE Return(c)
    BY <2>3 DEF Return, memory, world, counts
  <2> QED
    BY <2>2, <2>3
<1>2. pc \in [Clients -> Steps] /\ my \in [Clients -> Locals]
  BY DEF DInv, IInv, ClientsOK
<1>3. CASE Called(c)
  <2>1. PICK request, step, what, r : step \in {"reload", "done"} /\ Begin(c, request, step, what, r)
    <3>1. CASE CallLookup(c)
      BY <3>1 DEF CallLookup
    <3>2. CASE CallChange(c)
      BY <3>2 DEF CallChange
    <3> QED
      BY <1>3, <3>1, <3>2 DEF Called
  <2>2. /\ pc[c] = "idle" /\ pc'[c] # "replace"
        /\ \A d \in Clients \ {c} : pc'[d] = pc[d] /\ my'[d] = my[d]
    BY <1>2, <2>1 DEF Begin, Goto
  <2> QED
    BY <1>1, <2>2, ListSame, FileSame, Same
<1>4. CASE Return(c)
  <2>1. /\ pc[c] = "done" /\ pc'[c] # "replace"
        /\ \A d \in Clients \ {c} : pc'[d] = pc[d] /\ my'[d] = my[d]
    BY <1>2, <1>4 DEF Return, Goto
  <2> QED
    BY <1>1, <2>1, ListSame, FileSame, Same
<1> QED
  BY <1>3, <1>4

LEMMA ReloadingIsDirectory ==
  ASSUME DInv, HInv, ~ReadMayFail, NEW c \in Clients, Reloading(c)
  PROVE  DirectoryStep
<1> USE DEF ReloadFails
<1>1. /\ edits' = edits /\ UNCHANGED files /\ my' = my /\ pc[c] \in {"reload", "stat", "read"}
  BY DEF Reloading, ReloadNotNeeded, ReloadOpen, ReloadStat, ReloadLine, ReloadSwap, world, counts, clients
<1>2. pc \in [Clients -> Steps]
  BY DEF DInv, IInv, ClientsOK
<1>3. \A d \in Clients : pc'[d] = "replace" <=> pc[d] = "replace"
  <2>1. PICK step \in {"lookup", "stat", "read", "announce"} : Goto(c, step) \/ pc' = pc
    BY DEF Reloading, ReloadNotNeeded, ReloadOpen, ReloadStat, ReloadLine, ReloadSwap, clients
  <2> QED
    BY <1>1, <1>2, <2>1 DEF Goto
<1>4. CASE ~ReloadSwap(c)
  <2>1. db' = db
    BY <1>4 DEF Reloading, ReloadNotNeeded, ReloadOpen, ReloadStat, ReloadLine, memory
  <2> QED
    BY <1>1, <1>3, <2>1, ListSame, FileSame, Same
<1>5. CASE ReloadSwap(c)
  <2>1. pc[c] = "read" /\ AtEnd /\ db' = newAuth
    BY <1>5 DEF ReloadSwap
  <2>2. reading = usersFile /\ ReadSoFar /\ IInv /\ newAuth \in Databases
    BY <2>1, HostTypes DEF DInv, DeskFits, HInv, IsRead
  <2>3. \A d \in Clients : pc[d] # "replace"
    BY <2>1 DEF DInv, DeskFits, HasReloaded
  <2>4. Dir' = UsersIn(newAuth)
    BY <1>3, <2>1, <2>3, NoneHalfThen
  <2>5. UsersOf(newAuth.userList) = LoadedNow
    BY <2>1, <2>2, EndReads
  <2>6. Dir' = Stored
    BY <2>2, <2>4, <2>5, UsersOfIs DEF Stored, UsersIn
  <2> QED
    BY <1>1, <2>6, FileSame, IsLoaded
<1> QED
  BY <1>4, <1>5

LEMMA DieIsDirectory == ASSUME Die PROVE DirectoryStep
<1>1. db' = EmptyDb /\ edits' = edits /\ UNCHANGED files /\ \A d \in Clients : pc'[d] = "idle"
  BY DEF Die
<1>2. Dir' = {}
  BY <1>1, NoneHalfThen DEF UsersIn, ObjectsOf, EmptyDb
<1> QED
  BY <1>1, <1>2, FileSame, IsLoaded

LEMMA LookingUpIsDirectory == ASSUME DInv, NEW c \in Clients, LookingUp(c) PROVE DirectoryStep
<1>1. /\ pc[c] = "lookup" /\ db' = db /\ edits' = edits /\ UNCHANGED files
  BY DEF LookingUp, FindUser, AuthUser, VerifyOpAllowed, FindTarget, Lookup, memory, world, counts
<1>2. PICK step \in {"done", "add", "reload", "modify"} : Goto(c, step)
  BY DEF LookingUp, FindUser, AuthUser, VerifyOpAllowed, FindTarget, Answer
<1>3. \A d \in Clients \ {c} : my'[d] = my[d]
  <2>1. my \in [Clients -> Locals]
    BY DEF DInv, IInv, ClientsOK
  <2> QED
    BY <2>1 DEF LookingUp, FindUser, AuthUser, VerifyOpAllowed, FindTarget, Answer
<1>4. \A d \in Clients \ {c} : pc'[d] = pc[d]
  BY <1>2 DEF Goto, DInv, IInv, ClientsOK
<1>5. pc'[c] # "replace"
  BY <1>2 DEF Goto, DInv, IInv, ClientsOK
<1> QED
  BY <1>1, <1>3, <1>4, <1>5, ListSame, FileSame, Same

LEMMA PanickingIsDirectory == ASSUME NEW c \in Clients, Panicking(c) PROVE DirectoryStep
BY DieIsDirectory DEF Panicking, UpdatePanics, StatPanics

LEMMA PostingIsDirectory == ASSUME DInv, NEW c \in Clients, Posting(c) PROVE DirectoryStep
<1>1. /\ pc[c] \in {"announce", "post"} /\ db' = db /\ edits' = edits /\ my' = my /\ UNCHANGED files
  BY DEF Posting, ReloadPosted, Posted, memory, world, counts
<1>2. PICK step \in {"lookup", "append", "create"} : Goto(c, step)
  BY DEF Posting, ReloadPosted, Posted
<1>3. \A d \in Clients : pc'[d] = "replace" <=> pc[d] = "replace"
  BY <1>1, <1>2 DEF Goto, DInv, IInv, ClientsOK
<1> QED
  BY <1>1, <1>3, ListSame, FileSame, Same

LEMMA ProcessIsDirectory == ASSUME DInv, HInv, Process PROVE DirectoryStep
<1>1. /\ UNCHANGED <<files, clients>> /\ up # "up" /\ IInv /\ edits' = edits
  BY DEF Process, Start, StartLine, Started, DInv, world, counts
<1>2. \A d \in Clients : pc[d] # "replace" /\ pc'[d] # "replace"
  BY <1>1, NotUpIsIdle DEF clients
<1>3. Stored' = Stored
  BY <1>1, FileSame
<1>4. CASE Start \/ StartLine
  <2>1. db' = db
    BY <1>4 DEF Start, StartLine, memory
  <2> QED
    BY <1>1, <1>2, <1>3, <2>1, ListSame, Same
<1>5. CASE Started
  <2>1. ReadSoFar /\ reading = usersFile /\ AtEnd /\ db' = newAuth
    BY <1>5 DEF Started, DInv, HInv, IsRead
  <2>2. UsersOf(newAuth.userList) = LoadedNow /\ newAuth \in Databases
    BY <1>1, <2>1, EndReads, HostTypes
  <2>3. Dir' = UsersIn(newAuth)
    BY <1>2, <2>1, NoneHalfThen
  <2>4. Dir' = Stored
    BY <2>2, <2>3, UsersOfIs DEF Stored, UsersIn
  <2> QED
    BY <1>1, <1>3, <2>4, IsLoaded
<1> QED
  BY <1>4, <1>5 DEF Process

LEMMA SurroundingsAreDirectory ==
  ASSUME DInv, HInv, CalmEdits, QuietHost, IInv', Surroundings
  PROVE  DirectoryStep
<1>1. CASE Crash
  BY <1>1, DieIsDirectory DEF Crash
<1>2. CASE Tick
  <2>1. db' = db /\ edits' = edits /\ UNCHANGED files /\ pc' = pc /\ my' = my
    BY <1>2 DEF Tick, memory, clients, counts
  <2> QED
    BY <2>1, ListSame, FileSame, Same
<1>3. CASE EditFile
  <2>1. /\ db' = db /\ LoadedNow' = Loaded(disk'[usersFile'].lines) /\ edits' = edits + 1
    BY <1>3, EditStaysStored
  <2>2. pc' = pc /\ my' = my
    BY <1>3 DEF EditFile, EditStarts, clients
  <2>3. disk'[usersFile'].lines \in Seq(Lines)
    BY DEF IInv, FilesOK
  <2>4. OnePerCode(Stored')
    BY <2>1, <2>3, LoadedOnce DEF Stored
  <2>5. Dir' = Dir
    BY <2>1, <2>2, ListSame
  <2> QED
    BY <2>1, <2>4, <2>5, IsEdited
<1>4. ~EditEnd /\ ~EditBegin
  BY DEF EditEnd, EditBegin, EditStarts, CalmEdits, DInv
<1> QED
  BY <1>1, <1>2, <1>3, <1>4 DEF Surroundings

\* Nobody else is replacing a user while the desk does something.
LEMMA OnlyTheDesk ==
  ASSUME DInv, OneDesk, NEW c \in Clients, pc[c] \in ChangeSteps
  PROVE  \A d \in Clients \ {c} : pc[d] # "replace"
<1>1. c \in Modifiers
  BY DEF DInv, DeskFits
<1>2. \A d \in Clients \ {c} : d \notin Modifiers
  BY <1>1 DEF OneDesk
<1> QED
  BY <1>2 DEF DInv, DeskFits, ChangeSteps

LEMMA AddUserIsDirectory ==
  ASSUME DInv, HInv, OneDesk, IInv', NEW c \in Clients, AddUser(c)
  PROVE  DirectoryStep
<1> DEFINE user == Stamped(my[c].call.user)
<1>1. /\ pc[c] = "add" /\ edits' = edits /\ UNCHANGED files
      /\ \/ Answer(c, "refused") /\ db' = db
         \/ \E a \in Addrs : /\ db' = AddUserAtPos(db, [addr |-> a, user |-> user], 0)
                             /\ Goto(c, "post")
  BY DEF AddUser, world, counts
<1>2. /\ pc \in [Clients -> Steps] /\ my[c].call \in Requests /\ Fits(c)
      /\ db \in Databases /\ db' \in Databases /\ IndexesAgree(db')
      /\ \A d \in Clients \ {c} : pc[d] # "replace"
  <2>1. db' \in Databases /\ IndexesAgree(db')
    BY DEF IInv, MemoryOK, IndexConsistent
  <2>2. \A d \in Clients \ {c} : pc[d] # "replace"
    BY <1>1, OnlyTheDesk DEF ChangeSteps
  <2> QED
    BY <1>1, <2>1, <2>2, BeforeChange, HostTypes DEF DInv
<1>3. user \in UserRecords
  <2>1. my[c].call \in AddCalls
    BY <1>1, <1>2 DEF Fits, CallFits
  <2> QED
    BY <2>1, RenewedIsRecord DEF AddCalls, DInv
<1>4. PICK step \in {"post", "done"} : Goto(c, step)
  BY <1>1 DEF Answer
<1>5. \A d \in Clients : pc[d] # "replace" /\ pc'[d] # "replace"
  BY <1>1, <1>2, <1>4 DEF Goto
<1>6. Dir = UsersIn(db) /\ Dir' = UsersIn(db') /\ Stored' = Stored
  BY <1>1, <1>5, NoneHalf, NoneHalfThen, FileSame
<1> HIDE DEF user
<1>7. CASE db' = db
  BY <1>1, <1>6, <1>7, Same
<1>8. ASSUME NEW a \in Addrs, db' = AddUserAtPos(db, [addr |-> a, user |-> user], 0)
      PROVE  DirectoryStep
  <2> DEFINE obj == [addr |-> a, user |-> user]
  <2>1. obj \in Objects /\ obj.user = user /\ db' = AddUserAtPos(db, obj, 0)
    BY <1>3, <1>8 DEF Objects
  <2> HIDE DEF obj
  <2>2. ObjectsOf(db') = ObjectsOf(db) \cup {obj}
    BY <1>2, <2>1, AddedObjects
  <2>3. Dir' = Dir \cup {user}
    BY <1>6, <2>1, <2>2 DEF UsersIn
  <2>4. OnePerCode(Dir')
    BY <1>2, <1>6, ListedOnce
  <2> QED
    BY <1>1, <1>6, <2>3, <2>4, Comes
<1> QED
  BY <1>1, <1>7, <1>8

LEMMA ReplaceDeleteIsDirectory ==
  ASSUME DInv, HInv, OneDesk, QuietHost, NEW c \in Clients, ReplaceDelete(c)
  PROVE  DirectoryStep
<1> DEFINE old == my[c].target
           new == Updated(old.user, my[c].call.updater)
<1>1. /\ pc[c] = "modify" /\ edits' = edits /\ UNCHANGED files
      /\ my[c].call.op = "update" /\ ~Declines(my[c].call.updater)
      /\ db' = DeleteUserFrom(db, old) /\ Goto(c, "replace")
      /\ my' = [my EXCEPT ![c].slot = IndexOf(db, old), ![c].target.user = new]
  BY DEF ReplaceDelete, world, counts
<1>2. /\ pc \in [Clients -> Steps] /\ my \in [Clients -> Locals] /\ my[c].call \in Requests /\ Fits(c)
      /\ db \in Databases /\ IndexesAgree(db) /\ AllReadable(db)
      /\ \A d \in Clients \ {c} : pc[d] # "replace"
  <2>1. \A d \in Clients \ {c} : pc[d] # "replace"
    BY <1>1, OnlyTheDesk DEF ChangeSteps
  <2> QED
    BY <1>1, <2>1, BeforeChange, HostTypes DEF DInv, HInv
<1>3. my[c].call \in UpdateCalls /\ old \in Objects
  BY <1>1, <1>2 DEF Fits, CallFits, DeleteCalls
<1>4. my[c].call.updater = "renew"
  BY <1>1, <1>2, <1>3 DEF QuietHost, Declines
<1>5. old \in ObjectsOf(db)
  BY <1>1, <1>3, Constants, TargetListed
<1>6. new.codes = old.user.codes
  <2>1. new = [old.user EXCEPT !.from = Now(now)]
    BY <1>4 DEF Updated
  <2> QED
    BY <1>3, <2>1 DEF Objects, UserRecords
<1> HIDE DEF new
<1>7. pc'[c] = "replace" /\ my'[c].target.user = new /\ \A d \in Clients \ {c} : pc'[d] # "replace"
  BY <1>1, <1>2, <1>3 DEF Goto, Locals, Objects
<1>8. Replacing' = {new}
  BY <1>7 DEF Replacing
<1>9. \A d \in Clients : pc[d] # "replace"
  BY <1>1, <1>2
<1>10. UsersIn(db') = UsersIn(db) \ {old.user}
  BY <1>1, <1>2, <1>5, UsersWithout
<1>11. Dir = UsersIn(db)
  BY <1>9, NoneHalf
<1>12. Dir' = (Dir \ {old.user}) \cup {new}
  BY <1>8, <1>10, <1>11 DEF Dir, UsersIn
<1>13. old.user \in Dir
  BY <1>5, <1>11 DEF UsersIn
<1>14. OnePerCode(Dir)
  BY <1>2, <1>11, ListedOnce
<1>15. OnePerCode(Dir')
  <2>1. \A u \in Dir : u.codes \cap old.user.codes # {} => u = old.user
    BY <1>13, <1>14 DEF OnePerCode
  <2>2. \A u \in Dir \ {old.user} : u.codes \cap new.codes = {} /\ new.codes \cap u.codes = {}
    BY <1>6, <2>1
  <2> QED
    BY <1>12, <1>14, <2>2 DEF OnePerCode
<1>16. Stored' = Stored
  BY <1>1, FileSame
<1> QED
  BY <1>1, <1>12, <1>13, <1>15, <1>16, IsReplaced

LEMMA ReplaceAddIsDirectory ==
  ASSUME DInv, HInv, OneDesk, NEW c \in Clients, ReplaceAdd(c)
  PROVE  DirectoryStep
<1> DEFINE user == my[c].target.user
<1>1. pc[c] = "replace" /\ edits' = edits /\ UNCHANGED files /\ pc'[c] = "post"
  BY ReplaceAddStaysStored DEF ReplaceAdd, world, counts
<1>2. /\ pc \in [Clients -> Steps] /\ Fits(c) /\ HostFits(c) /\ my[c] \in Locals
      /\ db \in Databases
      /\ \A d \in Clients \ {c} : pc[d] # "replace"
  <2>1. \A d \in Clients \ {c} : pc[d] # "replace"
    BY <1>1, OnlyTheDesk DEF ChangeSteps
  <2> QED
    BY <1>1, <2>1, BeforeChange, HostTypes DEF DInv, HInv
<1>3. CodesFree(db, user)
  BY <1>1, <1>2 DEF HostFits
<1>4. PICK a \in Addrs : db' = AddUserAtPos(db, [addr |-> a, user |-> user], my[c].slot)
  BY <1>3 DEF ReplaceAdd
<1>5. Goto(c, "post")
  BY <1>3 DEF ReplaceAdd
<1> DEFINE obj == [addr |-> a, user |-> user]
<1>6. /\ obj \in Objects /\ obj.user = user /\ my[c].slot \in Nat
      /\ my[c].slot # 0 => my[c].slot \in DOMAIN db.userList /\ db.userList[my[c].slot] = Nil
  BY <1>1, <1>2 DEF Objects, Fits, LocalsOK, LocksHeld, Locals
<1>7. db' = AddUserAtPos(db, obj, my[c].slot)
  BY <1>4
<1> HIDE DEF obj, user
<1>8. ObjectsOf(db') = ObjectsOf(db) \cup {obj}
  BY <1>2, <1>6, <1>7, AddedObjects
<1>9. \A d \in Clients : pc'[d] # "replace"
  BY <1>1, <1>2, <1>5 DEF Goto
<1>10. Dir' = UsersIn(db')
  BY <1>9, NoneHalfThen
<1>11. Replacing = {user}
  BY <1>1, <1>2 DEF Replacing, user
<1>12. Dir' = Dir
  BY <1>6, <1>8, <1>10, <1>11 DEF Dir, UsersIn
<1> QED
  BY <1>1, <1>12, FileSame, Same

LEMMA DeleteUserIsDirectory ==
  ASSUME DInv, HInv, OneDesk, NEW c \in Clients, DeleteUser(c)
  PROVE  DirectoryStep
<1> DEFINE old == my[c].target
<1>1. /\ pc[c] = "modify" /\ edits' = edits /\ UNCHANGED files /\ db' = DeleteUserFrom(db, old)
      /\ Goto(c, "post") \/ Goto(c, "done")
  BY DEF DeleteUser, world, counts, Answer
<1>2. /\ pc \in [Clients -> Steps] /\ db \in Databases /\ IndexesAgree(db) /\ AllReadable(db)
      /\ \A d \in Clients \ {c} : pc[d] # "replace"
  <2>1. \A d \in Clients \ {c} : pc[d] # "replace"
    BY <1>1, OnlyTheDesk DEF ChangeSteps
  <2> QED
    BY <1>1, <2>1, BeforeChange, HostTypes DEF DInv, HInv
<1>3. \A d \in Clients : pc[d] # "replace" /\ pc'[d] # "replace"
  BY <1>1, <1>2 DEF Goto
<1>4. Dir = UsersIn(db) /\ Dir' = UsersIn(db') /\ Stored' = Stored
  BY <1>1, <1>3, NoneHalf, NoneHalfThen, FileSame
<1>5. CASE old = Nil
  <2>1. db' = db
    BY <1>1, <1>5 DEF DeleteUserFrom, IndexOf
  <2> QED
    BY <1>1, <1>4, <2>1, Same
<1>6. CASE old # Nil
  <2>1. old \in ObjectsOf(db)
    BY <1>1, <1>6, TargetListed
  <2>2. Dir' = Dir \ {old.user} /\ old.user \in Dir
    BY <1>1, <1>2, <1>4, <2>1, UsersWithout DEF UsersIn
  <2> QED
    BY <1>1, <1>4, <2>2, Goes
<1> QED
  BY <1>5, <1>6

LEMMA ChangingIsDirectory ==
  ASSUME DInv, HInv, OneDesk, QuietHost, IInv', NEW c \in Clients, Changing(c)
  PROVE  DirectoryStep
<1>1. CASE NotModified(c)
  <2>1. /\ pc[c] = "modify" /\ Answer(c, "refused") /\ db' = db /\ edits' = edits /\ UNCHANGED files
    BY <1>1 DEF NotModified, memory, world, counts
  <2>2. pc \in [Clients -> Steps] /\ my \in [Clients -> Locals]
    BY DEF DInv, IInv, ClientsOK
  <2>3. pc'[c] # "replace" /\ \A d \in Clients \ {c} : pc'[d] = pc[d] /\ my'[d] = my[d]
    BY <2>1, <2>2 DEF Answer, Goto
  <2> QED
    BY <2>1, <2>3, ListSame, FileSame, Same
<1> QED
  BY <1>1, AddUserIsDirectory, ReplaceDeleteIsDirectory, ReplaceAddIsDirectory, DeleteUserIsDirectory
     DEF Changing

LEMMA WritingIsDirectory ==
  ASSUME DInv, HInv, OneDesk, QuietHost, NEW c \in Clients, Writing(c)
  PROVE  DirectoryStep
<1>1. /\ pc[c] \in {"append", "create", "write", "stamp"} /\ db' = db /\ edits' = edits
  BY DEF Writing, AppendEntry, AppendFails, CreateFails, CreateTemp, WriteRow, DiskFull, RenameTemp, Stamp,
         memory, world, counts, QuietHost
<1>2. pc \in [Clients -> Steps]
  BY DEF DInv, IInv, ClientsOK
<1>3. \A d \in Clients \ {c} : pc[d] # "replace"
  BY <1>1, OnlyTheDesk DEF ChangeSteps
<1>4. PICK step \in {"stamp", "write", "done"} : Goto(c, step) \/ pc' = pc
  BY DEF Writing, AppendEntry, AppendFails, CreateFails, CreateTemp, WriteRow, DiskFull, RenameTemp, Stamp, Answer,
         QuietHost
<1>5. \A d \in Clients : pc[d] # "replace" /\ pc'[d] # "replace"
  BY <1>1, <1>2, <1>3, <1>4 DEF Goto
<1>6. Dir = UsersIn(db) /\ Dir' = UsersIn(db')
  BY <1>5, NoneHalf, NoneHalfThen
<1>7. CASE AppendEntry(c) \/ RenameTemp(c)
  <2>1. InFile'
    BY <1>7, AppendStaysStored, RenameStaysStored
  <2>2. Stored' = {Reloaded(u) : u \in Dir}
    BY <1>1, <1>6, <2>1, FileIsDirectory
  <2> QED
    BY <1>1, <1>6, <2>2, IsStored
<1>8. CASE CreateTemp(c) \/ WriteRow(c) \/ Stamp(c)
  <2>1. LoadedNow' = LoadedNow
    BY <1>8, CreateStaysStored, WriteRowStaysStored DEF Stamp, files, LoadedNow
  <2> QED
    BY <1>1, <1>6, <2>1, Same DEF Stored
<1> QED
  BY <1>7, <1>8 DEF Writing, AppendFails, CreateFails, DiskFull, QuietHost

LEMMA NextIsDirectory == Calm /\ DInv /\ HInv /\ [Next]_vars => DirectoryStep
<1> SUFFICES ASSUME CalmDesk, QuietHost, DInv, HInv, [Next]_vars PROVE DirectoryStep
  BY DEF Calm
<1>0. IInv' /\ OneDesk /\ CalmEdits /\ ~ReadMayFail
  BY NextKeeps DEF DInv, CalmDesk
<1>1. ASSUME NEW c \in Clients, Called(c) \/ Step(c) PROVE DirectoryStep
  BY <1>0, <1>1, CalledIsDirectory, ReloadingIsDirectory, LookingUpIsDirectory, ChangingIsDirectory,
     WritingIsDirectory, PanickingIsDirectory, PostingIsDirectory DEF Step, Proceeding
<1>2. CASE Process
  BY <1>2, ProcessIsDirectory
<1>3. CASE Surroundings
  BY <1>0, <1>3, SurroundingsAreDirectory
<1>4. CASE UNCHANGED vars
  <2>1. UNCHANGED <<db, pc, my, edits>> /\ UNCHANGED files
    BY <1>4 DEF vars, memory, clients, world, counts
  <2> QED
    BY <2>1, ListSame, FileSame, Same
<1> QED
  BY <1>1, <1>2, <1>3, <1>4 DEF Next

\* The authenticator of a calm host with one desk implements the directory: at
\* any time, whatever the interleaving of its steps and wherever it crashes,
\* users come, go and are replaced one at a time, no two with one code, and the
\* file goes in one step from one whole directory to the next.
THEOREM IsADirectory == Calm => (Spec => ImplementsDirectory)
<1> SUFFICES ASSUME Calm PROVE Spec => ImplementsDirectory
  OBVIOUS
<1>1. Init => Directory!Init
  <2> SUFFICES ASSUME Init PROVE Directory!Init
    OBVIOUS
  <2>1. IInv
    BY InitFits
  <2>2. db = EmptyDb /\ edits = 0 /\ \A d \in Clients : pc[d] # "replace"
    BY DEF Init
  <2>3. Dir = {}
    BY <2>2, NoneHalf DEF UsersIn, ObjectsOf, EmptyDb
  <2>4. disk[usersFile].lines \in Seq(Lines)
    BY <2>1, HostTypes
  <2>5. OnePerCode(Stored)
    BY <2>4, LoadedOnce DEF Stored, LoadedNow
  <2> QED
    BY <2>2, <2>3, <2>5, DirectoryIs
<1>2. DInv /\ HInv /\ [Next]_vars => [Directory!Next]_Directory!vars
  BY NextIsDirectory DEF DirectoryStep
<1> QED
  BY <1>1, <1>2, CalmInvariant, PTL DEF Spec, ImplementsDirectory, Directory!Spec

-----------------------------------------------------------------------------
(* A host whose terminals only look users up, with a file that is edited   *)
(* in place at any moment: also while it is opened, stamped and read.      *)

DoorsOnly == Modifiers = {} /\ EditHow = "inplace"

DoorFits(c) ==
  /\ pc[c] \in {"idle", "reload", "stat", "read", "announce", "lookup", "done"}
  /\ my[c].phase \in {"none", "find", "auth"}
  /\ pc[c] \in {"stat", "read"} => reading = usersFile
  /\ pc[c] = "stat" => readPos = 0 /\ newAuth = EmptyDb
  /\ pc[c] = "read" /\ newTimestamp = UsersMtime => ReadSoFar

\* What has been read, or is being read, is the file for as long as its
\* timestamp is: every edit gives it a later one.
SInv == /\ IInv
        /\ UsersMtime <= mtimes /\ fileTimestamp <= mtimes /\ newTimestamp <= mtimes
        /\ up = "starting" => /\ reading = usersFile
                              /\ newTimestamp = UsersMtime => ReadSoFar
        /\ up = "up" /\ fileTimestamp = UsersMtime => InFile
        /\ \A c \in Clients : DoorFits(c)

LEMMA DoorsInit == Init => SInv
<1> SUFFICES ASSUME Init PROVE SInv
  OBVIOUS
<1>1. IInv
  BY InitFits
<1>2. /\ fileTimestamp = 0 /\ newTimestamp = 0 /\ mtimes = 1 /\ up = "down" /\ usersFile \in Inodes
      /\ disk = [i \in Inodes |-> IF i = usersFile THEN [lines |-> InitialFile, mtime |-> 1]
                                  ELSE [lines |-> <<>>, mtime |-> 0]]
      /\ \A c \in Clients : pc[c] = "idle" /\ my[c].phase = "none"
  BY DEF Init, NoLocals
<1>3. UsersMtime = 1
  BY <1>2 DEF UsersMtime
<1> QED
  BY <1>1, <1>2, <1>3 DEF SInv, DoorFits

\* A step of one that leaves list, file and what is being read as they are.
LEMMA DoorQuiet ==
  ASSUME SInv, IInv', up' = up, UNCHANGED <<memory, loader, files>>, NEW C \in SUBSET Clients,
         \A d \in Clients \ C : pc'[d] = pc[d] /\ my'[d] = my[d],
         \A c \in C : DoorFits(c)'
  PROVE  SInv'
<1>1. /\ UsersMtime' = UsersMtime /\ mtimes' = mtimes /\ fileTimestamp' = fileTimestamp
      /\ newTimestamp' = newTimestamp /\ reading' = reading /\ usersFile' = usersFile
      /\ newAuth' = newAuth /\ readPos' = readPos /\ db' = db /\ disk' = disk
  BY DEF memory, loader, files, UsersMtime
<1>2. InFile' = InFile /\ ReadSoFar' = ReadSoFar
  BY <1>1 DEF InFile, InMemory, LoadedNow, ReadSoFar
<1>3. \A d \in Clients \ C : DoorFits(d)'
  BY <1>1, <1>2 DEF SInv, DoorFits
<1> QED
  BY <1>1, <1>2, <1>3 DEF SInv

LEMMA DoorsCalled ==
  ASSUME SInv, IInv', DoorsOnly, NEW c \in Clients, Called(c) \/ LookingUp(c) \/ Return(c)
  PROVE  SInv'
<1>1. /\ pc \in [Clients -> Steps] /\ my \in [Clients -> Locals] /\ DoorFits(c)
  BY DEF SInv, IInv, ClientsOK
<1>2. ~CallChange(c)
  BY DEF CallChange, DoorsOnly
<1>3. CASE CallLookup(c)
  <2>1. PICK request, step, what, r :
             /\ request \in Requests \cap LookupCalls /\ step \in {"reload", "done"}
             /\ what \in {"none", "find", "auth"} /\ Begin(c, request, step, what, r)
    BY <1>3 DEF CallLookup, LookupCalls
  <2>2. /\ up' = up /\ UNCHANGED <<memory, loader, files>> /\ pc'[c] = step /\ my'[c].phase = what
        /\ \A d \in Clients \ {c} : pc'[d] = pc[d] /\ my'[d] = my[d]
    BY <1>1, <2>1 DEF Begin, Goto, Locals
  <2>3. {c} \in SUBSET Clients /\ \A d \in {c} : DoorFits(d)'
    BY <2>1, <2>2 DEF DoorFits
  <2> QED
    BY <2>2, <2>3, DoorQuiet
<1>4. CASE LookingUp(c)
  <2>1. FindUser(c) \/ AuthUser(c)
    BY <1>1, <1>4 DEF LookingUp, VerifyOpAllowed, FindTarget, Lookup, DoorFits
  <2>2. /\ up' = up /\ UNCHANGED <<memory, loader, files>> /\ \E r : Answer(c, r)
    BY <2>1 DEF FindUser, AuthUser, world
  <2>3. /\ pc'[c] = "done" /\ my'[c].phase = my[c].phase
        /\ \A d \in Clients \ {c} : pc'[d] = pc[d] /\ my'[d] = my[d]
    BY <1>1, <2>2 DEF Answer, Goto, Locals
  <2>4. {c} \in SUBSET Clients /\ \A d \in {c} : DoorFits(d)'
    BY <1>1, <2>2, <2>3 DEF DoorFits
  <2> QED
    BY <1>1, <2>2, <2>3, <2>4, DoorQuiet
<1>5. CASE Return(c)
  <2>1. /\ up' = up /\ UNCHANGED <<memory, loader, files>> /\ pc'[c] = "idle" /\ my'[c].phase = "none"
        /\ \A d \in Clients \ {c} : pc'[d] = pc[d] /\ my'[d] = my[d]
    BY <1>1, <1>5 DEF Return, Goto, NoLocals, world
  <2>2. {c} \in SUBSET Clients /\ \A d \in {c} : DoorFits(d)'
    BY <2>1 DEF DoorFits
  <2> QED
    BY <2>1, <2>2, DoorQuiet
<1> QED
  BY <1>2, <1>3, <1>4, <1>5 DEF Called

LEMMA DoorsReload ==
  ASSUME SInv, IInv', DoorsOnly, NEW c \in Clients, Reloading(c), ~ReloadFails(c)
  PROVE  SInv'
<1>1. /\ pc[c] # "idle" /\ my' = my /\ up' = up /\ UNCHANGED files
  BY DEF Reloading, ReloadNotNeeded, ReloadOpen, ReloadStat, ReloadLine, ReloadSwap, clients, world
<1>2. /\ pc \in [Clients -> Steps] /\ IInv /\ up = "up" /\ Fits(c) /\ DoorFits(c)
      /\ UsersMtime' = UsersMtime /\ mtimes' = mtimes /\ usersFile' = usersFile
      /\ disk' = disk /\ LoadedNow' = LoadedNow
  BY <1>1, InCall DEF SInv, IInv, ClientsOK, files, UsersMtime, LoadedNow
\* While c holds fileLock nobody else reads.
<1>3. ASSUME fileLock \in {Nil, c}, \A d \in Clients \ {c} : pc'[d] = pc[d]
      PROVE  \A d \in Clients \ {c} : DoorFits(d)'
  <2>1. \A d \in Clients \ {c} : pc[d] \notin {"stat", "read"}
    BY <1>2, <1>3, OneReader
  <2> QED
    BY <1>1, <1>3, <2>1 DEF SInv, DoorFits
<1>4. CASE ReloadNotNeeded(c)
  <2>1. /\ UNCHANGED <<memory, loader>> /\ pc'[c] = "lookup" /\ \A d \in Clients \ {c} : pc'[d] = pc[d]
    BY <1>2, <1>4 DEF ReloadNotNeeded, Goto
  <2>2. {c} \in SUBSET Clients /\ \A d \in {c} : DoorFits(d)'
    BY <1>1, <1>2, <2>1 DEF DoorFits
  <2> QED
    BY <1>1, <1>2, <2>1, <2>2, DoorQuiet
<1>5. CASE ReloadOpen(c)
  <2>1. /\ fileLock = Nil /\ BeginReading /\ UNCHANGED memory /\ newTimestamp' = newTimestamp
        /\ pc'[c] = "stat" /\ \A d \in Clients \ {c} : pc'[d] = pc[d]
    BY <1>2, <1>5 DEF ReloadOpen, Goto
  <2>2. DoorFits(c)'
    BY <1>1, <1>2, <2>1 DEF DoorFits, BeginReading
  <2> QED
    BY <1>1, <1>2, <1>3, <2>1, <2>2 DEF SInv, memory, InFile, InMemory
<1>6. CASE ReloadStat(c)
  <2>1. /\ pc[c] = "stat" /\ UNCHANGED <<memory, newAuth, reading, readPos>> /\ newTimestamp' = UsersMtime
        /\ pc'[c] = "read" /\ \A d \in Clients \ {c} : pc'[d] = pc[d]
    BY <1>2, <1>6 DEF ReloadStat, Goto
  <2>2. reading = usersFile /\ newAuth = EmptyDb /\ readPos = 0 /\ fileLock = c
    BY <1>2, <2>1 DEF DoorFits, Fits, LocksHeld
  <2>3. disk[usersFile].lines \in Seq(Lines)
    BY <1>2, HostTypes
  <2>4. ReadSoFar'
    BY <1>2, <2>1, <2>2, <2>3, NoneRead DEF ReadSoFar
  <2>5. DoorFits(c)'
    BY <1>1, <1>2, <2>1, <2>2, <2>4 DEF DoorFits
  <2> QED
    BY <1>1, <1>2, <1>3, <2>1, <2>2, <2>5 DEF SInv, memory, InFile, InMemory
<1>7. CASE ReloadLine(c)
  <2>1. /\ pc[c] = "read" /\ pc' = pc /\ UNCHANGED memory /\ ReadLine
        /\ reading' = reading /\ newTimestamp' = newTimestamp
    BY <1>7 DEF ReloadLine, ReadLine, clients
  <2>2. reading = usersFile /\ fileLock = c
    BY <1>2, <2>1 DEF DoorFits, Fits, LocksHeld
  <2>3. newTimestamp = UsersMtime => ReadSoFar'
    BY <1>1, <1>2, <2>1, <2>2, LineReads DEF DoorFits
  <2>4. DoorFits(c)'
    BY <1>1, <1>2, <2>1, <2>2, <2>3 DEF DoorFits
  <2> QED
    BY <1>1, <1>2, <1>3, <2>1, <2>2, <2>4 DEF SInv, memory, InFile, InMemory
<1>8. CASE ReloadSwap(c)
  <2>1. /\ pc[c] = "read" /\ AtEnd /\ db' = newAuth /\ fileTimestamp' = newTimestamp /\ EndReading
        /\ pc'[c] = "announce" /\ \A d \in Clients \ {c} : pc'[d] = pc[d]
    BY <1>2, <1>8 DEF ReloadSwap, Goto
  <2>2. reading = usersFile /\ fileLock = c
    BY <1>2, <2>1 DEF DoorFits, Fits, LocksHeld
  <2>3. newTimestamp = UsersMtime => InFile'
    BY <1>2, <2>1, <2>2, EndReads DEF DoorFits, InFile, InMemory
  <2>4. DoorFits(c)'
    BY <1>1, <1>2, <2>1 DEF DoorFits
  <2>5. newTimestamp' = 0 /\ mtimes \in Nat
    BY <1>2, <2>1, Timestamps DEF EndReading
  <2> QED
    BY <1>1, <1>2, <1>3, <2>1, <2>2, <2>3, <2>4, <2>5 DEF SInv
<1> QED
  BY <1>4, <1>5, <1>6, <1>7, <1>8 DEF Reloading

\* A reload that is given up, and the wait for the event bus.
LEMMA DoorsGoOn ==
  ASSUME SInv, IInv', NEW c \in Clients, ReloadFails(c) \/ Posting(c)
  PROVE  SInv'
<1>1. /\ pc \in [Clients -> Steps] /\ my \in [Clients -> Locals] /\ DoorFits(c)
  BY DEF SInv, IInv, ClientsOK
<1>2. ReloadFails(c) \/ ReloadPosted(c)
  BY <1>1 DEF Posting, Posted, DoorFits
<1>3. /\ up' = up /\ UNCHANGED <<memory, loader, files>> /\ Goto(c, "lookup")
      /\ my' = [my EXCEPT ![c].asOf = 0] \/ my' = my
  BY <1>2 DEF ReloadFails, ReloadPosted, world
<1>4. /\ pc'[c] = "lookup" /\ my'[c].phase = my[c].phase
      /\ \A d \in Clients \ {c} : pc'[d] = pc[d] /\ my'[d] = my[d]
  BY <1>1, <1>3 DEF Goto, Locals
<1>5. {c} \in SUBSET Clients /\ \A d \in {c} : DoorFits(d)'
  BY <1>1, <1>4 DEF DoorFits
<1> QED
  BY <1>3, <1>4, <1>5, DoorQuiet

\* The process dies, of a failing stat too.
LEMMA DoorsDie == ASSUME SInv, IInv', Die PROVE SInv'
<1>1. /\ up' = "down" /\ fileTimestamp' = 0 /\ newTimestamp' = 0 /\ UNCHANGED files
      /\ \A c \in Clients : pc'[c] = "idle" /\ my'[c].phase = "none"
  BY DEF Die, EndReading, NoLocals
<1>2. UsersMtime' = UsersMtime /\ mtimes' = mtimes /\ mtimes \in Nat
  BY <1>1, Timestamps DEF SInv, files, UsersMtime
<1> QED
  BY <1>1, <1>2 DEF SInv, DoorFits

LEMMA DoorsProcess ==
  ASSUME SInv, IInv', Process
  PROVE  SInv'
<1>1. UNCHANGED <<files, clients>> /\ up # "up" /\ IInv
  BY DEF Process, Start, StartLine, Started, SInv
<1>2. \A c \in Clients : pc[c] = "idle"
  BY <1>1, NotUpIsIdle
<1>3. \A c \in Clients : DoorFits(c)'
  BY <1>1, <1>2 DEF SInv, DoorFits, clients
<1>4. /\ UsersMtime' = UsersMtime /\ mtimes' = mtimes /\ usersFile' = usersFile /\ LoadedNow' = LoadedNow
  BY <1>1 DEF files, UsersMtime, LoadedNow
<1>5. CASE Start
  <2>1. ReadSoFar' /\ reading' = usersFile
    BY <1>1, <1>5, BeginReads DEF Start, BeginReading
  <2> QED
    BY <1>3, <1>4, <1>5, <2>1 DEF SInv, Start, memory
<1>6. CASE StartLine
  <2>1. reading' = reading /\ newTimestamp' = newTimestamp /\ up' = up /\ up = "starting" /\ ReadLine
    BY <1>6 DEF StartLine, ReadLine, world
  <2>2. newTimestamp = UsersMtime => ReadSoFar'
    BY <1>1, <2>1, LineReads DEF SInv
  <2> QED
    BY <1>3, <1>4, <1>6, <2>1, <2>2 DEF SInv, StartLine, memory
<1>7. CASE Started
  <2>1. /\ up = "starting" /\ up' = "up" /\ AtEnd /\ db' = newAuth /\ fileTimestamp' = newTimestamp
        /\ newTimestamp' = 0
    BY <1>7 DEF Started, EndReading
  <2>2. newTimestamp = UsersMtime => InFile'
    BY <1>1, <1>4, <2>1, EndReads DEF SInv, InFile, InMemory
  <2>3. mtimes \in Nat
    BY <1>1, Timestamps
  <2> QED
    BY <1>3, <1>4, <2>1, <2>2, <2>3 DEF SInv
<1> QED
  BY <1>5, <1>6, <1>7 DEF Process

LEMMA DoorsSurrounded ==
  ASSUME SInv, IInv', DoorsOnly, Surroundings
  PROVE  SInv'
<1>1. CASE Crash
  BY <1>1, DoorsDie DEF Crash
<1>2. CASE Tick
  <2>1. up' = up /\ UNCHANGED <<memory, loader, files>> /\ pc' = pc /\ my' = my
    BY <1>2 DEF Tick, clients
  <2>2. \A d \in Clients \ {} : pc'[d] = pc[d] /\ my'[d] = my[d]
    BY <2>1
  <2>3. {} \in SUBSET Clients /\ \A c \in {} : DoorFits(c)'
    OBVIOUS
  <2> QED
    BY <2>1, <2>2, <2>3, DoorQuiet
<1>3. CASE EditBegin \/ EditEnd
  <2>1. PICK lines : PutFile(usersFile, lines)
    BY <1>3 DEF EditBegin, EditEnd
  <2>2. /\ UNCHANGED <<memory, loader, clients, usersFile>> /\ up' = up
    BY <1>3 DEF EditBegin, EditEnd, EditStarts, world
  <2>3. /\ UsersMtime' = mtimes + 1 /\ mtimes' = mtimes + 1 /\ mtimes \in Nat
        /\ fileTimestamp \in Nat /\ newTimestamp \in Nat
    BY <2>1, <2>2, Timestamps DEF SInv, IInv, FilesOK, PutFile, UsersMtime
  <2>4. fileTimestamp' # UsersMtime' /\ newTimestamp' # UsersMtime'
    BY <2>2, <2>3 DEF SInv, memory, loader
  <2>5. \A c \in Clients : DoorFits(c)'
    BY <2>2, <2>4 DEF SInv, DoorFits, clients, loader
  <2> QED
    BY <2>2, <2>3, <2>4, <2>5 DEF SInv, memory, loader
<1>4. ~EditFile
  BY DEF EditFile, DoorsOnly
<1> QED
  BY <1>1, <1>2, <1>3, <1>4 DEF Surroundings

LEMMA DoorsNext == DoorsOnly /\ SInv /\ [Next]_vars => SInv'
<1> SUFFICES ASSUME DoorsOnly, SInv, [Next]_vars PROVE SInv'
  OBVIOUS
<1>0. IInv'
  BY NextKeeps DEF SInv
<1>1. ASSUME NEW c \in Clients, Called(c) \/ LookingUp(c) \/ Return(c) PROVE SInv'
  BY <1>0, <1>1, DoorsCalled
<1>2. ASSUME NEW c \in Clients, Reloading(c) PROVE SInv'
  BY <1>0, <1>2, DoorsReload, DoorsGoOn
<1>3. ASSUME NEW c \in Clients, Changing(c) \/ Writing(c) PROVE FALSE
  <2>1. pc[c] \in {"idle", "reload", "stat", "read", "announce", "lookup", "done"}
    BY DEF SInv, DoorFits
  <2>2. pc[c] \notin {"idle", "reload", "stat", "read", "announce", "lookup", "done"}
    BY <1>3 DEF Changing, AddUser, NotModified, ReplaceDelete, ReplaceAdd, DeleteUser,
       Writing, AppendEntry, AppendFails, CreateTemp, CreateFails, WriteRow, DiskFull, RenameTemp, Stamp
  <2> QED
    BY <2>1, <2>2
<1>4. CASE Process
  BY <1>0, <1>4, DoorsProcess
<1>5. CASE Surroundings
  BY <1>0, <1>5, DoorsSurrounded
<1>6. CASE UNCHANGED vars
  <2>1. up' = up /\ UNCHANGED <<memory, loader, files>> /\ pc' = pc /\ my' = my
    BY <1>6 DEF vars, clients, world
  <2>2. \A d \in Clients \ {} : pc'[d] = pc[d] /\ my'[d] = my[d]
    BY <2>1
  <2>3. {} \in SUBSET Clients /\ \A c \in {} : DoorFits(c)'
    OBVIOUS
  <2> QED
    BY <1>0, <2>1, <2>2, <2>3, DoorQuiet
<1>7. ASSUME NEW c \in Clients, Posting(c) PROVE SInv'
  BY <1>0, <1>7, DoorsGoOn
<1>8. ASSUME NEW c \in Clients, Panicking(c) PROVE SInv'
  BY <1>0, <1>8, DoorsDie DEF Panicking, UpdatePanics, StatPanics
<1> QED
  BY <1>1, <1>2, <1>3, <1>4, <1>5, <1>6, <1>7, <1>8 DEF Next, Step, Proceeding

\* Doors alone are in step with a file that is edited in place at any moment,
\* garbled or half written as it may be: whatever was read while an edit was
\* going on carries a timestamp older than the file's (reloadIfChanged).
THEOREM DoorsStaySynced == DoorsOnly => (Spec => []Synced)
<1> SUFFICES ASSUME DoorsOnly PROVE Spec => []Synced
  OBVIOUS
<1>1. DoorsOnly /\ SInv /\ [Next]_vars => SInv'
  BY DoorsNext
<1>2. SInv => Synced
  BY DEF SInv, Synced, Settled, InFile
<1>3. SInv /\ [Next]_vars => SInv'
  BY <1>1
<1> QED
  BY <1>2, <1>3, DoorsInit, PTL DEF Spec
=============================================================================
