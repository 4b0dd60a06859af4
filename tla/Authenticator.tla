---------------------------- MODULE Authenticator ----------------------------
(***************************************************************************)
(* FileBasedAuthenticator (authenticator.go): the user list in memory, its *)
(* two indexes, the CSV file it is loaded from, and the goroutines of the  *)
(* terminals that look users up and change them, while somebody edits the  *)
(* file by hand and the process may die at any step.                       *)
(*                                                                         *)
(* One client is one goroutine calling into the authenticator.  pc[c]      *)
(* names the next step of its call; my[c].phase says which of the call's   *)
(* lookups is under way, because each one starts with reloadIfChanged.  A  *)
(* step is what happens between two points where another goroutine, the    *)
(* editor or a crash can be observed.                                      *)
(***************************************************************************)
EXTENDS UserRecord, Sequences, FiniteSets

CONSTANTS
  Clients,        \* the goroutines calling the authenticator
  Modifiers,      \* those that add, update and delete
  ShortCodes,     \* codes below hasMinimalCodeRequirements
  Addrs,          \* addresses of User objects in memory
  Inodes,         \* the files there can be at once
  Nil,            \* a nil *User
  Instants,       \* the instants the clock shows
  InitialFile,    \* the lines of the file when the program is installed
  Requests,       \* the calls that are made
  HandEdits,      \* the lines an edit may add to the file
  EditWhen,       \* "never", "idle" (no call in progress) or "anytime"
  EditHow,        \* "rename" (new file moved into place) or "inplace"
  DiskMayFill,    \* whether a write may come out short
  OpenMayFail,    \* whether opening a file for writing may fail
  ReadMayFail,    \* whether stat, or opening the file for reading, may fail
  MaxChanges,     \* bound: calls that add, update or delete
  MaxEdits,       \* bound: edits by hand
  MaxCrashes      \* bound: deaths of the process

Codes == AllCodes \cup {NoCode}
Objects == [addr: Addrs, user: UserRecords]
Columns == [name: NameKinds, contact: BOOLEAN, level: Levels \cup {"other"},
            from: {0} \cup UtcInstant, to: {0} \cup UtcInstant,
            codes: SUBSET Codes]
Lines == Columns \cup {Garbled, ShortRow}

NoCall == [op |-> "none"]
LookupCalls == [op: {"find", "auth"}, code: AllCodes]
AddCalls == [op: {"add"}, auth: AllCodes, user: UserRecords]
\* What UpdateUser's callback does: the UI's renewal, nothing, or a new code.
Updaters == {"renew", "abort"} \cup AllCodes
UpdateCalls == [op: {"update"}, auth: AllCodes, code: AllCodes, updater: Updaters]
DeleteCalls == [op: {"delete"}, auth: AllCodes, code: AllCodes]
ChangeCalls == AddCalls \cup UpdateCalls \cup DeleteCalls

ASSUME NilAssumption == Nil \notin Objects
ASSUME ClientAssumption == Modifiers \subseteq Clients /\ Nil \notin Clients
ASSUME InstantsAssumption == Instants \subseteq Instant
ASSUME AddrAssumption == Addrs \subseteq Nat \ {0}
ASSUME InodeAssumption == Inodes \subseteq Nat \ {0}
ASSUME LineAssumption == {Garbled, ShortRow} \cap Columns = {}
ASSUME FileAssumption == InitialFile \in Seq(Lines) /\ HandEdits \subseteq Lines
ASSUME RequestAssumption == Requests \subseteq LookupCalls \cup ChangeCalls
ASSUME BoundAssumption == {MaxChanges, MaxEdits, MaxCrashes} \subseteq Nat

VARIABLES
  \* FileBasedAuthenticator
  db,             \* userList, user2index, code2user
  revision,       \* the counter for optimistic locking
  fileTimestamp,  \* mtime of the file as last loaded or written
  fileLock,       \* the client holding fileLock, or Nil
  userLock,       \* the client holding userLock across steps, or Nil
  \* the authenticator being read by NewFileBasedAuthenticator
  newAuth,        \* its userList, user2index and code2user
  newTimestamp,   \* its fileTimestamp
  reading,        \* inode it reads; 0 if none is being read
  readPos,        \* lines read so far
  \* the file system
  disk,           \* inode |-> lines and mtime
  usersFile,      \* the inode called userFilename
  tmpFile,        \* the inode called userFilename + ".tmp"; 0 if none
  mtimes,         \* mtime given last
  editing,        \* the lines an in-place edit still has to write, or Nil
  \* the clients
  pc,             \* the next step of each
  my,             \* the locals of each one's call, see NoLocals
  \* the process and its surroundings
  up,             \* "down", "starting" or "up"
  now, changes, edits, crashes

memory == <<db, revision, fileTimestamp>>
locks == <<fileLock, userLock>>
loader == <<newAuth, newTimestamp, reading, readPos>>
files == <<disk, usersFile, tmpFile, mtimes, editing>>
clients == <<pc, my>>
counts == <<changes, edits, crashes>>
world == <<up, now, counts>>
vars == <<memory, locks, loader, files, clients, world>>

-----------------------------------------------------------------------------
(* The user list and its indexes.  An index or an inode of 0 stands for    *)
(* none; list indexes count from 1.                                        *)

EmptyDb == [userList |-> <<>>,
            user2index |-> [a \in Addrs |-> 0],
            code2user |-> [c \in Codes |-> Nil]]

IndexOf(d, obj) == IF obj = Nil THEN 0 ELSE d.user2index[obj.addr]

\* Slip: no code is ever taken.
CodesFree_Always(d, user) == TRUE

\* addUserAtPosRequiresLock refuses a user one of whose codes is taken ...
CodesFree(d, user) == \A c \in user.codes : d.code2user[c] = Nil

\* ... and otherwise puts it at position pos, at the end if pos is 0.
AddUserAtPos(d, obj, pos) ==
  LET at == IF pos = 0 THEN Len(d.userList) + 1 ELSE pos
  IN  [userList |-> IF pos = 0 THEN Append(d.userList, obj)
                    ELSE [d.userList EXCEPT ![pos] = obj],
       user2index |-> [d.user2index EXCEPT ![obj.addr] = at],
       code2user |-> [c \in Codes |-> IF c \in obj.user.codes THEN obj
                                      ELSE d.code2user[c]]]

\* Slips: the user stays in user2index, or in userList.
DeleteUserFrom_KeepsIndex(d, obj) ==
  LET pos == IndexOf(d, obj)
  IN  IF pos = 0 THEN d
      ELSE [d EXCEPT !.userList[pos] = Nil,
                     !.code2user = [c \in Codes |-> IF c \in d.userList[pos].user.codes
                                                    THEN Nil ELSE @[c]]]
DeleteUserFrom_KeepsSlot(d, obj) ==
  LET pos == IndexOf(d, obj)
  IN  IF pos = 0 THEN d
      ELSE [d EXCEPT !.user2index[obj.addr] = 0,
                     !.code2user = [c \in Codes |-> IF c \in d.userList[pos].user.codes
                                                    THEN Nil ELSE @[c]]]

\* deleteUserRequiresLock: nothing happens to a user that is not indexed.
DeleteUserFrom(d, obj) ==
  LET pos == IndexOf(d, obj)
      gone == d.userList[pos]
  IN  IF pos = 0 THEN d
      ELSE [userList |-> [d.userList EXCEPT ![pos] = Nil],
            user2index |-> [d.user2index EXCEPT ![obj.addr] = 0],
            code2user |-> [c \in Codes |-> IF c \in gone.user.codes THEN Nil
                                           ELSE d.code2user[c]]]

ObjectsOf(d) == {d.userList[i] : i \in DOMAIN d.userList} \ {Nil}

\* The allocator returns an address no live object has: the smallest one,
\* without loss of generality.
LiveAddrs == {obj.addr : obj \in ObjectsOf(db) \cup ObjectsOf(newAuth)
                                 \cup ({my[c].target : c \in Clients} \ {Nil})}
Fresh(a) == a \in Addrs \ LiveAddrs /\ \A b \in Addrs \ LiveAddrs : a <= b

-----------------------------------------------------------------------------
(* Files. *)

FreshInode(i) ==
  LET used == {usersFile, tmpFile, reading} \cup {my[c].fd : c \in Clients}
  IN  i \in Inodes \ used /\ \A j \in Inodes \ used : i <= j

UsersMtime == disk[usersFile].mtime
PutFile(i, lines) == /\ disk' = [disk EXCEPT ![i] = [lines |-> lines, mtime |-> mtimes + 1]]
                     /\ mtimes' = mtimes + 1

-----------------------------------------------------------------------------
(* Reading the file: the loop of readDatabase over the lines. *)

AtEnd == readPos < Len(disk[reading].lines) =>
           EndsReading(disk[reading].lines[readPos + 1])

BeginReading == /\ newAuth' = EmptyDb
                /\ reading' = usersFile
                /\ readPos' = 0

ReadLine ==
  LET line == disk[reading].lines[readPos + 1]
      user == NewUserFromCSV(line)
  IN  /\ ~AtEnd
      /\ readPos' = readPos + 1
      /\ IF IsUserRow(line) /\ CodesFree(newAuth, user)
         THEN \E a \in Addrs :
                /\ Fresh(a)
                /\ newAuth' = AddUserAtPos(newAuth, [addr |-> a, user |-> user], 0)
         ELSE UNCHANGED newAuth
      /\ UNCHANGED <<reading, newTimestamp>>

EndReading == /\ newAuth' = EmptyDb
              /\ newTimestamp' = 0
              /\ reading' = 0
              /\ readPos' = 0

-----------------------------------------------------------------------------
(* Calls. *)

\* phase: which lookup; seen: revision at the lookup of the user to change;
\* target: that user; slot: index the replacement goes to, 0 to append;
\* fd: inode being written; dump: what is left to write of the userList;
\* asOf is history: the file's mtime when the lookup under way began, 0 once
\* its reload has been given up.
NoLocals == [call |-> NoCall, phase |-> "none", seen |-> 0, target |-> Nil,
             slot |-> 0, fd |-> 0, dump |-> <<>>, result |-> "none", asOf |-> 0]

Goto(c, step) == pc' = [pc EXCEPT ![c] = step]
Answer(c, r) == Goto(c, "done") /\ my' = [my EXCEPT ![c].result = r]

Begin(c, request, step, what, r) ==
  /\ up = "up" /\ pc[c] = "idle"
  /\ Goto(c, step)
  /\ my' = [my EXCEPT ![c].call = request, ![c].phase = what,
                      ![c].result = r, ![c].asOf = UsersMtime]
  /\ UNCHANGED <<memory, locks, loader, files, up, now, edits, crashes>>

\* FindUser, and AuthUser, which refuses a short code without a lookup.
CallLookup(c) ==
  /\ \E request \in Requests \cap LookupCalls :
       IF request.op = "auth" /\ request.code \in ShortCodes
       THEN Begin(c, request, "done", "none", "AuthFail")
       ELSE Begin(c, request, "reload", request.op, "none")
  /\ UNCHANGED changes

\* AddNewUser, UpdateUser, DeleteUser.
CallChange(c) ==
  /\ c \in Modifiers /\ changes < MaxChanges
  /\ \E request \in Requests \cap ChangeCalls : Begin(c, request, "reload", "verify", "none")
  /\ changes' = changes + 1

Return(c) ==
  /\ pc[c] = "done"
  /\ Goto(c, "idle")
  /\ my' = [my EXCEPT ![c] = NoLocals]
  /\ UNCHANGED <<memory, locks, loader, files, world>>

-----------------------------------------------------------------------------
(* reloadIfChanged: every lookup begins with it, under fileLock. *)

\* Slip: the timestamps are not compared.
ReloadNotNeeded_Always(c) ==
  /\ pc[c] = "reload" /\ fileLock = Nil
  /\ Goto(c, "lookup")
  /\ UNCHANGED <<memory, locks, loader, files, my, world>>

\* Stat finds the timestamp unchanged: straight on to the lookup.
ReloadNotNeeded(c) ==
  /\ pc[c] = "reload" /\ fileLock = Nil
  /\ fileTimestamp = UsersMtime
  /\ Goto(c, "lookup")
  /\ UNCHANGED <<memory, locks, loader, files, my, world>>

\* Stat fails, or the new authenticator cannot open the file: the lookup goes
\* on with the list there is.
ReloadFails(c) ==
  /\ ReadMayFail
  /\ pc[c] = "reload" /\ fileLock = Nil
  /\ Goto(c, "lookup")
  /\ my' = [my EXCEPT ![c].asOf = 0]
  /\ UNCHANGED <<memory, locks, loader, files, world>>

\* Stat finds a new timestamp: a new authenticator opens the file ...
ReloadOpen(c) ==
  /\ pc[c] = "reload" /\ fileLock = Nil
  /\ fileTimestamp # UsersMtime
  /\ fileLock' = c
  /\ BeginReading
  /\ Goto(c, "stat")
  /\ UNCHANGED <<memory, userLock, newTimestamp, files, my, world>>

\* ... takes the timestamp of whatever has that name by now ...
ReloadStat(c) ==
  /\ pc[c] = "stat"
  /\ newTimestamp' = UsersMtime
  /\ Goto(c, "read")
  /\ UNCHANGED <<memory, locks, newAuth, reading, readPos, files, my, world>>

\* ... reads what it has opened ...
ReloadLine(c) ==
  /\ pc[c] = "read"
  /\ ReadLine
  /\ UNCHANGED <<memory, locks, files, clients, world>>

\* Slip: the timestamp is taken after reading.
ReloadSwap_LateStamp(c) ==
  /\ pc[c] = "read" /\ AtEnd /\ userLock = Nil
  /\ db' = newAuth /\ fileTimestamp' = UsersMtime
  /\ EndReading
  /\ userLock' = c
  /\ Goto(c, "announce")
  /\ UNCHANGED <<revision, fileLock, files, my, world>>

\* ... and hands over its fields, under both locks, which are kept while the
\* reload is posted to the event bus.  The revision stays as it was.
ReloadSwap(c) ==
  /\ pc[c] = "read" /\ AtEnd /\ userLock = Nil
  /\ db' = newAuth
  /\ fileTimestamp' = newTimestamp
  /\ EndReading
  /\ userLock' = c
  /\ Goto(c, "announce")
  /\ UNCHANGED <<revision, fileLock, files, my, world>>

\* Post returns, which it does when the bus has room (ApplicationBus).
ReloadPosted(c) ==
  /\ pc[c] = "announce"
  /\ fileLock' = Nil /\ userLock' = Nil
  /\ Goto(c, "lookup")
  /\ UNCHANGED <<memory, loader, files, my, world>>

-----------------------------------------------------------------------------
(* The lookup of findUserSynchronized, and what each caller does with it.  *)

Lookup(c, what) == pc[c] = "lookup" /\ my[c].phase = what /\ userLock = Nil
Found(code) == db.code2user[code]

FindUser(c) ==
  /\ Lookup(c, "find")
  /\ Answer(c, IF Found(my[c].call.code) = Nil THEN "nil" ELSE "user")
  /\ UNCHANGED <<memory, locks, loader, files, world>>

AuthUser(c) ==
  LET found == Found(my[c].call.code)
  IN  /\ Lookup(c, "auth")
      /\ Answer(c, IF found = Nil THEN "AuthFail"
                   ELSE AuthResult(found.user, Now(now)))
      /\ UNCHANGED <<memory, locks, loader, files, world>>

\* What verifyOpAllowed asks of the member it found.
IsOpAllowed(op, level) == IF op = "update" THEN CanLevelModify(level)
                          ELSE CanLevelAddDelete(level)
MayAuthorise(op, user) ==
  IsOpAllowed(op, user.level) /\ InValidityPeriod(user, Now(now))

\* Slip: the level of the member is not looked at.
VerifyOpAllowed_AnyLevel(c) ==
  LET found == Found(my[c].call.auth)
  IN  /\ Lookup(c, "verify")
      /\ IF found = Nil THEN Answer(c, "refused")
         ELSE IF my[c].call.op = "add" THEN Goto(c, "add") /\ UNCHANGED my
         ELSE Goto(c, "reload")
              /\ my' = [my EXCEPT ![c].phase = "target", ![c].asOf = UsersMtime]
      /\ UNCHANGED <<memory, locks, loader, files, world>>

VerifyOpAllowed(c) ==
  LET op == my[c].call.op
      found == Found(my[c].call.auth)
  IN  /\ Lookup(c, "verify")
      /\ IF found = Nil \/ ~MayAuthorise(op, found.user) THEN Answer(c, "refused")
         ELSE IF op = "add" THEN Goto(c, "add") /\ UNCHANGED my
         ELSE Goto(c, "reload")
              /\ my' = [my EXCEPT ![c].phase = "target", ![c].asOf = UsersMtime]
      /\ UNCHANGED <<memory, locks, loader, files, world>>

\* The user to update or delete, with the revision it was found in.
FindTarget(c) ==
  LET found == Found(my[c].call.code)
  IN  /\ Lookup(c, "target")
      /\ my[c].call.op = "update" => found # Nil
      /\ Goto(c, "modify")
      /\ my' = [my EXCEPT ![c].target = found, ![c].seen = revision]
      /\ UNCHANGED <<memory, locks, loader, files, world>>

-----------------------------------------------------------------------------
(* Changes of the list in memory, under userLock. *)

\* AddNewUser stamps a record that has no start.
Stamped(user) == IF IsZero(user.from) THEN [user EXCEPT !.from = Now(now)] ELSE user

AddUser(c) ==
  LET user == Stamped(my[c].call.user)
  IN  /\ pc[c] = "add" /\ userLock = Nil
      /\ revision' = revision + 1
      /\ IF CodesFree(db, user)
         THEN \E a \in Addrs :
                LET obj == [addr |-> a, user |-> user]
                IN  /\ Fresh(a)
                    /\ db' = AddUserAtPos(db, obj, 0)
                    /\ Goto(c, "post")
                    /\ my' = [my EXCEPT ![c].target = obj]
         ELSE Answer(c, "refused") /\ UNCHANGED db
      /\ UNCHANGED <<fileTimestamp, locks, loader, files, world>>

\* The callback given to UpdateUser: the UI's renewal sets ValidFrom; a new
\* code goes through SetAuthCode, which declines a short one.
Declines(updater) == updater = "abort" \/ updater \in ShortCodes
Updated(user, updater) ==
  IF updater = "renew" THEN [user EXCEPT !.from = Now(now)]
  ELSE [user EXCEPT !.codes = {updater}]

\* The callback declines, or the revision is not the one seen.
NotModified(c) ==
  LET call == my[c].call
      declined == call.op = "update" /\ Declines(call.updater)
  IN  /\ pc[c] = "modify"
      /\ declined \/ (userLock = Nil /\ revision # my[c].seen)
      /\ Answer(c, "refused")
      /\ UNCHANGED <<memory, locks, loader, files, world>>

\* Slip: the revision is not counted up.
ReplaceDelete_NoRevision(c) ==
  LET call == my[c].call
      old == my[c].target
  IN  /\ pc[c] = "modify" /\ call.op = "update" /\ userLock = Nil
      /\ ~Declines(call.updater) /\ revision = my[c].seen
      /\ db' = DeleteUserFrom(db, old)
      /\ my' = [my EXCEPT ![c].slot = IndexOf(db, old),
                          ![c].target.user = Updated(old.user, call.updater)]
      /\ userLock' = c
      /\ Goto(c, "replace")
      /\ UNCHANGED <<revision, fileTimestamp, fileLock, loader, files, world>>

\* replaceUserSynchronized: the updater has run on a copy, the revision is
\* the expected one, and the old user is deleted ...
ReplaceDelete(c) ==
  LET call == my[c].call
      old == my[c].target
  IN  /\ pc[c] = "modify" /\ call.op = "update" /\ userLock = Nil
      /\ ~Declines(call.updater) /\ revision = my[c].seen
      /\ revision' = revision + 1
      /\ db' = DeleteUserFrom(db, old)
      /\ my' = [my EXCEPT ![c].slot = IndexOf(db, old),
                          ![c].target.user = Updated(old.user, call.updater)]
      /\ userLock' = c
      /\ Goto(c, "replace")
      /\ UNCHANGED <<fileTimestamp, fileLock, loader, files, world>>

\* ... and the changed copy, a new object, added in its place, unless one of
\* its codes is taken.
ReplaceAdd(c) ==
  LET user == my[c].target.user
  IN  /\ pc[c] = "replace"
      /\ IF CodesFree(db, user)
         THEN /\ \E a \in Addrs :
                   /\ Fresh(a)
                   /\ db' = AddUserAtPos(db, [addr |-> a, user |-> user], my[c].slot)
              /\ Goto(c, "post")
              /\ UNCHANGED my
         ELSE Answer(c, "refused") /\ UNCHANGED db
      /\ userLock' = Nil
      /\ UNCHANGED <<revision, fileTimestamp, fileLock, loader, files, world>>

\* Slip: the file is not written.
DeleteUser_NotWritten(c) ==
  /\ pc[c] = "modify" /\ my[c].call.op = "delete" /\ userLock = Nil
  /\ revision = my[c].seen
  /\ revision' = revision + 1
  /\ db' = DeleteUserFrom(db, my[c].target)
  /\ Answer(c, IF IndexOf(db, my[c].target) > 0 THEN "ok" ELSE "refused")
  /\ UNCHANGED <<fileTimestamp, locks, loader, files, world>>

\* deleteUserSynchronized with the expected revision; a nil user is not found.
DeleteUser(c) ==
  LET old == my[c].target
  IN  /\ pc[c] = "modify" /\ my[c].call.op = "delete" /\ userLock = Nil
      /\ revision = my[c].seen
      /\ revision' = revision + 1
      /\ db' = DeleteUserFrom(db, old)
      /\ IF IndexOf(db, old) > 0 THEN Goto(c, "post") /\ UNCHANGED my
         ELSE Answer(c, "refused")
      /\ UNCHANGED <<fileTimestamp, locks, loader, files, world>>

\* postUserEvent returns: only now is the change written to the file.
Posted(c) ==
  /\ pc[c] = "post"
  /\ Goto(c, IF my[c].call.op = "add" THEN "append" ELSE "create")
  /\ UNCHANGED <<memory, locks, loader, files, my, world>>

-----------------------------------------------------------------------------
(* Writing the file. *)

\* appendDatabaseSingleEntry up to the flush; a full disk drops the row.
AppendEntry(c) ==
  LET lines == disk[usersFile].lines
  IN  /\ pc[c] = "append" /\ fileLock = Nil
      /\ fileLock' = c
      /\ \/ PutFile(usersFile, Append(lines, WriteCSV(my[c].target.user)))
         \/ DiskMayFill /\ PutFile(usersFile, lines)
      /\ Goto(c, "stamp")
      /\ UNCHANGED <<memory, userLock, loader, usersFile, tmpFile, editing, my, world>>

\* Slip: the early return keeps fileLock.
AppendFails_KeepsLock(c) ==
  /\ OpenMayFail
  /\ pc[c] = "append" /\ fileLock = Nil
  /\ fileLock' = c
  /\ Answer(c, "refused")
  /\ UNCHANGED <<memory, userLock, loader, files, world>>

\* The file cannot be opened: the user stays in memory all the same.
AppendFails(c) ==
  /\ OpenMayFail
  /\ pc[c] = "append" /\ fileLock = Nil
  /\ Answer(c, "refused")
  /\ UNCHANGED <<memory, locks, loader, files, world>>

\* The slip: there is no temporary file and the dump goes into the file in place.
CreateTemp_InPlace(c) ==
  /\ pc[c] = "create"
  /\ PutFile(usersFile, <<>>)
  /\ my' = [my EXCEPT ![c].fd = usersFile, ![c].dump = db.userList]
  /\ Goto(c, "write")
  /\ UNCHANGED <<memory, locks, loader, usersFile, tmpFile, editing, world>>

\* writeTempCSV: a new temporary file, and a walk over the userList as it is
\* now, without userLock ...
CreateTemp(c) ==
  /\ pc[c] = "create"
  /\ \E i \in Inodes :
       /\ FreshInode(i)
       /\ PutFile(i, <<>>)
       /\ tmpFile' = i
       /\ my' = [my EXCEPT ![c].fd = i, ![c].dump = db.userList]
  /\ Goto(c, "write")
  /\ UNCHANGED <<memory, locks, loader, usersFile, editing, world>>

\* ... or none, because it cannot be opened, with or without the one a crash
\* has left: the change stays in memory all the same ...
CreateFails(c) ==
  /\ OpenMayFail
  /\ pc[c] = "create"
  /\ tmpFile' \in {tmpFile, 0}
  /\ Answer(c, "refused")
  /\ UNCHANGED <<memory, locks, loader, disk, usersFile, mtimes, editing, world>>

\* ... writes a row for every user in it ...
WriteRow(c) ==
  LET fd == my[c].fd
      obj == Head(my[c].dump)
  IN  /\ pc[c] = "write" /\ my[c].dump # <<>>
      /\ IF obj = Nil THEN UNCHANGED <<disk, mtimes>>
         ELSE PutFile(fd, Append(disk[fd].lines, WriteCSV(obj.user)))
      /\ my' = [my EXCEPT ![c].dump = Tail(@)]
      /\ UNCHANGED <<memory, locks, loader, usersFile, tmpFile, editing, pc, world>>

\* ... or fails to from some row on, which nobody looks at.
DiskFull(c) ==
  /\ DiskMayFill
  /\ pc[c] = "write" /\ my[c].dump # <<>>
  /\ my' = [my EXCEPT ![c].dump = <<>>]
  /\ UNCHANGED <<memory, locks, loader, files, pc, world>>

\* Slip: the rename is forgotten.
RenameTemp_Forgotten(c) ==
  /\ pc[c] = "write" /\ my[c].dump = <<>> /\ fileLock = Nil
  /\ fileLock' = c
  /\ my' = [my EXCEPT ![c].fd = 0]
  /\ Goto(c, "stamp")
  /\ UNCHANGED <<memory, userLock, loader, files, world>>

\* writeDatabase then renames whatever is called ".tmp" by now.
RenameTemp(c) ==
  /\ pc[c] = "write" /\ my[c].dump = <<>> /\ fileLock = Nil
  /\ fileLock' = c
  /\ usersFile' = IF tmpFile # 0 THEN tmpFile ELSE usersFile
  /\ tmpFile' = 0
  /\ my' = [my EXCEPT ![c].fd = 0]
  /\ Goto(c, "stamp")
  /\ UNCHANGED <<memory, userLock, loader, disk, mtimes, editing, world>>

\* Both ways of writing end by taking the file's timestamp.
Stamp(c) ==
  /\ pc[c] = "stamp"
  /\ fileTimestamp' = UsersMtime
  /\ fileLock' = Nil
  /\ Answer(c, "ok")
  /\ UNCHANGED <<db, revision, userLock, loader, files, world>>

-----------------------------------------------------------------------------
(* The life of the process. *)

\* Everything in memory is gone; the files stay.
Die ==
  /\ up' = "down"
  /\ db' = EmptyDb /\ revision' = 0 /\ fileTimestamp' = 0
  /\ fileLock' = Nil /\ userLock' = Nil
  /\ EndReading
  /\ pc' = [c \in Clients |-> "idle"]
  /\ my' = [c \in Clients |-> NoLocals]
  /\ UNCHANGED <<files, now, changes, edits>>

\* UpdateUser copies *orig_user without asking whether there is one.
UpdatePanics(c) ==
  /\ Lookup(c, "target") /\ my[c].call.op = "update"
  /\ Found(my[c].call.code) = Nil
  /\ Die
  /\ UNCHANGED crashes

\* readDatabase and both ways of writing use the result of a second stat
\* without asking whether there is one.
StatPanics(c) ==
  /\ ReadMayFail
  /\ pc[c] \in {"stat", "stamp"}
  /\ Die
  /\ UNCHANGED crashes

Crash ==
  /\ up # "down" /\ crashes < MaxCrashes
  /\ crashes' = crashes + 1
  /\ Die

\* NewFileBasedAuthenticator in main: no call comes before it is done.  When
\* the file cannot be read the process stays down.
Start ==
  /\ up = "down"
  /\ up' = "starting"
  /\ BeginReading
  /\ newTimestamp' = UsersMtime
  /\ UNCHANGED <<memory, locks, files, clients, now, counts>>

StartLine ==
  /\ up = "starting"
  /\ ReadLine
  /\ UNCHANGED <<memory, locks, files, clients, world>>

Started ==
  /\ up = "starting" /\ AtEnd
  /\ up' = "up"
  /\ db' = newAuth
  /\ fileTimestamp' = newTimestamp
  /\ EndReading
  /\ UNCHANGED <<revision, locks, files, clients, now, counts>>

-----------------------------------------------------------------------------
(* What goes on around the process. *)

Tick ==
  /\ \E t \in Instants : t > now /\ now' = t
  /\ UNCHANGED <<memory, locks, loader, files, clients, up, counts>>

\* An edit removes a line, adds one, or gives somebody contact information.
Without(lines, i) ==
  [j \in 1..(Len(lines) - 1) |-> IF j < i THEN lines[j] ELSE lines[j + 1]]
WithContact(line) ==
  IF line \in {Garbled, ShortRow} THEN line ELSE [line EXCEPT !.contact = TRUE]
EditsOf(lines) ==
  {Without(lines, i) : i \in DOMAIN lines}
    \cup {Append(lines, line) : line \in HandEdits}
    \cup {[lines EXCEPT ![i] = WithContact(@)] : i \in DOMAIN lines}

EditStarts ==
  /\ edits < MaxEdits /\ editing = Nil
  /\ \/ EditWhen = "anytime"
     \/ EditWhen = "idle" /\ up = "up" /\ \A c \in Clients : pc[c] = "idle"
  /\ edits' = edits + 1
  /\ UNCHANGED <<memory, locks, loader, tmpFile, clients, up, now, changes, crashes>>

\* The editor writes a new file and moves it into place.
EditFile ==
  /\ EditStarts /\ EditHow = "rename"
  /\ \E i \in Inodes, lines \in EditsOf(disk[usersFile].lines) :
       /\ FreshInode(i)
       /\ PutFile(i, lines)
       /\ usersFile' = i
  /\ UNCHANGED editing

\* The editor truncates the file ...
EditBegin ==
  /\ EditStarts /\ EditHow = "inplace"
  /\ editing' \in EditsOf(disk[usersFile].lines)
  /\ PutFile(usersFile, <<>>)
  /\ UNCHANGED usersFile

\* ... and writes it anew.
EditEnd ==
  /\ editing # Nil
  /\ PutFile(usersFile, editing)
  /\ editing' = Nil
  /\ UNCHANGED <<memory, locks, loader, usersFile, tmpFile, clients, world>>

-----------------------------------------------------------------------------
Init ==
  /\ db = EmptyDb /\ revision = 0 /\ fileTimestamp = 0
  /\ fileLock = Nil /\ userLock = Nil
  /\ newAuth = EmptyDb /\ newTimestamp = 0 /\ reading = 0 /\ readPos = 0
  /\ usersFile \in Inodes /\ \A i \in Inodes : usersFile <= i
  /\ disk = [i \in Inodes |-> IF i = usersFile THEN [lines |-> InitialFile, mtime |-> 1]
                              ELSE [lines |-> <<>>, mtime |-> 0]]
  /\ tmpFile = 0 /\ mtimes = 1 /\ editing = Nil
  /\ pc = [c \in Clients |-> "idle"]
  /\ my = [c \in Clients |-> NoLocals]
  /\ up = "down"
  /\ now \in Instants /\ \A t \in Instants : now <= t
  /\ changes = 0 /\ edits = 0 /\ crashes = 0

Reloading(c) == \/ ReloadNotNeeded(c) \/ ReloadFails(c) \/ ReloadOpen(c)
                \/ ReloadStat(c) \/ ReloadLine(c) \/ ReloadSwap(c)
LookingUp(c) == \/ FindUser(c) \/ AuthUser(c) \/ VerifyOpAllowed(c)
                \/ FindTarget(c)
Changing(c) == \/ AddUser(c) \/ NotModified(c) \/ ReplaceDelete(c)
               \/ ReplaceAdd(c) \/ DeleteUser(c)
Writing(c) == \/ AppendEntry(c) \/ AppendFails(c) \/ CreateTemp(c) \/ CreateFails(c)
              \/ WriteRow(c) \/ DiskFull(c) \/ RenameTemp(c) \/ Stamp(c)
Panicking(c) == UpdatePanics(c) \/ StatPanics(c)
Posting(c) == ReloadPosted(c) \/ Posted(c)

\* What goes on inside a call, up to its return: what the authenticator does,
\* and its waiting for the event bus.
Proceeding(c) == \/ Reloading(c) \/ LookingUp(c) \/ Changing(c) \/ Writing(c)
                 \/ Panicking(c) \/ Return(c)
Step(c) == Proceeding(c) \/ Posting(c)
Called(c) == CallLookup(c) \/ CallChange(c)
Process == Start \/ StartLine \/ Started
Surroundings == Crash \/ Tick \/ EditFile \/ EditBegin \/ EditEnd

Next == (\E c \in Clients : Called(c) \/ Step(c)) \/ Process \/ Surroundings

Spec == Init /\ [][Next]_vars

\* Goroutines are scheduled and the mutexes are fair.  Nothing is assumed of
\* the event bus: a Post may wait for ever.
FairSpec == Spec /\ \A c \in Clients : SF_vars(Proceeding(c))
=============================================================================
