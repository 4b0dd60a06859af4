----------------------- MODULE AuthenticatorProperties -----------------------
(***************************************************************************)
(* What makes the authenticator correct.                                   *)
(***************************************************************************)
EXTENDS Authenticator

Databases == [userList: Seq(Objects \cup {Nil}),
              user2index: [Addrs -> Nat],
              code2user: [Codes -> Objects \cup {Nil}]]
Steps == {"idle", "reload", "stat", "read", "announce", "lookup", "add", "modify",
          "replace", "post", "append", "create", "write", "stamp", "done"}
Phases == {"none", "find", "auth", "verify", "target"}
Results == {"none", "user", "nil", "ok", "refused", "AuthOk", "AuthFail",
            "AuthExpired", "AuthOkButOutsideTime"}

Locals == [call: Requests \cup {NoCall}, phase: Phases, seen: Nat,
           target: Objects \cup {Nil}, slot: Nat,
           fd: Inodes \cup {0}, dump: Seq(Objects \cup {Nil}),
           result: Results, asOf: Nat]

MemoryOK ==
  /\ db \in Databases /\ revision \in Nat /\ fileTimestamp \in Nat
  /\ fileLock \in Clients \cup {Nil} /\ userLock \in Clients \cup {Nil}
LoaderOK ==
  /\ newAuth \in Databases /\ newTimestamp \in Nat
  /\ reading \in Inodes \cup {0} /\ readPos \in Nat
FilesOK ==
  /\ disk \in [Inodes -> [lines: Seq(Lines), mtime: Nat]]
  /\ usersFile \in Inodes /\ tmpFile \in Inodes \cup {0}
  /\ mtimes \in Nat /\ editing \in Seq(Lines) \cup {Nil}
ClientsOK ==
  /\ pc \in [Clients -> Steps]
  /\ my \in [Clients -> Locals]
WorldOK ==
  /\ up \in {"down", "starting", "up"} /\ now \in Instants
  /\ changes \in 0..MaxChanges /\ edits \in 0..MaxEdits /\ crashes \in 0..MaxCrashes
\* A step finds the locals it needs.
LocalsOK(c) ==
  /\ pc[c] # "idle" => up = "up" /\ my[c].call \in Requests
  /\ my[c].phase # "none" => my[c].call # NoCall
  /\ pc[c] = "write" => my[c].fd \in Inodes
  /\ pc[c] \in {"replace", "append"} => my[c].target \in Objects
  /\ pc[c] = "post" /\ my[c].call.op = "add" => my[c].target \in Objects

\* The types of the authenticator's memory, locals and files; each client's
\* steps find the locals they need.
TypeOK == /\ MemoryOK /\ LoaderOK /\ FilesOK /\ ClientsOK /\ WorldOK
          /\ \A c \in Clients : LocalsOK(c)

IndexesAgree(d) ==
  LET listed == {i \in DOMAIN d.userList : d.userList[i] # Nil}
  IN  /\ \A i \in listed : d.user2index[d.userList[i].addr] = i
      /\ \A a \in Addrs : d.user2index[a] # 0 =>
           d.user2index[a] \in listed /\ d.userList[d.user2index[a]].addr = a
      /\ \A i \in listed : \A c \in d.userList[i].user.codes : d.code2user[c] = d.userList[i]
      /\ \A c \in Codes : d.code2user[c] # Nil =>
           /\ c \in d.code2user[c].user.codes
           /\ d.code2user[c] \in ObjectsOf(d)

\* userList, user2index and code2user describe the same users at every step,
\* also between the two halves of a replacement and while a file is read: no
\* code opens a door for somebody who is no longer in the list, no two users
\* share a code, and every listed user is found by each of their codes.
IndexConsistent == IndexesAgree(db) /\ IndexesAgree(newAuth)

\* The state is well-formed and its indexes describe the same users.
IndexInv == TypeOK /\ IndexConsistent

\* authenticator.go:336-338, "Doh' spot is actually not empty": the place a
\* replacement goes to is free until the replacement is there.
SpotEmpty ==
  \A c \in Clients : pc[c] = "replace" /\ my[c].slot # 0 =>
    db.userList[my[c].slot] = Nil

-----------------------------------------------------------------------------
(* Memory and file. *)

\* The users readDatabase makes of a file, line by line: a row with a code
\* that is taken is left out, and nothing is read from a garbled line on.
Taken(users, row) == \E i \in DOMAIN users :
                       users[i].codes \cap NewUserFromCSV(row).codes # {}
NextLoaded(before, line) ==
  IF before.ended \/ EndsReading(line) THEN [before EXCEPT !.ended = TRUE]
  ELSE IF ~IsUserRow(line) \/ Taken(before.users, line) THEN before
  ELSE [before EXCEPT !.users = Append(@, NewUserFromCSV(line))]
Loading(lines) ==
  LET load[n \in 0..Len(lines)] ==
        IF n = 0 THEN [users |-> <<>>, ended |-> FALSE]
        ELSE NextLoaded(load[n - 1], lines[n])
  IN  load
Loaded(lines) == Loading(lines)[Len(lines)].users
LoadedNow == Loaded(disk[usersFile].lines)

\* The users of a list, without its free places; those before a place.
UsersBefore(list) ==
  LET users[n \in 0..Len(list)] ==
        IF n = 0 THEN <<>>
        ELSE IF list[n] = Nil THEN users[n - 1] ELSE Append(users[n - 1], list[n].user)
  IN  users
UsersOf(list) == UsersBefore(list)[Len(list)]
Persisted(users) == [i \in DOMAIN users |-> Reloaded(users[i])]
InMemory == UsersOf(db.userList)

\* No change is on its way from memory to the file.
Settled == /\ up = "up"
           /\ \A c \in Clients :
                pc[c] \notin {"replace", "post", "append", "create", "write", "stamp"}

\* When the host believes that it has the current file (the timestamps agree)
\* and no change is being written, memory is what a restart would load: a
\* crash at that moment loses nothing, and an edit has been taken up.
Synced ==
  Settled /\ fileTimestamp = UsersMtime => Persisted(InMemory) = LoadedNow

\* A change that was answered with success is in the file when the answer is
\* given: the added or updated record is there, the deleted one is not.
AcknowledgedIsStored ==
  \A c \in Clients : my[c].result = "ok" =>
    LET users == {LoadedNow[i] : i \in DOMAIN LoadedNow}
    IN  IF my[c].call.op = "delete"
        THEN \A u \in users : my[c].call.code \notin u.codes
        ELSE Reloaded(my[c].target.user) \in users

\* A lookup never uses a list older than the file was when the lookup began,
\* unless the file could not be read then: somebody removed from the file
\* before touching the reader stays out.
LookupIsFresh ==
  \A c \in Clients : pc[c] = "lookup" => fileTimestamp >= my[c].asOf

\* What writeDatabase moves into place is the whole database, whatever a
\* crash has left behind in the temporary file.
\* (authenticator.go:454-455, "make sure it succeeds".)
RenamesWholeDump ==
  [][\A c \in Clients : RenameTemp(c) =>
       Loaded(disk[usersFile'].lines) = Persisted(InMemory)]_vars

\* "Atomic rename" (authenticator.go:461): nobody ever writes a dump into the
\* file that is in place.
FileIsComplete ==
  \A c \in Clients : pc[c] = "write" => my[c].fd # usersFile

-----------------------------------------------------------------------------
(* Changes. *)

\* authenticator.go:229-230: an update is only done "if nothing has changed
\* in the meantime": the user that was looked up is still the one listed.
UpdatesWhatWasSeen ==
  [][\A c \in Clients : ReplaceDelete(c) => my[c].target \in ObjectsOf(db)]_vars

\* authenticator.go:307: "Replace user if the revision of the system is still
\* the same as expected": the second half of a replacement does not fail.
ReplaceReplaces ==
  [][\A c \in Clients : ReplaceAdd(c) => pc'[c] = "post"]_vars

\* The list only changes on behalf of somebody who may change it: the code
\* that authorised a change still belongs, when the change is made, to a
\* user of a level that allows it.
ChangesAreAuthorised ==
  [][\A c \in Clients : AddUser(c) \/ ReplaceDelete(c) \/ DeleteUser(c) =>
       LET by == Found(my[c].call.auth)
       IN  by # Nil /\ IsOpAllowed(my[c].call.op, by.user.level)]_vars

\* If no Post to the event bus waits for ever, every call returns (or the
\* process dies under it): reloadIfChanged takes userLock with fileLock held
\* and posts with both, and nothing waits for them in a circle.
PostsReturn == \A c \in Clients : WF_vars(Posting(c))
CallsReturn == \A c \in Clients : (pc[c] # "idle") ~> (pc[c] = "idle")
CallsReturnIfPostsDo == PostsReturn => CallsReturn

-----------------------------------------------------------------------------
(* The authenticator implements the directory: while a replacement is half *)
(* done under userLock, the directory is already the new one.              *)

Replacing == {my[c].target.user : c \in {d \in Clients : pc[d] = "replace"}}
Directory == INSTANCE UserDirectory WITH
  Persisted <- Reloaded,
  dir <- {obj.user : obj \in ObjectsOf(db)} \cup Replacing,
  stored <- {LoadedNow[i] : i \in DOMAIN LoadedNow}

\* Memory and file change as the directory says, step by step.
ImplementsDirectory == Directory!Spec
==============================================================================
