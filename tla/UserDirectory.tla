---------------------------- MODULE UserDirectory ----------------------------
(***************************************************************************)
(* What the authenticator promises: a directory of users in memory, one    *)
(* user per code, and a stored copy of it.  A change of the directory is   *)
(* one user coming, going or being replaced.  The stored copy goes in one  *)
(* step from one complete directory to the next, and the directory is only *)
(* ever loaded whole.                                                      *)
(***************************************************************************)
EXTENDS Naturals

CONSTANT Persisted(_)     \* what a user is once stored and loaded again

VARIABLES dir,     \* the users in memory
          stored,  \* the users in the file
          edits    \* how often somebody has edited the file by hand
vars == <<dir, stored, edits>>

OneUserPerCode(users) ==
  \A u, v \in users : u.codes \cap v.codes # {} => u = v

\* A user comes, with codes nobody has.
Add == /\ \E u \in dir' \ dir : dir' = dir \cup {u}
       /\ OneUserPerCode(dir')

\* A user goes.
Remove == \E u \in dir : dir' = dir \ {u}

\* One user is changed; the others stay.
Replace == /\ \E u \in dir, v \in dir' : dir' = (dir \ {u}) \cup {v}
           /\ OneUserPerCode(dir')

\* The directory is loaded, whole.
Load == dir' = stored

\* The process dies.
Forget == dir' = {}

\* What happens to the directory in memory.
Change == /\ dir' # dir
          /\ Add \/ Remove \/ Replace \/ Load \/ Forget
          /\ UNCHANGED <<edits, stored>>

\* The directory is written out, whole.
Store == /\ UNCHANGED <<dir, edits>>
         /\ stored' = {Persisted(u) : u \in dir}

\* Somebody edits the file.
Edit == /\ edits' = edits + 1
        /\ UNCHANGED dir
        /\ OneUserPerCode(stored')

Init == dir = {} /\ OneUserPerCode(stored) /\ edits = 0
Next == Change \/ Edit \/ Store
Spec == Init /\ [][Next]_vars
==============================================================================
