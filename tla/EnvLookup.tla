----------------------------- MODULE EnvLookup -----------------------------
(***************************************************************************)
(* Env: finds the lock of the ENV: assign in the DOS DevInfo list, makes   *)
(* it the current directory, opens the variable's file and prints its      *)
(* first line.  The walk is under Forbid and so one step; the lock is used *)
(* after Permit, when other tasks may change or remove assigns, which      *)
(* frees the lock of the assign.                                           *)
(*                                                                         *)
(* A DevInfo entry is its name (ENV or not) and its lock; a file is a      *)
(* sequence of characters and line ends.                                   *)
(***************************************************************************)
EXTENDS Program, SequencesExt

CONSTANTS Locks, NoLock,
          MaxDosEntries,   \* MAX_DOS_ENTRIES
          ValueLen,        \* VALUE_LEN
          MaxEntries,      \* bound on the length of the DevInfo list
          MaxFile,         \* bound on the length of a variable's file
          MaxChanges       \* bound on the changes to assigns

ASSUME EnvAssumption ==
  /\ NoLock \notin Locks
  /\ {MaxDosEntries, ValueLen} \subseteq Nat \ {0}
  /\ {MaxEntries, MaxFile, MaxChanges} \subseteq Nat

VARIABLES entries,     \* the DevInfo list
          files,       \* the variable's file in the directory of each lock
          freed,       \* the locks that have been freed
          changes,
          lib, lock, cwd,
          fh,          \* what the open file holds, None without one
          value,       \* value[], up to its terminator
          snap,        \* history: the list at Forbid
          stale        \* history: a freed lock has been used

world == <<entries, files, freed, changes>>
envVars == <<world, pc, rc, tool, lib, lock, cwd, fh, value, snap, stale>>

Home == "the directory Env was started in"
Entries == [env : BOOLEAN, lock : Locks \cup {NoLock}]
File == [there : BOOLEAN, text : BoundedSeq({"a", "nl"}, MaxFile)]
None == [there |-> FALSE, text |-> <<>>]

\* Every entry has a lock of its own or none.
OwnLocks(s) ==
  \A i, j \in DOMAIN s : i # j /\ s[i].lock = s[j].lock => s[i].lock = NoLock

EnvTypeOK ==
  /\ tool = "Env"
  /\ entries \in Seq(Entries) /\ OwnLocks(entries)
  /\ files \in [Locks -> File]
  /\ freed \subseteq Locks /\ changes \in 0..MaxChanges
  /\ pc \in {"args", "open", "find", "enter", "openVar", "read", "done"}
  /\ lib \in BOOLEAN /\ lock \in Locks \cup {NoLock}
  /\ cwd \in Locks \cup {Home}
  /\ fh \in File
  /\ value \in Seq({"a"}) /\ Len(value) <= ValueLen - 1
  /\ rc \in {Running, 0, 5, 10}
  /\ snap \in Seq(Entries) /\ stale \in BOOLEAN

EnvInit ==
  /\ tool = "Env"
  /\ entries \in {s \in BoundedSeq(Entries, MaxEntries) : OwnLocks(s)}
  /\ files \in [Locks -> {f \in File : f.there \/ f = None}]
  /\ freed = {} /\ changes = 0 /\ pc = "args" /\ lib = FALSE /\ lock = NoLock /\ cwd = Home
  /\ fh = None /\ value = <<>> /\ rc = Running /\ snap = <<>> /\ stale = FALSE

-----------------------------------------------------------------------------
EnvArgs ==
  /\ pc = "args"
  /\ Goto("open") \/ Return(10)
  /\ UNCHANGED <<world, tool, lib, lock, cwd, fh, value, snap, stale>>

OpenDos ==
  /\ pc = "open"
  /\ \/ lib' = TRUE /\ Goto("find")
     \/ UNCHANGED lib /\ Return(5)
  /\ UNCHANGED <<world, tool, lock, cwd, fh, value, snap, stale>>

\* Without a root node dos.library stays open.
MissingRoot_KeepLibrary ==
  /\ pc = "find"
  /\ UNCHANGED lib /\ Return(5)
  /\ UNCHANGED <<world, tool, lock, cwd, fh, value, snap, stale>>

\* There is no DOS root node to search: only CloseLibrary is left to do.
MissingRoot ==
  /\ pc = "find"
  /\ lib' = FALSE /\ Return(5)
  /\ UNCHANGED <<world, tool, lock, cwd, fh, value, snap, stale>>

\* Any entry with a lock is taken.
IsEnv_AnyName(e) == e.lock # NoLock

IsEnv(e) == e.env /\ e.lock # NoLock

\* The loop of find_env_lock, which stops at the first of the entries it looks
\* for; Permit and CloseLibrary.
FindEnvLock ==
  /\ pc = "find"
  /\ LET visited == {i \in DOMAIN entries : i <= MaxDosEntries /\ IsEnv(entries[i])}
     IN  lock' = IF visited = {} THEN NoLock ELSE entries[Min(visited)].lock
  /\ snap' = entries
  /\ lib' = FALSE
  /\ IF lock' = NoLock THEN Return(5) ELSE Goto("enter")
  /\ UNCHANGED <<world, tool, cwd, fh, value, stale>>

\* CurrentDir(env_lock).
EnterDir ==
  /\ pc = "enter"
  /\ cwd' = lock /\ stale' = (stale \/ lock \in freed)
  /\ Goto("openVar")
  /\ UNCHANGED <<world, tool, lib, lock, fh, value, snap>>

\* What Open may find: through a freed lock, anything.
Openable ==
  IF cwd \notin freed THEN {files[cwd], None} ELSE {files[l] : l \in Locks} \cup {None}

\* A failed Open returns before the old directory is back.
OpenVar_LeaveDir ==
  /\ pc = "openVar"
  /\ stale' = (stale \/ lock \in freed)
  /\ fh' \in Openable
  /\ IF fh'.there THEN cwd' = Home /\ Goto("read") ELSE UNCHANGED cwd /\ Return(5)
  /\ UNCHANGED <<world, tool, lib, lock, value, snap>>

\* Open, which may fail, and CurrentDir(old_dir).
OpenVar ==
  /\ pc = "openVar"
  /\ stale' = (stale \/ lock \in freed)
  /\ fh' \in Openable
  /\ cwd' = Home
  /\ IF fh'.there THEN Goto("read") ELSE Return(5)
  /\ UNCHANGED <<world, tool, lib, lock, value, snap>>

\* The line end is not looked for.
FirstLine_NoCut(s) == s

\* Up to the first line end; without one, all of it.
FirstLine(s) ==
  LET ends == {i \in DOMAIN s : s[i] = "nl"}
  IN  IF ends = {} THEN s ELSE SubSeq(s, 1, Min(ends) - 1)

ReadUpTo(n) ==
  /\ pc = "read"
  /\ fh' = None
  /\ \/ value' = FirstLine(SubSeq(fh.text, 1, Min({n, Len(fh.text)}))) /\ Return(0)
     \/ UNCHANGED value /\ Return(5)
  /\ UNCHANGED <<world, tool, lib, lock, cwd, snap, stale>>

\* No room is left for the terminator.
ReadVar_NoRoom == ReadUpTo(ValueLen)

\* Only half of the buffer is read.
ReadVar_Short == ReadUpTo(ValueLen - 2)

\* Read of VALUE_LEN - 1 bytes, or an error; Close; the line is printed.
ReadVar == ReadUpTo(ValueLen - 1)

-----------------------------------------------------------------------------
\* Another task's Assign command (external): an assign is removed, or gets
\* another lock; its old lock is freed.
ChangeAssign(i) ==
  /\ pc # "done" /\ changes < MaxChanges /\ i \in DOMAIN entries
  /\ changes' = changes + 1
  /\ freed' = freed \cup ({entries[i].lock} \ {NoLock})
  /\ \/ entries' = RemoveAt(entries, i)
     \/ \E l \in Locks \ (freed \cup {entries[j].lock : j \in DOMAIN entries}) :
          entries' = [entries EXCEPT ![i].lock = l]
  /\ UNCHANGED <<files, pc, tool, lib, lock, cwd, fh, value, rc, snap, stale>>

Env == EnvArgs \/ OpenDos \/ MissingRoot \/ FindEnvLock \/ EnterDir \/ OpenVar \/ ReadVar

EnvNext == Env \/ \E i \in 1..MaxEntries : ChangeAssign(i)

EnvSpec == EnvInit /\ [][EnvNext]_envVars

-----------------------------------------------------------------------------
(***************************************************************************)
(* Properties.                                                             *)
(***************************************************************************)
\* Every ending has closed dos.library and the file, and Env's process is in
\* the directory it was started in.
NothingHeldAtExit == pc = "done" => ~lib /\ fh = None /\ cwd = Home

\* "name=value": as long as its lock stayed valid, Env prints the first line
\* of the variable in an ENV: directory: it has no line end in it and it stops
\* only at one, at the end of the file or where the buffer, less its
\* terminator, is full.
ValueIsFirstLine ==
  pc = "done" /\ rc = 0 /\ ~stale =>
    LET text == files[lock].text
    IN  /\ \E i \in DOMAIN snap : snap[i].env /\ snap[i].lock = lock
        /\ IsPrefix(value, text) /\ Len(value) <= ValueLen - 1
        /\ \A k \in DOMAIN value : value[k] # "nl"
        /\ Len(value) < Min({Len(text), ValueLen - 1}) => text[Len(value) + 1] = "nl"
=============================================================================
