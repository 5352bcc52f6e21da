----------------------------- MODULE FileActions -----------------------------
(***************************************************************************)
(* fs.write, fs.append, fs.delete, fs.copy and fs.move of internal/actions *)
(* run by steps of the same level, a system call at a time, and tried      *)
(* again by the retry policy.  None of them looks at its context.  A       *)
(* directory holds the files 1..NumFiles, a file's content is a sequence   *)
(* of blocks, and a file that was opened stays readable once its name is   *)
(* gone.  fs.read, fs.list and fs.stat change nothing.                     *)
(***************************************************************************)
EXTENDS Integers, Sequences, FiniteSets

CONSTANTS FileSteps, \* steps that run at the same time
          Dirs,      \* directories
          NumFiles,  \* files of a directory
          Requests,  \* [FileSteps -> what the step may ask for], of the form
                     \* [op, from, to, file], file 0 for the directory, from
                     \* and to differ only for copy and move
          Device,    \* [Dirs -> the file system a directory is on]
          MaxTries   \* bound: [FileSteps -> attempts of the step]

NoFile == 0
Hole == "hole"
Ops == {"write", "append", "delete", "copy", "move"}

ASSUME FileActionsAssumption ==
  /\ NumFiles \in Nat \ {0} /\ MaxTries \in [FileSteps -> Nat \ {0}]
  /\ Requests \in [FileSteps -> SUBSET [op : Ops, from : Dirs, to : Dirs,
                                        file : 0..NumFiles]]
  /\ \A s \in FileSteps : \A r \in Requests[s] :
       /\ r.op \in {"copy", "move"} \/ r.from = r.to
       /\ r.op \in {"write", "append"} => r.file # NoFile

Names == 1..NumFiles

VARIABLES
  dirs,    \* directories that exist
  names,   \* [Dirs -> [Names -> the file, or None]]
  content, \* blocks of each file
  step     \* what each step does

fileVars == <<dirs, names, content, step>>

None == <<>>
Original(d, n) == <<"init", d, n>>
Tries == UNION {1..MaxTries[s] : s \in FileSteps}

\* A file is named after who made it, once for each name of an attempt.
Files == {Original(d, n) : d \in Dirs, n \in Names}
           \cup (FileSteps \X Tries \X Dirs \X Names)

Asked == UNION {Requests[s] : s \in FileSteps}
IdleFileStep == [at |-> "idle", req |-> CHOOSE r \in Asked : TRUE, try |-> 0,
                 todo |-> {}, cur |-> NoFile, src |-> None, dst |-> None,
                 pos |-> 0]

\* Files of two blocks; a directory that a copy or a move makes is new or holds
\* files of the same names.
FileInit ==
  /\ dirs \in {D \in SUBSET Dirs : \A r \in Asked : r.from \in D}
  /\ names = [d \in Dirs |-> [n \in Names |->
                IF d \in dirs THEN Original(d, n) ELSE None]]
  /\ content = [f \in Files |-> IF f[1] = "init" THEN <<f, f>> ELSE <<>>]
  /\ step = [s \in FileSteps |-> IdleFileStep]

Ending(s, at) == step' = [step EXCEPT ![s] = [@ EXCEPT !.at = at, !.todo = {}]]
Present(d) == {n \in Names : names[d][n] # None}
At(s, label) == step[s].at = label

\* A write at a position of an open file: what was cut off meanwhile is a hole.
WriteAt(c, pos, b) ==
  [i \in 1..(IF Len(c) > pos THEN Len(c) ELSE pos + 1) |->
     IF i = pos + 1 THEN b ELSE IF i <= Len(c) THEN c[i] ELSE Hole]

\* Opening for writing: the file of that name, or a new one.
Opened(s, d, n) ==
  IF names[d][n] = None THEN <<s, step[s].try, d, n>> ELSE names[d][n]

-----------------------------------------------------------------------------

Begin(s) ==
  /\ \/ At(s, "idle")
     \/ At(s, "failed") /\ step[s].try < MaxTries[s]
  /\ \E r \in Requests[s] :
       /\ At(s, "failed") => r = step[s].req
       /\ step' = [step EXCEPT ![s] = [IdleFileStep EXCEPT
                     !.at = r.op, !.req = r, !.try = step[s].try + 1]]
  /\ UNCHANGED <<dirs, names, content>>

\* An error of any system call, reported as the step's.
Fails(s) ==
  /\ step[s].at \notin {"idle", "failed", "done"}
  /\ Ending(s, "failed")
  /\ UNCHANGED <<dirs, names, content>>

Missing(r) ==
  r.from \notin dirs \/ (r.file # NoFile /\ names[r.from][r.file] = None)

\* os.Stat of the source; nothing looks for what is to be deleted, and a recursive
\* delete of what is not there succeeds.
NotThere(s) ==
  /\ step[s].at \in {"copy", "move", "delete"} /\ Missing(step[s].req)
  /\ \E end \in {"failed", "done"} :
       (end = "done" => At(s, "delete")) /\ Ending(s, end)
  /\ UNCHANGED <<dirs, names, content>>

\* os.Rename: within a file system, over a file, or to a directory that is not
\* there or is empty.
Renames(r) ==
  /\ Device[r.from] = Device[r.to]
  /\ r.file # NoFile \/ Present(r.to) = {} \/ r.from = r.to

Rename(s) ==
  LET r == step[s].req IN
  /\ At(s, "move") /\ ~Missing(r) /\ Renames(r)
  /\ IF r.from = r.to
     THEN UNCHANGED <<dirs, names>>
     ELSE IF r.file # NoFile
     THEN /\ r.to \in dirs
          /\ names' = [names EXCEPT ![r.to][r.file] = names[r.from][r.file],
                                    ![r.from][r.file] = None]
          /\ UNCHANGED dirs
     ELSE /\ names' = [names EXCEPT ![r.to] = names[r.from],
                                    ![r.from] = [n \in Names |-> None]]
          /\ dirs' = (dirs \ {r.from}) \cup {r.to}
  /\ Ending(s, "done")
  /\ UNCHANGED content

\* copyDir makes the directory and lists the source, copyFile has one file.
\* A move comes here when the rename fails, for whatever reason; that of a path
\* to itself does not.
StartCopy(s) ==
  LET r == step[s].req IN
  /\ At(s, "copy") \/ (At(s, "move") /\ ~(Renames(r) /\ r.from = r.to))
  /\ ~Missing(r) /\ (r.file # NoFile => r.to \in dirs)
  /\ dirs' = dirs \cup {r.to}
  /\ step' = [step EXCEPT ![s] = [@ EXCEPT !.at = "open",
                !.todo = IF r.file # NoFile THEN {r.file} ELSE Present(r.from)]]
  /\ UNCHANGED <<names, content>>

\* copyFile: open the source; open the target and cut it off.
OpenCopy(s) ==
  LET r == step[s].req IN
  \E n \in step[s].todo :
    /\ At(s, "open") /\ \A m \in step[s].todo : n <= m
    /\ names[r.from][n] # None /\ r.to \in dirs
    /\ LET f == Opened(s, r.to, n) IN
         /\ names' = [names EXCEPT ![r.to][n] = f]
         /\ content' = [content EXCEPT ![f] = <<>>]
         /\ step' = [step EXCEPT ![s] = [@ EXCEPT !.at = "blocks", !.cur = n,
                       !.src = names[r.from][n], !.dst = f, !.pos = 0]]
    /\ UNCHANGED dirs

\* The list is old: the file or the target is gone.
OpenFails(s) ==
  LET r == step[s].req IN
  \E n \in step[s].todo :
    /\ At(s, "open") /\ \A m \in step[s].todo : n <= m
    /\ names[r.from][n] = None \/ r.to \notin dirs
    /\ Ending(s, "failed")
    /\ UNCHANGED <<dirs, names, content>>

CopyBlock(s) ==
  /\ At(s, "blocks") /\ step[s].pos < Len(content[step[s].src])
  /\ content' = [content EXCEPT ![step[s].dst] =
       WriteAt(@, step[s].pos, content[step[s].src][step[s].pos + 1])]
  /\ step' = [step EXCEPT ![s].pos = @ + 1]
  /\ UNCHANGED <<dirs, names>>

\* Faulty: an error that stops the copy of a file is taken for its end.
EndAnyway(s) ==
  /\ At(s, "blocks")
  /\ step' = [step EXCEPT ![s] = [@ EXCEPT !.at = "open",
                !.todo = step[s].todo \ {step[s].cur}]]
  /\ UNCHANGED <<dirs, names, content>>

CopiedFile(s) ==
  /\ At(s, "blocks") /\ step[s].pos >= Len(content[step[s].src])
  /\ step' = [step EXCEPT ![s] = [@ EXCEPT !.at = "open",
                !.todo = step[s].todo \ {step[s].cur}]]
  /\ UNCHANGED <<dirs, names, content>>

\* Everything is copied: a copy is done, a move removes the source.
Copied(s) ==
  LET r == step[s].req IN
  /\ At(s, "open") /\ step[s].todo = {}
  /\ step' = [step EXCEPT ![s].at = IF r.op = "copy" THEN "done" ELSE "remove"]
  /\ UNCHANGED <<dirs, names, content>>

\* os.RemoveAll, a name at a time, or os.Remove.
Removable(s) ==
  LET r == step[s].req IN
  IF r.file # NoFile THEN {r.file} \cap Present(r.from) ELSE Present(r.from)

StartDelete(s) ==
  /\ At(s, "delete") /\ ~Missing(step[s].req)
  /\ step' = [step EXCEPT ![s].at = "remove"]
  /\ UNCHANGED <<dirs, names, content>>

RemoveName(s) ==
  /\ At(s, "remove")
  /\ \E n \in Removable(s) : names' = [names EXCEPT ![step[s].req.from][n] = None]
  /\ UNCHANGED <<dirs, content, step>>

Removed(s) ==
  /\ At(s, "remove") /\ Removable(s) = {}
  /\ dirs' = IF step[s].req.file = NoFile THEN dirs \ {step[s].req.from} ELSE dirs
  /\ Ending(s, "done")
  /\ UNCHANGED <<names, content>>

-----------------------------------------------------------------------------

\* os.WriteFile cuts the file off, os.OpenFile with O_APPEND does not.
OpenWrite(s) ==
  LET r == step[s].req
      f == Opened(s, r.to, r.file)
  IN
  /\ step[s].at \in {"write", "append"} /\ r.to \in dirs
  /\ names' = [names EXCEPT ![r.to][r.file] = f]
  /\ content' = IF r.op = "write" THEN [content EXCEPT ![f] = <<>>] ELSE content
  /\ step' = [step EXCEPT ![s] = [@ EXCEPT !.at = "put", !.dst = f,
                !.pos = IF r.op = "write" THEN 0 ELSE Len(content[f])]]
  /\ UNCHANGED dirs

\* One block is put, by an append wherever the file ends by now.
PutBlock(s) ==
  LET f == step[s].dst IN
  /\ At(s, "put")
  /\ content' = [content EXCEPT ![f] =
       IF step[s].req.op = "append" THEN Append(@, s) ELSE WriteAt(@, step[s].pos, s)]
  /\ Ending(s, "done")
  /\ UNCHANGED <<dirs, names>>

FileNext ==
  \E s \in FileSteps :
    \/ Begin(s) \/ Fails(s) \/ NotThere(s)
    \/ Rename(s) \/ StartCopy(s) \/ OpenCopy(s) \/ OpenFails(s)
    \/ CopyBlock(s) \/ CopiedFile(s) \/ Copied(s)
    \/ StartDelete(s) \/ RemoveName(s) \/ Removed(s)
    \/ OpenWrite(s) \/ PutBlock(s)

FileSpec == FileInit /\ [][FileNext]_fileVars

-----------------------------------------------------------------------------

Whole(d, n, c) == names[d][n] # None /\ content[names[d][n]] = c
Changes(op) == \E s \in FileSteps : step[s].try > 0 /\ step[s].req.op = op

\* No other step has changed a file yet.
Alone(s) == {t \in FileSteps : step[t].try > 0} = {s}

\* The source's file n, as it was, is in directory d.
HasMoved(d, n, r) == Whole(d, n, <<Original(r.from, n), Original(r.from, n)>>)

\* Whatever attempt of a move fails and wherever it stops, each file of the
\* source is whole under its old name or under its new one, as long as nothing
\* else changes files (fs.go:913-937): the source goes only when the copy of
\* all of it is complete.
MoveLosesNothing ==
  \A s \in FileSteps :
    LET r == step[s].req IN
    Alone(s) /\ r.op = "move" =>
      \A n \in Names : \E d \in {r.from, r.to} : HasMoved(d, n, r)

\* A move, or a copy to a new location (fs.go:704), that answers has put all of
\* the source's blocks in place, also after attempts that failed half way
\* (fs.go:754-835).
DoneIsWhole ==
  \A s \in FileSteps :
    LET r == step[s].req IN
    Alone(s) /\ At(s, "done") /\ (r.op = "move" \/ (r.op = "copy" /\ r.from # r.to)) =>
      \A n \in IF r.file = NoFile THEN Names ELSE {r.file} : HasMoved(r.to, n, r)

\* Appends of concurrent steps to one file are all in it once they have
\* answered, unless something else changed the file (fs.go:440-451).
AppendsSurvive ==
  ~Changes("write") /\ ~Changes("delete") /\ ~Changes("copy") /\ ~Changes("move") =>
    \A s \in FileSteps :
      At(s, "done") =>
        \E i \in 1..Len(content[step[s].dst]) : content[step[s].dst][i] = s

\* The file actions lose nothing they were not asked to remove.
NothingIsLost == MoveLosesNothing /\ DoneIsWhole /\ AppendsSurvive
=============================================================================
