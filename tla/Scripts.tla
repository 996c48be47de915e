------------------------------- MODULE Scripts -------------------------------
(***************************************************************************)
(* What the command-line scripts of the repository have in common: each is *)
(* a process with its own variables that reads and writes files of the     *)
(* current directory, makes temporary files and directories, waits for     *)
(* other programs and ends, normally or with an exception.  Python's       *)
(* unwinding runs the `finally` of the temporary file and leaves the       *)
(* `with` of the temporary directory that the process is in.               *)
(***************************************************************************)
EXTENDS Naturals, TLC

CONSTANTS
  Procs,      \* the processes
  TempDirs,   \* names tempfile can choose from for a directory,
  TempFiles,  \* and for a file with suffix .bin
  None        \* no value, no file

TempNames == TempDirs \cup TempFiles

ASSUME ScriptsAssumption == None \notin TempNames

VARIABLES
  request,  \* the command line and environment of each process
  at,       \* the statement it executes next
  local,    \* its local variables, by name
  raised,   \* the exception it is leaving with, or "none"
  td,       \* the temporary directory it is in, or None
  bin,      \* the temporary file it has to remove, or None
  dir,      \* the files of the current directory
  tmp       \* the temporary files and directories that exist, by name

scriptVars == <<request, at, local, raised, td, bin, dir, tmp>>

At(p, here) == at[p] = here

Goto(p, there) == at' = [at EXCEPT ![p] = there] /\ UNCHANGED raised

\* A mutant: the temporary file has no `finally`.
UnwindDir(p) == IF td[p] # None THEN "leave" ELSE "ended"

Unwind(p) ==
  IF bin[p] # None THEN "unlink" ELSE IF td[p] # None THEN "leave" ELSE "ended"

Raise(p, exception) ==
  /\ raised' = [raised EXCEPT ![p] = exception]
  /\ at' = [at EXCEPT ![p] = Unwind(p)]

\* Assignments to local variables, a record of the new values.
Assign(p, values) ==
  local' = [local EXCEPT ![p] =
              [v \in DOMAIN values \cup DOMAIN local[p] |->
                 IF v \in DOMAIN values THEN values[v] ELSE local[p][v]]]

\* A temporary file or directory is made, or written, and removed.
Free(n) == n \notin DOMAIN tmp

Put(n, content) ==
  tmp' = [m \in DOMAIN tmp \cup {n} |-> IF m = n THEN content ELSE tmp[m]]

Erase(n) == tmp' = [m \in DOMAIN tmp \ {n} |-> tmp[m]]

Write(name, content) == dir' = [dir EXCEPT ![name] = content]

\* Entering `with tempfile.TemporaryDirectory()`.
EnterTempDir(p, content) ==
  \E n \in TempDirs :
    /\ Free(n)
    /\ td' = [td EXCEPT ![p] = n]
    /\ Put(n, content)

\* Leaving it, normally or with an exception.
LeaveTempDir(p, next) ==
  /\ At(p, "leave")
  /\ Erase(td[p])
  /\ td' = [td EXCEPT ![p] = None]
  /\ Goto(p, IF raised[p] = "none" THEN next ELSE "ended")
  /\ UNCHANGED <<request, local, bin, dir>>

\* Ctrl-C, or an error of the connection, while the process waits for another program
\* or for an answer.
Interrupted(p, waits) ==
  /\ at[p] \in waits
  /\ Raise(p, "KeyboardInterrupt")
  /\ UNCHANGED <<request, local, td, bin, dir, tmp>>

Running(p) == at[p] # "ended"

Done(p) == At(p, "ended") /\ raised[p] = "none"

----------------------------------------------------------------------------

\* Whatever is left in the temporary directory belongs to a process that still
\* runs and will remove it, also when a compiler, objcopy or git fails, or the user
\* interrupts them (rv32i_compile.py:94-108 and 162, benchgen.py:68).
NothingLeftBehind ==
  \A n \in TempNames : ~ Free(n) => \E p \in Procs : Running(p) /\ n \in {td[p], bin[p]}

==============================================================================
