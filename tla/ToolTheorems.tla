----------------------------- MODULE ToolTheorems ----------------------------
(***************************************************************************)
(* Proofs about the scripts, for any number of processes, temporary names, *)
(* command lines and files.                                                *)
(***************************************************************************)
EXTENDS Tools, FiniteSetTheorems, WellFoundedInduction, TLAPS

----------------------------------------------------------------------------
(* Whose the temporary files and directories are.                          *)

Shape ==
  /\ at = [p \in Procs |-> at[p]]
  /\ local = [p \in Procs |-> local[p]]
  /\ raised = [p \in Procs |-> raised[p]]
  /\ td \in [Procs -> TempNames \cup {None}]
  /\ bin \in [Procs -> TempNames \cup {None}]
  /\ DOMAIN tmp \subseteq TempNames /\ tmp = [n \in DOMAIN tmp |-> tmp[n]]

Owned(p) == {td[p], bin[p]} \ {None}

\* The statements at which a process may own a temporary directory, and a file.
DirStatements == {"sources", "gcc", "tempfile", "objcopy", "read", "unlink", "unpack",
                  "leave", "clone", "fetch"}

FileStatements == {"objcopy", "read", "unlink"}

OwnedWhere ==
  \A p \in Procs :
    /\ td[p] # None <=> at[p] \in DirStatements
    /\ bin[p] # None <=> at[p] \in FileStatements
    /\ td[p] # None => td[p] # bin[p]

OwnedExists == \A p \in Procs : Owned(p) \subseteq DOMAIN tmp

OwnedAlone == \A p, q \in Procs : p # q => Owned(p) \cap Owned(q) = {}

Ownership == Shape /\ OwnedWhere /\ OwnedExists /\ OwnedAlone /\ NothingLeftBehind

\* Before any process has run a statement, the temporary directory is empty.
LEMMA OwnershipInit == Init => Ownership
  <1> SUFFICES ASSUME Init PROVE Ownership
      OBVIOUS
  <1>1. Shape /\ DOMAIN tmp = {}
      BY DEF Init, Shape
  <1>2. OwnedWhere
    <2>1. ASSUME NEW p \in Procs
          PROVE  at[p] \in {"source", "args", "dut"} /\ td[p] = None /\ bin[p] = None
      <3>1. request[p].script \in {"rv32i_compile.py", "gen_tb.py", "benchgen.py"}
          BY ToolsAssumption DEF Init, FirstStatement
      <3> QED
          BY <3>1 DEF Init, FirstStatement
    <2> QED
        BY <2>1 DEF OwnedWhere, DirStatements, FileStatements
  <1>3. OwnedExists /\ OwnedAlone
      BY DEF Init, OwnedExists, OwnedAlone, Owned
  <1>4. NothingLeftBehind
      BY <1>1 DEF NothingLeftBehind, Free
  <1> QED
      BY <1>1, <1>2, <1>3, <1>4 DEF Ownership

\* A step of process p to statement x, after which it owns t and b, and in which it
\* makes, writes and removes no other temporary file or directory.
Moves(p, x, t, b) ==
  /\ request' = request
  /\ at' = [at EXCEPT ![p] = x]
  /\ local' = [local EXCEPT ![p] = local'[p]]
  /\ raised' = [raised EXCEPT ![p] = raised'[p]]
  /\ td' = [td EXCEPT ![p] = t]
  /\ bin' = [bin EXCEPT ![p] = b]
  /\ tmp' = [n \in (DOMAIN tmp \ Owned(p)) \cup ({t, b} \ {None}) |-> tmp'[n]]
  /\ \A n \in DOMAIN tmp \ Owned(p) : tmp'[n] = tmp[n]
  /\ \A n \in {t, b} \ {None} : n \in Owned(p) \/ Free(n)

\* Where it may go.
Allowed(x, t, b) ==
  /\ t \in TempNames \cup {None} /\ b \in TempNames \cup {None}
  /\ t # None <=> x \in DirStatements
  /\ b # None <=> x \in FileStatements
  /\ t # None => t # b

\* What such a step leaves to the other processes.
OnlyOwn(p) ==
  /\ request' = request
  /\ \A q \in Procs \ {p} :
       /\ at'[q] = at[q] /\ local'[q] = local[q] /\ raised'[q] = raised[q]
       /\ td'[q] = td[q] /\ bin'[q] = bin[q]
       /\ \A n \in Owned(q) : tmp'[n] = tmp[n]

LEMMA MoveKeepsOwnership ==
  ASSUME Ownership, NEW p \in Procs, NEW x, NEW t, NEW b, Moves(p, x, t, b), Allowed(x, t, b)
  PROVE  Ownership' /\ OnlyOwn(p)
  <1>1. Shape'
      BY DEF Ownership, Shape, Moves, Allowed
  <1>2. ASSUME NEW q \in Procs
        PROVE  /\ at'[q] = IF q = p THEN x ELSE at[q]
               /\ td'[q] = IF q = p THEN t ELSE td[q]
               /\ bin'[q] = IF q = p THEN b ELSE bin[q]
               /\ q # p => local'[q] = local[q] /\ raised'[q] = raised[q]
      BY DEF Ownership, Shape, Moves
  <1>3. OwnedWhere'
      BY <1>2 DEF Ownership, OwnedWhere, Allowed
  <1>4. ASSUME NEW q \in Procs, q # p
        PROVE  /\ Owned(q)' = Owned(q)
               /\ Owned(q) \subseteq DOMAIN tmp \ Owned(p)
               /\ Owned(q) \cap ({t, b} \ {None}) = {}
      BY <1>2, <1>4 DEF Ownership, Owned, OwnedAlone, OwnedExists, Moves, Free
  <1>5. Owned(p)' = {t, b} \ {None}
      BY <1>2 DEF Owned
  <1>6. DOMAIN tmp' = (DOMAIN tmp \ Owned(p)) \cup ({t, b} \ {None})
      BY DEF Moves
  <1>7. OwnedExists'
      BY <1>4, <1>5, <1>6 DEF OwnedExists
  <1>8. OwnedAlone'
      BY <1>4, <1>5 DEF OwnedAlone, Ownership
  <1>9. ASSUME NEW n \in TempNames, n \in DOMAIN tmp'
        PROVE  \E q \in Procs : at'[q] # "ended" /\ n \in {td'[q], bin'[q]}
    <2>1. CASE n \in {t, b} \ {None}
      <3>1. x # "ended"
          BY <2>1 DEF Allowed, DirStatements, FileStatements
      <3> QED
          BY <1>2, <2>1, <3>1
    <2>2. CASE n \in DOMAIN tmp \ Owned(p)
      <3>1. PICK q \in Procs : at[q] # "ended" /\ n \in {td[q], bin[q]}
          BY <2>2 DEF Ownership, NothingLeftBehind, Free, Running
      <3>2. n # None
          BY ScriptsAssumption
      <3>3. q # p
          BY <2>2, <3>1, <3>2 DEF Owned
      <3> QED
          BY <1>2, <3>1, <3>3
    <2> QED
        BY <1>6, <1>9, <2>1, <2>2
  <1>10. NothingLeftBehind'
      BY <1>9 DEF NothingLeftBehind, Free, Running
  <1>11. OnlyOwn(p)
      BY <1>2, <1>4 DEF OnlyOwn, Moves
  <1> QED
      BY <1>1, <1>3, <1>7, <1>8, <1>10, <1>11 DEF Ownership

----------------------------------------------------------------------------
(* The steps of a script are such steps.                                   *)

\* A step of p in this sense.
OwnStep(p) == \E x, t, b : Moves(p, x, t, b) /\ Allowed(x, t, b)

\* What a process owns, by the statement it is at.
LEMMA OwnedHere ==
  ASSUME Ownership, NEW p \in Procs
  PROVE  /\ at[p] \in DirStatements <=> td[p] # None
         /\ at[p] \in FileStatements <=> bin[p] # None
         /\ td[p] \in TempNames \cup {None} /\ bin[p] \in TempNames \cup {None}
         /\ td[p] # None => td[p] # bin[p]
  BY DEF Ownership, Shape, OwnedWhere

\* The variables of one process, unchanged or assigned to.
LocalStep(p) ==
  /\ request' = request
  /\ raised' = raised \/ \E e : raised' = [raised EXCEPT ![p] = e]
  /\ local' = local \/ \E l : local' = [local EXCEPT ![p] = l]

LEMMA LocalStepMoves ==
  ASSUME Ownership, NEW p \in Procs, LocalStep(p)
  PROVE  /\ request' = request
         /\ local' = [local EXCEPT ![p] = local'[p]]
         /\ raised' = [raised EXCEPT ![p] = raised'[p]]
  BY DEF Ownership, Shape, LocalStep

\* A step that leaves the temporary directory and its owners alone.
LEMMA QuietStep ==
  ASSUME Ownership, NEW p \in Procs, NEW x, LocalStep(p), at' = [at EXCEPT ![p] = x],
         UNCHANGED <<td, bin, tmp>>,
         at[p] \in DirStatements <=> x \in DirStatements,
         at[p] \in FileStatements <=> x \in FileStatements
  PROVE  OwnStep(p)
  <1>1. td' = [td EXCEPT ![p] = td[p]] /\ bin' = [bin EXCEPT ![p] = bin[p]]
      BY DEF Ownership, Shape
  <1>2. Allowed(x, td[p], bin[p])
      BY OwnedHere DEF Allowed
  <1>3. tmp' = [n \in (DOMAIN tmp \ Owned(p)) \cup ({td[p], bin[p]} \ {None}) |-> tmp'[n]]
    <2>1. (DOMAIN tmp \ Owned(p)) \cup ({td[p], bin[p]} \ {None}) = DOMAIN tmp
        BY DEF Ownership, OwnedExists, Owned
    <2> QED
        BY <2>1 DEF Ownership, Shape
  <1>4. /\ \A n \in DOMAIN tmp \ Owned(p) : tmp'[n] = tmp[n]
        /\ \A n \in {td[p], bin[p]} \ {None} : n \in Owned(p)
      BY DEF Owned
  <1>5. /\ request' = request
        /\ at' = [at EXCEPT ![p] = x]
        /\ local' = [local EXCEPT ![p] = local'[p]]
        /\ raised' = [raised EXCEPT ![p] = raised'[p]]
      BY LocalStepMoves
  <1>6. Moves(p, x, td[p], bin[p])
      BY ONLY <1>1, <1>3, <1>4, <1>5 DEF Moves
  <1> QED
      BY <1>2, <1>6 DEF OwnStep

\* A step that fills what the process owns.
LEMMA FillStep ==
  ASSUME Ownership, NEW p \in Procs, NEW x, LocalStep(p), at' = [at EXCEPT ![p] = x],
         UNCHANGED <<td, bin>>, NEW n \in {td[p], bin[p]}, n # None,
         NEW content, Put(n, content),
         at[p] \in DirStatements <=> x \in DirStatements,
         at[p] \in FileStatements <=> x \in FileStatements
  PROVE  OwnStep(p)
  <1>1. td' = [td EXCEPT ![p] = td[p]] /\ bin' = [bin EXCEPT ![p] = bin[p]]
      BY DEF Ownership, Shape
  <1>2. Allowed(x, td[p], bin[p])
      BY OwnedHere DEF Allowed
  <1>3. n \in Owned(p) /\ n \in DOMAIN tmp
      BY DEF Ownership, OwnedExists, Owned
  <1>4. tmp' = [m \in (DOMAIN tmp \ Owned(p)) \cup ({td[p], bin[p]} \ {None}) |-> tmp'[m]]
    <2>1. (DOMAIN tmp \ Owned(p)) \cup ({td[p], bin[p]} \ {None}) = DOMAIN tmp \cup {n}
        BY <1>3 DEF Ownership, OwnedExists, Owned
    <2> QED
        BY <2>1 DEF Put
  <1>5. \A m \in DOMAIN tmp \ Owned(p) : tmp'[m] = tmp[m]
      BY <1>3 DEF Put
  <1>6. Moves(p, x, td[p], bin[p])
      BY <1>1, <1>4, <1>5, LocalStepMoves DEF Moves, Owned
  <1> QED
      BY <1>2, <1>6 DEF OwnStep

\* An exception goes where the unwinding takes it.
LEMMA RaiseStep ==
  ASSUME Ownership, NEW p \in Procs, NEW exception, Raise(p, exception),
         UNCHANGED <<request, local, td, bin, tmp>>
  PROVE  OwnStep(p)
  <1>1. /\ at' = [at EXCEPT ![p] = Unwind(p)]
        /\ at[p] \in DirStatements <=> Unwind(p) \in DirStatements
        /\ at[p] \in FileStatements <=> Unwind(p) \in FileStatements
      BY OwnedHere DEF Raise, Unwind, DirStatements, FileStatements
  <1>2. LocalStep(p)
      BY DEF LocalStep, Raise
  <1> QED
      BY <1>1, <1>2, QuietStep

\* Entering a temporary directory.
LEMMA EnterTempDirStep ==
  ASSUME Ownership, NEW p \in Procs, NEW x \in {"sources", "clone"}, NEW content,
         at[p] \notin DirStatements, EnterTempDir(p, content), Goto(p, x),
         UNCHANGED <<request, local, bin>>
  PROVE  OwnStep(p)
  <1>1. PICK n \in TempNames : Free(n) /\ td' = [td EXCEPT ![p] = n] /\ Put(n, content)
      BY DEF EnterTempDir, TempNames
  <1>2. Owned(p) = {} /\ bin[p] = None /\ n # None
      BY OwnedHere, ScriptsAssumption DEF DirStatements, FileStatements, Owned
  <1>3. Allowed(x, n, bin[p])
      BY <1>2 DEF Allowed, DirStatements, FileStatements
  <1>4. at' = [at EXCEPT ![p] = x] /\ bin' = [bin EXCEPT ![p] = bin[p]]
      BY DEF Goto, Ownership, Shape
  <1>5. (DOMAIN tmp \ Owned(p)) \cup ({n, bin[p]} \ {None}) = DOMAIN tmp \cup {n}
      BY <1>2
  <1>6. /\ tmp' = [m \in DOMAIN tmp \cup {n} |-> tmp'[m]]
        /\ \A m \in DOMAIN tmp \ Owned(p) : tmp'[m] = tmp[m]
      BY <1>1 DEF Put, Free
  <1>7. LocalStep(p)
      BY DEF LocalStep, Goto
  <1>8. Moves(p, x, n, bin[p])
      BY <1>1, <1>2, <1>4, <1>5, <1>6, <1>7, LocalStepMoves DEF Moves
  <1> QED
      BY <1>3, <1>8 DEF OwnStep

\* Leaving it.
LEMMA LeaveTempDirStep ==
  ASSUME Ownership, NEW p \in Procs, NEW next \in {"print", "bridge"}, LeaveTempDir(p, next)
  PROVE  OwnStep(p)
  <1> DEFINE x == IF raised[p] = "none" THEN next ELSE "ended"
             t == None
  <1>1. bin[p] = None /\ Owned(p) \subseteq {td[p]} /\ {t, bin[p]} \ {None} = {}
      BY OwnedHere DEF LeaveTempDir, At, FileStatements, Owned
  <1>2. Allowed(x, t, bin[p])
      BY <1>1 DEF Allowed, DirStatements, FileStatements
  <1>3. /\ at' = [at EXCEPT ![p] = x]
        /\ td' = [td EXCEPT ![p] = t]
        /\ bin' = [bin EXCEPT ![p] = bin[p]]
      BY DEF LeaveTempDir, Goto, Ownership, Shape
  <1>4. DOMAIN tmp \ Owned(p) = DOMAIN tmp \ {td[p]}
      BY OwnedHere, <1>1 DEF LeaveTempDir, At, DirStatements, Owned
  <1>5. LocalStep(p)
      BY DEF LocalStep, LeaveTempDir, Goto
  <1>6. /\ tmp' = [m \in DOMAIN tmp \ Owned(p) |-> tmp'[m]]
        /\ \A m \in DOMAIN tmp \ Owned(p) : tmp'[m] = tmp[m]
      BY <1>4 DEF LeaveTempDir, Erase
  <1>7. Moves(p, x, t, bin[p])
      BY <1>1, <1>3, <1>5, <1>6, LocalStepMoves DEF Moves
  <1> QED
      BY <1>2, <1>7 DEF OwnStep

\* The file of _elf_to_words is made,
LEMMA MakeTempFileStep ==
  ASSUME Ownership, NEW p \in Procs, MakeTempFile(p)
  PROVE  OwnStep(p)
  <1>1. PICK n \in TempNames : Free(n) /\ bin' = [bin EXCEPT ![p] = n] /\ Put(n, << >>)
      BY DEF MakeTempFile, TempNames
  <1>2. bin[p] = None /\ td[p] # None /\ td[p] \in TempNames \cup {None} /\ n # None
      BY OwnedHere, ScriptsAssumption DEF MakeTempFile, At, DirStatements, FileStatements
  <1>3. td[p] \in DOMAIN tmp /\ Owned(p) = {td[p]}
      BY <1>2 DEF Ownership, OwnedExists, Owned
  <1>4. Allowed("objcopy", td[p], n)
      BY <1>1, <1>2, <1>3 DEF Allowed, Free, DirStatements, FileStatements
  <1>5. at' = [at EXCEPT ![p] = "objcopy"] /\ td' = [td EXCEPT ![p] = td[p]]
      BY DEF MakeTempFile, Goto, Ownership, Shape
  <1>6. (DOMAIN tmp \ Owned(p)) \cup ({td[p], n} \ {None}) = DOMAIN tmp \cup {n}
      BY <1>2, <1>3
  <1>7. /\ tmp' = [m \in DOMAIN tmp \cup {n} |-> tmp'[m]]
        /\ \A m \in DOMAIN tmp \ Owned(p) : tmp'[m] = tmp[m]
      BY <1>1 DEF Put, Free
  <1>8. LocalStep(p)
      BY DEF LocalStep, Goto, MakeTempFile
  <1>9. Moves(p, "objcopy", td[p], n)
      BY <1>1, <1>2, <1>3, <1>5, <1>6, <1>7, <1>8, LocalStepMoves DEF Moves
  <1> QED
      BY <1>4, <1>9 DEF OwnStep

\* and removed.
LEMMA UnlinkStep ==
  ASSUME Ownership, NEW p \in Procs, Unlink(p)
  PROVE  OwnStep(p)
  <1> DEFINE x == IF raised[p] = "none" THEN "unpack" ELSE "leave"
             b == None
  <1>1. /\ bin[p] # None /\ td[p] # None /\ td[p] \in TempNames \cup {None}
        /\ td[p] # bin[p]
      BY OwnedHere DEF Unlink, At, DirStatements, FileStatements
  <1>2. Allowed(x, td[p], b)
      BY <1>1 DEF Allowed, DirStatements, FileStatements
  <1>3. /\ at' = [at EXCEPT ![p] = x]
        /\ td' = [td EXCEPT ![p] = td[p]]
        /\ bin' = [bin EXCEPT ![p] = b]
      BY DEF Unlink, Goto, Ownership, Shape
  <1>4. td[p] \in DOMAIN tmp
      BY <1>1 DEF Ownership, OwnedExists, Owned
  <1>5. (DOMAIN tmp \ Owned(p)) \cup ({td[p], b} \ {None}) = DOMAIN tmp \ {bin[p]}
      BY <1>1, <1>4 DEF Owned
  <1>6. /\ tmp' = [m \in DOMAIN tmp \ {bin[p]} |-> tmp'[m]]
        /\ \A m \in DOMAIN tmp \ Owned(p) : tmp'[m] = tmp[m]
    <2>1. tmp' = [m \in DOMAIN tmp \ {bin[p]} |-> tmp[m]]
        BY DEF Unlink, Erase
    <2>2. \A m \in DOMAIN tmp \ Owned(p) : m \in DOMAIN tmp \ {bin[p]}
        BY <1>1 DEF Owned
    <2> QED
        BY <2>1, <2>2
  <1>7. LocalStep(p)
      BY DEF LocalStep, Unlink, Goto
  <1>8. Moves(p, x, td[p], b)
      BY <1>3, <1>5, <1>6, <1>7, LocalStepMoves DEF Moves, Owned
  <1> QED
      BY <1>2, <1>8 DEF OwnStep
----------------------------------------------------------------------------
(* The statements of the scripts.                                          *)

\* Ctrl-C.
LEMMA InterruptedStep ==
  ASSUME Ownership, NEW p \in Procs, NEW waits, Interrupted(p, waits)
  PROVE  OwnStep(p)
  BY RaiseStep DEF Interrupted

\* An assignment that moves on between statements of the same ownership.
LEMMA AssigningStep ==
  ASSUME Ownership, NEW p \in Procs, NEW x, NEW values, Assign(p, values), Goto(p, x),
         UNCHANGED <<request, td, bin, tmp>>,
         at[p] \in DirStatements <=> x \in DirStatements,
         at[p] \in FileStatements <=> x \in FileStatements
  PROVE  OwnStep(p)
  <1>1. LocalStep(p)
      BY DEF LocalStep, Goto, Assign
  <1> QED
      BY <1>1, QuietStep DEF Goto

\* The same without an assignment.
LEMMA GoingStep ==
  ASSUME Ownership, NEW p \in Procs, NEW x, Goto(p, x),
         UNCHANGED <<request, local, td, bin, tmp>>,
         at[p] \in DirStatements <=> x \in DirStatements,
         at[p] \in FileStatements <=> x \in FileStatements
  PROVE  OwnStep(p)
  <1>1. LocalStep(p)
      BY DEF LocalStep, Goto
  <1> QED
      BY <1>1, QuietStep DEF Goto

\* A step that fills what the process owns and moves on.
LEMMA FillingStep ==
  ASSUME Ownership, NEW p \in Procs, NEW x, Goto(p, x), UNCHANGED <<request, local, td, bin>>,
         NEW n \in {td[p], bin[p]}, n # None, NEW content, Put(n, content),
         at[p] \in DirStatements <=> x \in DirStatements,
         at[p] \in FileStatements <=> x \in FileStatements
  PROVE  OwnStep(p)
  <1>1. LocalStep(p)
      BY DEF LocalStep, Goto
  <1> QED
      BY <1>1, FillStep DEF Goto

\* rv32i_compile.py
LEMMA CompileStepIsOwn ==
  ASSUME Ownership, NEW p \in Procs, CompileStep(p)
  PROVE  OwnStep(p)
  <1> USE DEF At, DirStatements, FileStatements
  <1>1. CASE ReadSource(p)
      BY <1>1, AssigningStep DEF ReadSource
  <1>2. CASE FindGcc(p)
    <2>1. CASE \E exception : Raise(p, exception) /\ UNCHANGED local
        BY <1>2, <2>1, RaiseStep DEF FindGcc
    <2>2. CASE Goto(p, "tempdir") /\ \E values : Assign(p, values)
        BY <1>2, <2>2, AssigningStep DEF FindGcc
    <2> QED
        BY <1>2, <2>1, <2>2 DEF FindGcc
  <1>3. CASE MakeTempDir(p)
      BY <1>3, EnterTempDirStep DEF MakeTempDir
  <1>4. CASE WriteSources(p)
    <2>1. CASE \E exception : Raise(p, exception) /\ UNCHANGED tmp
        BY <1>4, <2>1, RaiseStep DEF WriteSources
    <2>2. CASE Goto(p, "gcc") /\ \E content : Put(td[p], content)
        BY <1>4, <2>2, OwnedHere, FillingStep DEF WriteSources
    <2> QED
        BY <1>4, <2>1, <2>2 DEF WriteSources
  <1>5. CASE RunGcc(p)
    <2>1. CASE \E exception : Raise(p, exception) /\ UNCHANGED tmp
        BY <1>5, <2>1, RaiseStep DEF RunGcc
    <2>2. CASE Goto(p, "tempfile") /\ \E content : Put(td[p], content)
        BY <1>5, <2>2, OwnedHere, FillingStep DEF RunGcc
    <2> QED
        BY <1>5, <2>1, <2>2 DEF RunGcc
  <1>6. CASE MakeTempFile(p)
      BY <1>6, MakeTempFileStep
  <1>7. CASE RunObjcopy(p)
    <2>1. CASE \E exception : Raise(p, exception) /\ UNCHANGED tmp
        BY <1>7, <2>1, RaiseStep DEF RunObjcopy
    <2>2. CASE Goto(p, "read") /\ \E content : Put(bin[p], content)
        BY <1>7, <2>2, OwnedHere, FillingStep DEF RunObjcopy
    <2> QED
        BY <1>7, <2>1, <2>2 DEF RunObjcopy
  <1>8. CASE ReadBinary(p)
    <2>1. CASE \E exception : Raise(p, exception) /\ UNCHANGED local
        BY <1>8, <2>1, RaiseStep DEF ReadBinary
    <2>2. CASE Goto(p, "unlink") /\ \E values : Assign(p, values)
        BY <1>8, <2>2, AssigningStep DEF ReadBinary
    <2> QED
        BY <1>8, <2>1, <2>2 DEF ReadBinary
  <1>9. CASE Unlink(p)
      BY <1>9, UnlinkStep
  <1>10. CASE PadAndUnpack(p)
      BY <1>10, AssigningStep DEF PadAndUnpack
  <1>11. CASE LeaveTempDir(p, "print")
      BY <1>11, LeaveTempDirStep
  <1>12. CASE PrintWords(p)
      BY <1>12, GoingStep DEF PrintWords
  <1>13. CASE Interrupted(p, {"gcc", "objcopy"})
      BY <1>13, InterruptedStep
  <1> QED
      BY <1>1, <1>2, <1>3, <1>4, <1>5, <1>6, <1>7, <1>8, <1>9, <1>10, <1>11, <1>12, <1>13
      DEF CompileStep

\* gen_tb.py
LEMMA GenTbStepIsOwn ==
  ASSUME Ownership, NEW p \in Procs, GenTbStep(p)
  PROVE  OwnStep(p)
  <1> USE DEF At, DirStatements, FileStatements
  <1>1. CASE Arguments(p)
    <2>1. CASE \E exception : Raise(p, exception) /\ UNCHANGED local
        BY <1>1, <2>1, RaiseStep DEF Arguments
    <2>2. CASE Goto(p, "spec") /\ \E values : Assign(p, values)
        BY <1>1, <2>2, AssigningStep DEF Arguments
    <2> QED
        BY <1>1, <2>1, <2>2 DEF Arguments
  <1>2. CASE ReadSpec(p)
    <2>1. CASE \E exception : Raise(p, exception) /\ UNCHANGED local
        BY <1>2, <2>1, RaiseStep DEF ReadSpec
    <2>2. CASE Goto(p, "code") /\ \E values : Assign(p, values)
        BY <1>2, <2>2, AssigningStep DEF ReadSpec
    <2> QED
        BY <1>2, <2>1, <2>2 DEF ReadSpec
  <1>3. ASSUME NEW here \in {"code", "bench"}, NEW subject, NEW name,
               NEW there \in {"bench", "write"}, Ask(p, here, subject, name, there)
        PROVE  OwnStep(p)
    <2>1. CASE \E exception : Raise(p, exception) /\ UNCHANGED local
        BY <1>3, <2>1, RaiseStep DEF Ask
    <2>2. CASE Goto(p, there) /\ \E values : Assign(p, values)
        BY <1>3, <2>2, AssigningStep DEF Ask
    <2> QED
        BY <1>3, <2>1, <2>2 DEF Ask
  <1>4. CASE gen_machine_code(p)
      BY <1>3, <1>4 DEF gen_machine_code
  <1>5. CASE gen_testbench(p)
      BY <1>3, <1>5 DEF gen_testbench
  <1>6. CASE WriteTest(p)
      BY <1>6, GoingStep DEF WriteTest
  <1>7. CASE Interrupted(p, {"code", "bench"})
      BY <1>7, InterruptedStep
  <1> QED
      BY <1>1, <1>2, <1>4, <1>5, <1>6, <1>7 DEF GenTbStep

\* benchgen.py
LEMMA BenchGenStepIsOwn ==
  ASSUME Ownership, NEW p \in Procs, BenchGenStep(p)
  PROVE  OwnStep(p)
  <1> USE DEF At, DirStatements, FileStatements
  <1>1. CASE ReadDut(p)
    <2>1. CASE \E exception : Raise(p, exception) /\ UNCHANGED local
        BY <1>1, <2>1, RaiseStep DEF ReadDut
    <2>2. CASE Goto(p, "tempdir") /\ \E values : Assign(p, values)
        BY <1>1, <2>2, AssigningStep DEF ReadDut
    <2> QED
        BY <1>1, <2>1, <2>2 DEF ReadDut
  <1>2. CASE MakeCloneDir(p)
      BY <1>2, EnterTempDirStep DEF MakeCloneDir
  <1>3. CASE Clone(p)
    <2>1. CASE \E exception : Raise(p, exception) /\ UNCHANGED tmp
        BY <1>3, <2>1, RaiseStep DEF Clone
    <2>2. CASE Goto(p, "fetch") /\ \E content : Put(td[p], content)
        BY <1>3, <2>2, OwnedHere, FillingStep DEF Clone
    <2> QED
        BY <1>3, <2>1, <2>2 DEF Clone
  <1>4. CASE ReadExample(p)
    <2>1. CASE \E exception : Raise(p, exception)
        BY <1>4, <2>1, RaiseStep DEF ReadExample
    <2>2. CASE Goto(p, "leave")
        BY <1>4, <2>2, GoingStep DEF ReadExample
    <2> QED
        BY <1>4, <2>1, <2>2 DEF ReadExample
  <1>5. CASE LeaveTempDir(p, "bridge")
      BY <1>5, LeaveTempDirStep
  <1>6. ASSUME NEW here \in {"bridge", "testbench"}, NEW subject, NEW name,
               NEW there \in {"write bridge", "write testbench"},
               AskFor(p, here, subject, name, there)
        PROVE  OwnStep(p)
    <2>1. CASE \E exception : Raise(p, exception) /\ UNCHANGED local
        BY <1>6, <2>1, RaiseStep DEF AskFor
    <2>2. CASE Goto(p, there) /\ \E values : Assign(p, values)
        BY <1>6, <2>2, AssigningStep DEF AskFor
    <2> QED
        BY <1>6, <2>1, <2>2 DEF AskFor
  <1>7. CASE generate_bridge(p)
      BY <1>6, <1>7 DEF generate_bridge
  <1>8. CASE generate_testbench(p)
      BY <1>6, <1>8 DEF generate_testbench
  <1>9. ASSUME NEW here \in {"write bridge", "write testbench"},
               NEW there \in {"testbench", "ended"}, WriteFiles(p, here, there)
        PROVE  OwnStep(p)
    <2>1. LocalStep(p)
        BY <1>9 DEF LocalStep, WriteFiles, Goto, Assign
    <2>2. at' = [at EXCEPT ![p] = there] \/ at' = [at EXCEPT ![p] = at[p]]
        BY <1>9 DEF WriteFiles, Goto, Ownership, Shape
    <2> QED
        BY <1>9, <2>1, <2>2, QuietStep DEF WriteFiles
  <1>10. CASE WriteFiles(p, "write bridge", "testbench")
      BY <1>9, <1>10
  <1>11. CASE WriteFiles(p, "write testbench", "ended")
      BY <1>9, <1>11
  <1>12. CASE Interrupted(p, {"clone", "bridge", "testbench"})
      BY <1>12, InterruptedStep
  <1> QED
      BY <1>1, <1>2, <1>3, <1>4, <1>5, <1>7, <1>8, <1>10, <1>11, <1>12 DEF BenchGenStep

\* A statement of a script.
Statement(p) == CompileStep(p) \/ GenTbStep(p) \/ BenchGenStep(p)

LEMMA StatementIsOwn ==
  ASSUME Ownership, NEW p \in Procs, Statement(p)
  PROVE  Ownership' /\ OnlyOwn(p)
  <1>1. OwnStep(p)
      BY CompileStepIsOwn, GenTbStepIsOwn, BenchGenStepIsOwn DEF Statement
  <1> QED
      BY <1>1, MoveKeepsOwnership DEF OwnStep

LEMMA OwnershipNext == Ownership /\ [Next]_scriptVars => Ownership'
  <1> SUFFICES ASSUME Ownership, [Next]_scriptVars PROVE Ownership'
      OBVIOUS
  <1>1. CASE UserEdits \/ UNCHANGED scriptVars
    <2>1. UNCHANGED <<at, local, raised, td, bin, tmp>>
        BY <1>1 DEF UserEdits, scriptVars
    <2>2. Shape' /\ OwnedWhere'
        BY <2>1 DEF Ownership, Shape, OwnedWhere
    <2>3. OwnedExists' /\ OwnedAlone'
        BY <2>1 DEF Ownership, OwnedExists, OwnedAlone, Owned
    <2>4. NothingLeftBehind'
        BY <2>1 DEF Ownership, NothingLeftBehind, Free, Running
    <2> QED
        BY <2>2, <2>3, <2>4 DEF Ownership
  <1> QED
      BY <1>1, StatementIsOwn DEF Next, Statement

\* Whatever the processes compile, generate, fail at or are interrupted in, no file or
\* directory stays behind in the temporary directory once its process has ended.
THEOREM NothingLeftBehindCorrect == Spec => []NothingLeftBehind
  <1>1. Ownership => NothingLeftBehind
      BY DEF Ownership
  <1> QED
      BY <1>1, OwnershipInit, OwnershipNext, PTL DEF Spec

----------------------------------------------------------------------------
(* What each script knows and has written.                                 *)

Commands == \A p \in Procs : request[p] \in CommandLines[p]

DirShape == dir = [f \in DOMAIN StartDir |-> dir[f]]

\* An assignment gives a process the new values and keeps its other variables.
LEMMA Assigned ==
  ASSUME Ownership, NEW p \in Procs, NEW values, Assign(p, values)
  PROVE  /\ DOMAIN local'[p] = DOMAIN values \cup DOMAIN local[p]
         /\ \A v \in DOMAIN values : local'[p][v] = values[v]
         /\ \A v \in DOMAIN local[p] \ DOMAIN values : local'[p][v] = local[p][v]
  <1>1. local'[p] = [v \in DOMAIN values \cup DOMAIN local[p] |->
                       IF v \in DOMAIN values THEN values[v] ELSE local[p][v]]
      BY DEF Assign, Ownership, Shape
  <1> QED
      BY <1>1

\* Where a step leads.
LEMMA Gone ==
  ASSUME Ownership, NEW p \in Procs, NEW x, Goto(p, x)
  PROVE  at'[p] = x /\ raised'[p] = raised[p]
  BY DEF Goto, Ownership, Shape

LEMMA HasRaised ==
  ASSUME Ownership, NEW p \in Procs, NEW exception, Raise(p, exception)
  PROVE  at'[p] = Unwind(p) /\ raised'[p] = exception
  BY DEF Raise, Ownership, Shape

LEMMA Written ==
  ASSUME DirShape, NEW f \in DOMAIN StartDir, NEW content, Write(f, content)
  PROVE  DirShape' /\ dir'[f] = content /\ \A g \in DOMAIN StartDir \ {f} : dir'[g] = dir[g]
  BY DEF DirShape, Write

----------------------------------------------------------------------------
(* gen_tb.py                                                               *)

\* The text taken from an answer is about what was asked.
LEMMA AnswerIsAbout ==
  ASSUME NEW subject, NEW answer \in Answers(subject), extract_text(answer) # None
  PROVE  strip_fences(extract_text(answer)).of = subject
  <1> DEFINE texts == {i \in DOMAIN answer : answer[i].type = "text"}
             T == [type : {"text"}, of : {subject}, fence : {"none", "whole", "opened"}]
             other == [type |-> "thinking"]
  <1>1. texts # {} /\ extract_text(answer) = answer[Min(texts)]
      BY DEF extract_text
  <1>2. other.type # "text"
      OBVIOUS
  <1>3. \A t \in T : t.type = "text"
      OBVIOUS
  <1>4. PICK t \in T : answer = <<t>> \/ answer = <<other, t>>
    <2>1. answer # << >>
        BY <1>1
    <2>2. answer # <<other>>
        BY <1>1, <1>2
    <2> QED
        BY <2>1, <2>2 DEF Answers
  <1>5. answer[Min(texts)] = t
    <2>1. CASE answer = <<t>>
      <3>1. texts = {1}
          BY <1>1, <2>1
      <3>2. Min({1}) = 1
          BY DEF Min
      <3> QED
          BY <2>1, <3>1, <3>2
    <2>2. CASE answer = <<other, t>>
      <3>1. texts = {2}
          BY <1>2, <1>3, <2>2
      <3>2. Min({2}) = 2
          BY DEF Min
      <3> QED
          BY <2>2, <3>1, <3>2
    <2> QED
        BY <1>4, <2>1, <2>2
  <1>6. strip_fences(t).of = subject
      BY <1>4 DEF strip_fences
  <1> QED
      BY <1>1, <1>5, <1>6

TestFile(p) == OutFile(TestName(request[p].args))

\* The variables of gen_tb.py that have been assigned when it is at a statement.
GenTbAssigned ==
  [x \in {"args", "spec", "code", "bench", "write", "ended"} |->
     CASE x = "args"  -> {}
       [] x = "spec"  -> {"infile", "name"}
       [] x = "code"  -> {"infile", "name", "spec_text"}
       [] x = "bench" -> {"infile", "name", "spec_text", "program_code"}
       [] OTHER       -> {"infile", "name", "spec_text", "program_code", "tb_code"}]

GenTbLocals(p) ==
  /\ GenTbAssigned[at[p]] \subseteq DOMAIN local[p]
  /\ "program_code" \in GenTbAssigned[at[p]] => local[p].program_code.of.spec = local[p].spec_text
  /\ "tb_code" \in GenTbAssigned[at[p]] =>
       local[p].tb_code.of = [program |-> local[p].program_code, checks |-> local[p].spec_text]

GenTbInv(p) ==
  /\ at[p] \in DOMAIN GenTbAssigned
  /\ at[p] = "ended" \/ raised[p] = "none"
  /\ raised[p] = "none" => GenTbLocals(p)
  /\ "name" \in DOMAIN local[p] =>
       Len(request[p].args) \in {1, 2} /\ local[p].name = TestName(request[p].args)
  /\ Len(request[p].args) \in {1, 2} =>
       dir[TestFile(p)] = IF Done(p) THEN local[p].tb_code ELSE StartDir[TestFile(p)]

\* What a step leaves of the directory.
LeavesRest(p) == DirShape' /\ \A f \in DOMAIN StartDir \ Outputs(request[p]) : dir'[f] = dir[f]

\* A step to a statement further on, with the directory as it was.
LEMMA GenTbQuietStep ==
  ASSUME Ownership, DirShape, NEW p \in Procs, GenTbInv(p), at[p] # "ended", raised[p] = "none",
         UNCHANGED <<request, dir>>, NEW x \in DOMAIN GenTbAssigned \ {"ended"}, Goto(p, x),
         GenTbLocals(p)',
         "name" \in DOMAIN local'[p] =>
           Len(request[p].args) \in {1, 2} /\ local'[p].name = TestName(request[p].args)
  PROVE  GenTbInv(p)' /\ LeavesRest(p)
  <1>1. at'[p] = x /\ raised'[p] = "none"
      BY Gone
  <1>2. ~ Done(p) /\ ~ Done(p)' /\ TestFile(p)' = TestFile(p)
      BY <1>1 DEF Done, At, TestFile
  <1>3. DirShape'
      BY DEF DirShape
  <1> QED
      BY <1>1, <1>2, <1>3 DEF GenTbInv, LeavesRest

\* A failure.
LEMMA GenTbRaiseStep ==
  ASSUME Ownership, DirShape, NEW p \in Procs, GenTbInv(p), at[p] # "ended",
         UNCHANGED <<request, local, dir>>, NEW e, e # "none", Raise(p, e)
  PROVE  GenTbInv(p)' /\ LeavesRest(p)
  <1>1. at'[p] = "ended" /\ raised'[p] = e
    <2>1. td[p] = None /\ bin[p] = None
        BY OwnedHere DEF GenTbInv, GenTbAssigned, DirStatements, FileStatements
    <2> QED
        BY <2>1, HasRaised DEF Unwind
  <1>2. ~ Done(p) /\ ~ Done(p)' /\ TestFile(p)' = TestFile(p)
      BY <1>1 DEF Done, At, TestFile
  <1>3. DirShape'
      BY DEF DirShape
  <1> QED
      BY <1>1, <1>2, <1>3 DEF GenTbInv, LeavesRest, GenTbAssigned

LEMMA GenTbAsks ==
  ASSUME Ownership, DirShape, NEW p \in Procs, GenTbInv(p), UNCHANGED dir,
         NEW here \in {"code", "bench"}, NEW subject,
         NEW name \in {"program_code", "tb_code"},
         NEW there \in {"bench", "write"}, Ask(p, here, subject, name, there),
         GenTbAssigned[there] = GenTbAssigned[here] \cup {name},
         name \notin GenTbAssigned[here],
         here = "code" => subject = [spec |-> local[p].spec_text],
         here = "bench" => subject = [program |-> local[p].program_code,
                                      checks |-> local[p].spec_text]
  PROVE  GenTbInv(p)' /\ LeavesRest(p)
  <1>1. at[p] = here /\ raised[p] = "none" /\ GenTbLocals(p) /\ request' = request
      BY DEF Ask, At, GenTbInv
  <1>2. PICK answer \in Answers(subject) :
          IF extract_text(answer) = None
          THEN Raise(p, "RuntimeError") /\ UNCHANGED local
          ELSE Goto(p, there) /\ Assign(p, [v \in {name} |-> strip_fences(extract_text(answer))])
      BY DEF Ask
  <1>3. CASE extract_text(answer) = None
      BY <1>1, <1>2, <1>3, GenTbRaiseStep
  <1>4. CASE extract_text(answer) # None
    <2> DEFINE text == strip_fences(extract_text(answer))
               values == [v \in {name} |-> text]
    <2>1. text.of = subject
        BY <1>4, AnswerIsAbout
    <2>2. Goto(p, there) /\ Assign(p, values) /\ DOMAIN values = {name} /\ values[name] = text
        BY <1>2, <1>4
    <2> HIDE DEF text, values
    <2>3. /\ DOMAIN local'[p] = {name} \cup DOMAIN local[p]
          /\ local'[p][name] = text
          /\ \A v \in DOMAIN local[p] \ {name} : local'[p][v] = local[p][v]
        BY <2>2, Assigned
    <2>4. at'[p] = there
        BY <2>2, Gone
    <2>5. /\ GenTbAssigned[here] \subseteq DOMAIN local[p]
          /\ GenTbAssigned[there] \subseteq DOMAIN local'[p]
        BY <1>1, <2>3 DEF GenTbLocals
    <2>6. /\ "spec_text" \in GenTbAssigned[here]
          /\ here = "bench" => "program_code" \in GenTbAssigned[here]
        BY DEF GenTbAssigned
    <2>7. /\ local'[p].spec_text = local[p].spec_text
          /\ here = "bench" => local'[p].program_code = local[p].program_code
          /\ "name" \in DOMAIN local[p] => local'[p].name = local[p].name
          /\ "name" \in DOMAIN local'[p] => "name" \in DOMAIN local[p]
        BY <2>3, <2>5, <2>6
    <2>8. GenTbLocals(p)'
      <3>1. CASE here = "code"
        <4>1. name = "program_code" /\ there = "bench"
          <5>1. /\ {"program_code", "tb_code"} \subseteq GenTbAssigned["write"]
                /\ "program_code" \in GenTbAssigned["bench"]
                /\ "tb_code" \notin GenTbAssigned["bench"]
                /\ "program_code" \notin GenTbAssigned["code"]
                /\ "tb_code" \notin GenTbAssigned["code"]
              BY DEF GenTbAssigned
          <5> QED
              BY <3>1, <5>1
        <4> QED
            BY <2>1, <2>3, <2>4, <2>5, <2>7, <3>1, <4>1 DEF GenTbLocals, GenTbAssigned
      <3>2. CASE here = "bench"
        <4>1. name = "tb_code" /\ there = "write"
            BY <3>2 DEF GenTbAssigned
        <4>2. local[p].program_code.of.spec = local[p].spec_text
            BY <1>1, <3>2 DEF GenTbLocals, GenTbAssigned
        <4> QED
            BY <2>1, <2>3, <2>4, <2>5, <2>7, <3>2, <4>1, <4>2 DEF GenTbLocals, GenTbAssigned
      <3> QED
          BY <3>1, <3>2
    <2>9. there \in DOMAIN GenTbAssigned \ {"ended"}
        BY DEF GenTbAssigned
    <2> QED
        BY <1>1, <2>2, <2>7, <2>8, <2>9, GenTbQuietStep DEF GenTbInv
  <1> QED
      BY <1>3, <1>4

LEMMA GenTbStepKeeps ==
  ASSUME Ownership, Commands, DirShape, NEW p \in Procs, request[p].script = "gen_tb.py",
         GenTbInv(p), GenTbStep(p)
  PROVE  GenTbInv(p)' /\ LeavesRest(p)
  <1> USE DEF At
  <1>1. CASE Arguments(p)
    <2>1. at[p] = "args" /\ raised[p] = "none" /\ UNCHANGED <<request, dir>>
        BY <1>1 DEF Arguments, GenTbInv
    <2>2. CASE Len(request[p].args) \in {1, 2}
      <3> DEFINE a == request[p].args[Len(request[p].args)]
                 n == TestName(request[p].args)
                 values == [infile |-> a, name |-> n]
      <3>1. Goto(p, "spec") /\ Assign(p, values)
          BY <1>1, <2>2 DEF Arguments
      <3>2. DOMAIN values = {"infile", "name"} /\ values["name"] = n
          OBVIOUS
      <3> HIDE DEF a, values
      <3>3. {"infile", "name"} \subseteq DOMAIN local'[p] /\ local'[p].name = n
          BY <3>1, <3>2, Assigned
      <3>4. at'[p] = "spec"
          BY <3>1, Gone
      <3>5. GenTbLocals(p)'
          BY <3>3, <3>4 DEF GenTbLocals, GenTbAssigned
      <3>6. "spec" \in DOMAIN GenTbAssigned \ {"ended"}
          BY DEF GenTbAssigned
      <3> QED
          BY <2>1, <2>2, <3>1, <3>3, <3>5, <3>6, GenTbQuietStep
    <2>3. CASE Len(request[p].args) \notin {1, 2}
        BY <1>1, <2>1, <2>3, GenTbRaiseStep DEF Arguments
    <2> QED
        BY <2>2, <2>3
  <1>2. CASE ReadSpec(p)
    <2>1. at[p] = "spec" /\ raised[p] = "none" /\ UNCHANGED <<request, dir>>
        BY <1>2 DEF ReadSpec, GenTbInv
    <2>2. CASE dir[local[p].infile] = None
        BY <1>2, <2>1, <2>2, GenTbRaiseStep DEF ReadSpec
    <2>3. CASE dir[local[p].infile] # None
      <3> DEFINE text == dir[local[p].infile]
                 values == [spec_text |-> text]
      <3>1. Goto(p, "code") /\ Assign(p, values)
          BY <1>2, <2>3 DEF ReadSpec
      <3>2. DOMAIN values = {"spec_text"}
          OBVIOUS
      <3> HIDE DEF values
      <3>3. /\ DOMAIN local'[p] = {"spec_text"} \cup DOMAIN local[p]
            /\ "name" \in DOMAIN local[p] => local'[p].name = local[p].name
          BY <3>1, <3>2, Assigned
      <3>4. at'[p] = "code"
          BY <3>1, Gone
      <3>5. {"infile", "name"} \subseteq DOMAIN local[p]
          BY <2>1 DEF GenTbInv, GenTbLocals, GenTbAssigned
      <3>6. GenTbLocals(p)'
          BY <3>3, <3>4, <3>5 DEF GenTbLocals, GenTbAssigned
      <3>7. "code" \in DOMAIN GenTbAssigned \ {"ended"}
          BY DEF GenTbAssigned
      <3> QED
          BY <2>1, <3>1, <3>3, <3>5, <3>6, <3>7, GenTbQuietStep DEF GenTbInv
    <2> QED
        BY <2>2, <2>3
  <1>3. CASE gen_machine_code(p)
    <2>1. /\ GenTbAssigned["bench"] = GenTbAssigned["code"] \cup {"program_code"}
          /\ "program_code" \notin GenTbAssigned["code"]
        BY DEF GenTbAssigned
    <2> QED
        BY <1>3, <2>1, GenTbAsks DEF gen_machine_code
  <1>4. CASE gen_testbench(p)
    <2>1. /\ GenTbAssigned["write"] = GenTbAssigned["bench"] \cup {"tb_code"}
          /\ "tb_code" \notin GenTbAssigned["bench"]
        BY DEF GenTbAssigned
    <2> QED
        BY <1>4, <2>1, GenTbAsks DEF gen_testbench
  <1>5. CASE WriteTest(p)
    <2>1. /\ at[p] = "write" /\ raised[p] = "none" /\ UNCHANGED <<request, local>>
          /\ GenTbLocals(p) /\ "name" \in DOMAIN local[p]
        BY <1>5 DEF WriteTest, GenTbInv, GenTbLocals, GenTbAssigned
    <2>2. at'[p] = "ended" /\ raised'[p] = "none"
        BY <1>5, <2>1, Gone DEF WriteTest
    <2>3. /\ Len(request[p].args) \in {1, 2} /\ local[p].name = TestName(request[p].args)
        BY <2>1 DEF GenTbInv
    <2>4. Outputs(request[p]) = {TestFile(p)} /\ TestFile(p) \in DOMAIN StartDir
      <3>1. Outputs(request[p]) = {TestFile(p)}
          BY <2>3 DEF Outputs, TestFile
      <3> QED
          BY <3>1, ToolsAssumption DEF Commands
    <2>5. Write(TestFile(p), local[p].tb_code)
        BY <1>5, <2>3 DEF WriteTest, TestFile
    <2>6. /\ DirShape' /\ dir'[TestFile(p)] = local[p].tb_code
          /\ \A g \in DOMAIN StartDir \ {TestFile(p)} : dir'[g] = dir[g]
        BY <2>4, <2>5, Written
    <2>7. TestFile(p)' = TestFile(p) /\ Done(p)'
        BY <2>1, <2>2 DEF TestFile, Done
    <2>8. GenTbLocals(p)'
        BY <2>1, <2>2 DEF GenTbLocals, GenTbAssigned
    <2>9. "ended" \in DOMAIN GenTbAssigned
        BY DEF GenTbAssigned
    <2> QED
        BY <2>1, <2>2, <2>3, <2>4, <2>6, <2>7, <2>8, <2>9 DEF GenTbInv, LeavesRest
  <1>6. CASE Interrupted(p, {"code", "bench"})
      BY <1>6, GenTbRaiseStep DEF Interrupted
  <1> QED
      BY <1>1, <1>2, <1>3, <1>4, <1>5, <1>6 DEF GenTbStep

----------------------------------------------------------------------------
(* benchgen.py: the files in an answer.                                    *)

\* Numbers have a least one, and a greatest when they are bounded.
LEMMA LeastNumber ==
  ASSUME NEW S, S \subseteq Nat, S # {}
  PROVE  Min(S) \in S /\ \A i \in S : Min(S) <= i
  <1>1. PICK x \in S : \A y \in S : <<y, x>> \notin OpToRel(<, Nat)
      BY NatLessThanWellFounded, WFMin
  <1>2. ASSUME NEW y \in S
        PROVE  x <= y
    <2>1. x \in Nat /\ y \in Nat
        OBVIOUS
    <2>2. <<y, x>> \in OpToRel(<, Nat) \/ x <= y
        BY ONLY <2>1 DEF OpToRel
    <2> QED
        BY <1>1, <2>2
  <1> QED
      BY <1>2 DEF Min

LEMMA GreatestNumber ==
  ASSUME NEW n \in Nat, NEW S, S \subseteq 0 .. n, S # {}
  PROVE  Max(S) \in S
  <1> DEFINE T == {n - x : x \in S}
  <1>1. T \subseteq Nat /\ T # {}
    <2>1. ASSUME NEW x \in S
          PROVE  n - x \in Nat
        OBVIOUS
    <2>2. PICK x \in S : TRUE
        OBVIOUS
    <2>3. n - x \in T
        OBVIOUS
    <2> QED
        BY <2>1, <2>3
  <1>2. Min(T) \in T /\ \A i \in T : Min(T) <= i
      BY <1>1, LeastNumber
  <1>3. PICK x \in S : Min(T) = n - x
      BY <1>2
  <1>4. \A y \in S : x >= y
    <2>1. \A y \in S : n - x <= n - y
        BY <1>2, <1>3
    <2> QED
        BY <2>1
  <1> QED
      BY <1>4 DEF Max

\* The files of an answer about a subject.
FilesAbout(files, prefix, subject) ==
  /\ DOMAIN files \subseteq Nat /\ DOMAIN files # {}
  /\ \A i \in DOMAIN files : files[i].name \in AnswerNames(prefix) /\ files[i].content.of = subject
  /\ \A i, j \in DOMAIN files : files[i].name = files[j].name => i = j

\* The closed blocks with the name of block i, and the first ones of their names.
SameName(a, i) == {j \in DOMAIN a : a[j].closed /\ a[j].name = a[i].name}

Firsts(a) == {i \in DOMAIN a : a[i].closed /\ i = Min(SameName(a, i))}

LEMMA FilesAreFirsts ==
  ASSUME NEW a
  PROVE  extract_files(a) = [i \in Firsts(a) |-> a[Max(SameName(a, i))]]
  BY DEF extract_files, SameName, Firsts

\* Whatever is answered, the dictionary has each name once, with content about the
\* subject.
LEMMA FilesOfAnswer ==
  ASSUME NEW prefix, NEW subject, NEW a \in call_claude(prefix, subject),
         DOMAIN extract_files(a) # {}
  PROVE  FilesAbout(extract_files(a), prefix, subject)
  <1> DEFINE files == extract_files(a)
  <1>1. PICK n \in 0 .. MaxBlocks : \E names \in [1 .. n -> AnswerNames(prefix)], whole \in BOOLEAN :
          a = [i \in 1 .. n |-> Block(names[i], [draft |-> i, of |-> subject], i < n \/ whole)]
      BY DEF call_claude
  <1>2. PICK names \in [1 .. n -> AnswerNames(prefix)], whole \in BOOLEAN :
          a = [i \in 1 .. n |-> Block(names[i], [draft |-> i, of |-> subject], i < n \/ whole)]
      BY <1>1
  <1>3. n \in Nat
      BY BenchGenAssumption
  <1>4. DOMAIN a = 1 .. n
      BY <1>2
  <1>5. ASSUME NEW i \in DOMAIN a
        PROVE  a[i].name \in AnswerNames(prefix) /\ a[i].content.of = subject
    <2>1. a[i] = Block(names[i], [draft |-> i, of |-> subject], i < n \/ whole)
        BY <1>2, <1>4
    <2>2. names[i] \in AnswerNames(prefix)
        BY <1>4
    <2> QED
        BY <2>1, <2>2 DEF Block
  <1>6. DOMAIN files = Firsts(a) /\ \A i \in Firsts(a) : files[i] = a[Max(SameName(a, i))]
      BY FilesAreFirsts
  <1>7. ASSUME NEW i \in Firsts(a)
        PROVE  i \in Nat /\ Max(SameName(a, i)) \in DOMAIN a /\ files[i].name = a[i].name
    <2>1. i \in 1 .. n /\ i \in SameName(a, i)
        BY <1>4 DEF Firsts, SameName
    <2>2. SameName(a, i) \subseteq 0 .. n
      <3>1. SameName(a, i) \subseteq 1 .. n
          BY <1>4 DEF SameName
      <3> QED
          BY <1>3, <3>1
    <2>3. Max(SameName(a, i)) \in SameName(a, i)
        BY <1>3, <2>1, <2>2, GreatestNumber
    <2> QED
        BY <1>3, <1>6, <2>1, <2>3 DEF SameName
  <1>8. ASSUME NEW i \in Firsts(a), NEW j \in Firsts(a), files[i].name = files[j].name
        PROVE  i = j
    <2>1. a[i].name = a[j].name
        BY <1>7, <1>8
    <2>2. SameName(a, i) = SameName(a, j)
        BY <2>1 DEF SameName
    <2> QED
        BY <2>2 DEF Firsts
  <1>9. ASSUME NEW i \in Firsts(a)
        PROVE  files[i].name \in AnswerNames(prefix) /\ files[i].content.of = subject
      BY <1>5, <1>6, <1>7
  <1> HIDE DEF files
  <1>10. DOMAIN files # {}
      BY DEF files
  <1> QED
      BY <1>6, <1>7, <1>8, <1>9, <1>10 DEF FilesAbout, files

LEMMA FirstIsFile ==
  ASSUME NEW files, NEW prefix, NEW subject, FilesAbout(files, prefix, subject)
  PROVE  /\ Min(DOMAIN files) \in DOMAIN files
         /\ FirstFile(files).content.of = subject
  BY LeastNumber DEF FilesAbout, FirstFile

----------------------------------------------------------------------------
(* benchgen.py: what it knows and has written.                             *)

Testbench(p) == TbFile[dut_prefix(request[p])]

\* The variables that have been assigned when it is at a statement.
BenchGenAssigned ==
  [x \in {"dut", "tempdir", "clone", "fetch", "leave", "bridge", "write bridge",
          "testbench", "write testbench", "ended"} |->
     CASE x = "dut" -> {}
       [] x \in {"tempdir", "clone", "fetch", "leave", "bridge"} -> {"dut_src", "prefix"}
       [] x \in {"write bridge", "testbench"} -> {"dut_src", "prefix", "bridge_files", "unwritten"}
       [] OTHER -> {"dut_src", "prefix", "bridge_files", "unwritten", "tb_files"}]

\* The files of the first answer,
BridgeFiles(p) ==
  FilesAbout(local[p].bridge_files, dut_prefix(request[p]), [dut |-> local[p].dut_src.version])

\* and of the second.
TestbenchFiles(p) ==
  FilesAbout(local[p].tb_files, dut_prefix(request[p]), FirstFile(local[p].bridge_files).content)

BenchGenLocals(p) ==
  /\ BenchGenAssigned[at[p]] \subseteq DOMAIN local[p]
  /\ "bridge_files" \in BenchGenAssigned[at[p]] => BridgeFiles(p)
  /\ "tb_files" \in BenchGenAssigned[at[p]] => TestbenchFiles(p)

\* The files at these places are in a directory.
InDir(d, files, places) == \A i \in places : d[files[i].name] = files[i].content

\* All files but those still to be written are.
Writing(p, files) ==
  /\ DOMAIN local[p].unwritten \subseteq DOMAIN files /\ DOMAIN local[p].unwritten # {}
  /\ \A i \in DOMAIN local[p].unwritten : local[p].unwritten[i] = files[i]
  /\ InDir(dir, files, DOMAIN files \ DOMAIN local[p].unwritten)

\* The files of the first answer that the second does not bring once more.
NotReplaced(p) ==
  {i \in DOMAIN local[p].bridge_files :
     local[p].bridge_files[i].name \notin NamesOf(local[p].tb_files)}

BenchGenDir(p) ==
  /\ at[p] = "write bridge" => Writing(p, local[p].bridge_files)
  /\ at[p] = "testbench" => InDir(dir, local[p].bridge_files, DOMAIN local[p].bridge_files)
  /\ at[p] \in {"write testbench", "ended"} => InDir(dir, local[p].bridge_files, NotReplaced(p))
  /\ at[p] = "write testbench" => Writing(p, local[p].tb_files)
  /\ at[p] = "ended" => InDir(dir, local[p].tb_files, DOMAIN local[p].tb_files)

\* What the first answer has, or may have, overwritten.
Overwritten(p) ==
  IF at[p] \in {"dut", "tempdir", "clone", "fetch", "leave", "bridge"}
     \/ "bridge_files" \notin DOMAIN local[p]
  THEN {} ELSE NamesOf(local[p].bridge_files)

OldTests(p) ==
  \A f \in {Testbench(p), "Makefile"} \ Overwritten(p) : dir[f] = StartDir[f]

BenchGenInv(p) ==
  /\ at[p] \in DOMAIN BenchGenAssigned
  /\ raised[p] = "none" \/ at[p] \in {"leave", "ended"}
  /\ "prefix" \in DOMAIN local[p] => local[p].prefix = dut_prefix(request[p])
  /\ raised[p] = "none" => BenchGenLocals(p) /\ BenchGenDir(p)
  /\ at[p] # "write testbench" /\ ~ Done(p) => OldTests(p)

\* The files a run may write.
LEMMA BenchGenNames ==
  ASSUME Commands, NEW p \in Procs, request[p].script = "benchgen.py"
  PROVE  /\ dut_prefix(request[p]) \in DOMAIN BridgeFile
         /\ Outputs(request[p]) = AnswerNames(dut_prefix(request[p]))
         /\ Outputs(request[p]) \subseteq DOMAIN StartDir
         /\ {Testbench(p), "Makefile"} \subseteq Outputs(request[p])
  <1>1. dut_prefix(request[p]) \in DOMAIN BridgeFile /\ Outputs(request[p]) \subseteq DOMAIN StartDir
      BY ToolsAssumption DEF Commands
  <1>2. Outputs(request[p]) = AnswerNames(dut_prefix(request[p]))
      BY DEF Outputs
  <1> QED
      BY <1>1, <1>2 DEF Testbench, AnswerNames

\* A failure.
LEMMA BenchGenRaiseStep ==
  ASSUME Ownership, DirShape, NEW p \in Procs, BenchGenInv(p),
         at[p] \notin {"write bridge", "write testbench", "leave", "ended"},
         UNCHANGED <<request, local, dir>>, NEW e, e # "none", Raise(p, e)
  PROVE  BenchGenInv(p)' /\ LeavesRest(p)
  <1>1. at'[p] \in {"leave", "ended"} /\ raised'[p] = e /\ (at[p] = "testbench" => at'[p] = "ended")
    <2>1. bin[p] = None
        BY OwnedHere DEF BenchGenInv, BenchGenAssigned, FileStatements
    <2>2. at[p] = "testbench" => td[p] = None
        BY OwnedHere DEF DirStatements
    <2> QED
        BY <2>1, <2>2, HasRaised DEF Unwind
  <1>2. Overwritten(p) \subseteq Overwritten(p)'
    <2>1. at[p] \in {"dut", "tempdir", "clone", "fetch", "leave", "bridge", "testbench"}
        BY DEF BenchGenInv, BenchGenAssigned
    <2> QED
        BY <1>1, <2>1 DEF Overwritten, NamesOf
  <1>3. ~ Done(p) /\ ~ Done(p)' /\ (OldTests(p) => OldTests(p)')
      BY <1>1, <1>2 DEF Done, At, OldTests, Testbench
  <1>4. DirShape'
      BY DEF DirShape
  <1>5. at'[p] \in DOMAIN BenchGenAssigned
      BY <1>1 DEF BenchGenAssigned
  <1> QED
      BY <1>1, <1>3, <1>4, <1>5 DEF BenchGenInv, LeavesRest

\* A step up to the first answer, which writes no file.
LEMMA BenchGenQuietStep ==
  ASSUME Ownership, DirShape, NEW p \in Procs, BenchGenInv(p),
         at[p] \in {"dut", "tempdir", "clone", "fetch", "leave", "bridge"},
         UNCHANGED <<request, dir>>, raised[p] = "none",
         NEW x \in DOMAIN BenchGenAssigned \ {"write testbench", "ended"}, Goto(p, x),
         "prefix" \in DOMAIN local'[p] => local'[p].prefix = dut_prefix(request[p]),
         BenchGenLocals(p)', BenchGenDir(p)'
  PROVE  BenchGenInv(p)' /\ LeavesRest(p)
  <1>1. at'[p] = x /\ raised'[p] = "none"
      BY Gone
  <1>2. Overwritten(p) = {}
      BY DEF Overwritten
  <1>3. ~ Done(p)' /\ ~ Done(p) /\ (OldTests(p) => OldTests(p)')
      BY <1>1, <1>2 DEF Done, At, OldTests, Testbench
  <1>4. DirShape'
      BY DEF DirShape
  <1> QED
      BY <1>1, <1>3, <1>4 DEF BenchGenInv, LeavesRest

\* In particular one that asks nothing and assigns nothing.
LEMMA BenchGenMoveOn ==
  ASSUME Ownership, DirShape, NEW p \in Procs, BenchGenInv(p), raised[p] = "none",
         at[p] \in {"tempdir", "clone", "fetch", "leave"},
         UNCHANGED <<request, local, dir>>,
         NEW x \in {"clone", "fetch", "leave", "bridge"}, Goto(p, x)
  PROVE  BenchGenInv(p)' /\ LeavesRest(p)
  <1>1. at'[p] = x
      BY Gone
  <1>2. /\ BenchGenAssigned[at[p]] = {"dut_src", "prefix"}
        /\ BenchGenAssigned[x] = {"dut_src", "prefix"}
        /\ "bridge_files" \notin BenchGenAssigned[x] /\ "tb_files" \notin BenchGenAssigned[x]
        /\ x \in DOMAIN BenchGenAssigned \ {"write testbench", "ended"}
      BY DEF BenchGenAssigned
  <1>3. BenchGenLocals(p)'
      BY <1>1, <1>2 DEF BenchGenInv, BenchGenLocals
  <1>4. BenchGenDir(p)'
      BY <1>1 DEF BenchGenDir
  <1>5. "prefix" \in DOMAIN local'[p] => local'[p].prefix = dut_prefix(request[p])
      BY DEF BenchGenInv
  <1> QED
      BY <1>1, <1>2, <1>3, <1>4, <1>5, BenchGenQuietStep

----------------------------------------------------------------------------
(* Writing the files of an answer.                                         *)

\* The first of the files that are left is written, and nothing else.
LEMMA FileWritten ==
  ASSUME Ownership, Commands, DirShape, NEW p \in Procs, request[p].script = "benchgen.py",
         NEW here, NEW there, WriteFiles(p, here, there),
         NEW files, NEW subject, FilesAbout(files, dut_prefix(request[p]), subject),
         Writing(p, files)
  PROVE  /\ LeavesRest(p) /\ request' = request /\ raised'[p] = raised[p]
         /\ \A f \in DOMAIN StartDir \ NamesOf(files) : dir'[f] = dir[f]
         /\ DOMAIN local'[p] = {"unwritten"} \cup DOMAIN local[p]
         /\ \A v \in DOMAIN local[p] \ {"unwritten"} : local'[p][v] = local[p][v]
         /\ LET left == local'[p].unwritten
            IN  /\ DOMAIN left \subseteq DOMAIN files
                /\ \A i \in DOMAIN left : left[i] = files[i]
                /\ InDir(dir', files, DOMAIN files \ DOMAIN left)
                /\ IF DOMAIN left = {} THEN at'[p] = there ELSE at'[p] = at[p]
  <1> DEFINE u    == local[p].unwritten
             m    == Min(DOMAIN u)
             rest == DOMAIN u \ {m}
             left == [i \in rest |-> u[i]]
             values == [unwritten |-> left]
  <1>1. DOMAIN u \subseteq DOMAIN files /\ DOMAIN u # {} /\ \A i \in DOMAIN u : u[i] = files[i]
      BY DEF Writing
  <1>2. m \in DOMAIN u /\ u[m] = files[m] /\ FirstFile(u) = files[m]
    <2>1. DOMAIN u \subseteq Nat
        BY <1>1 DEF FilesAbout
    <2> QED
        BY <1>1, <2>1, LeastNumber DEF FirstFile
  <1>3. /\ Write(files[m].name, files[m].content) /\ request' = request
        /\ Assign(p, values)
        /\ IF rest = {} THEN Goto(p, there) ELSE UNCHANGED <<at, raised>>
      BY <1>2 DEF WriteFiles
  <1>4. NamesOf(files) \subseteq Outputs(request[p]) /\ NamesOf(files) \subseteq DOMAIN StartDir
    <2>1. NamesOf(files) \subseteq AnswerNames(dut_prefix(request[p]))
        BY DEF NamesOf, FilesAbout
    <2> QED
        BY <2>1, BenchGenNames
  <1>5. files[m].name \in NamesOf(files)
      BY <1>1, <1>2 DEF NamesOf
  <1>6. /\ DirShape' /\ dir'[files[m].name] = files[m].content
        /\ \A g \in DOMAIN StartDir \ {files[m].name} : dir'[g] = dir[g]
      BY <1>3, <1>4, <1>5, Written
  <1>7. LeavesRest(p) /\ \A f \in DOMAIN StartDir \ NamesOf(files) : dir'[f] = dir[f]
      BY <1>4, <1>5, <1>6 DEF LeavesRest
  <1>8. DOMAIN values = {"unwritten"} /\ values["unwritten"] = left
      OBVIOUS
  <1> HIDE DEF values
  <1>9. /\ local'[p].unwritten = left
        /\ DOMAIN local'[p] = {"unwritten"} \cup DOMAIN local[p]
        /\ \A v \in DOMAIN local[p] \ {"unwritten"} : local'[p][v] = local[p][v]
    <2> HIDE DEF left
    <2> QED
        BY <1>3, <1>8, Assigned
  <1>10. DOMAIN left = rest /\ \A i \in rest : left[i] = files[i]
      BY <1>1
  <1>11. InDir(dir', files, DOMAIN files \ rest)
    <2>1. ASSUME NEW i \in DOMAIN files \ rest, i # m
          PROVE  dir'[files[i].name] = files[i].content
      <3>1. dir[files[i].name] = files[i].content
          BY <2>1 DEF Writing, InDir
      <3>2. files[i].name # files[m].name
          BY <1>1, <1>2, <2>1 DEF FilesAbout
      <3>3. files[i].name \in DOMAIN StartDir
          BY <1>4, <2>1 DEF NamesOf
      <3> QED
          BY <1>6, <3>1, <3>2, <3>3
    <2> QED
        BY <1>6, <2>1 DEF InDir
  <1>12. raised'[p] = raised[p] /\ IF rest = {} THEN at'[p] = there ELSE at'[p] = at[p]
      BY <1>3, Gone
  <1> HIDE DEF left, rest
  <1>13. rest \subseteq DOMAIN files
      BY <1>1 DEF rest
  <1> QED
      BY <1>3, <1>7, <1>9, <1>10, <1>11, <1>12, <1>13

LEMMA WriteBridgeKeeps ==
  ASSUME Ownership, Commands, DirShape, NEW p \in Procs, request[p].script = "benchgen.py",
         BenchGenInv(p), WriteFiles(p, "write bridge", "testbench")
  PROVE  BenchGenInv(p)' /\ LeavesRest(p)
  <1> DEFINE files == local[p].bridge_files
             some  == {"dut_src", "prefix", "bridge_files", "unwritten"}
  <1>1. at[p] = "write bridge" /\ raised[p] = "none"
      BY DEF WriteFiles, At, BenchGenInv
  <1>2. /\ BenchGenAssigned["write bridge"] = some /\ BenchGenAssigned["testbench"] = some
        /\ {"write bridge", "testbench"} \subseteq DOMAIN BenchGenAssigned
      BY DEF BenchGenAssigned
  <1>3. /\ some \subseteq DOMAIN local[p] /\ BridgeFiles(p) /\ Writing(p, files) /\ OldTests(p)
        /\ local[p].prefix = dut_prefix(request[p])
      BY <1>1, <1>2 DEF BenchGenInv, BenchGenLocals, BenchGenDir, Done, At
  <1> DEFINE left == local'[p].unwritten
  <1>4. /\ LeavesRest(p) /\ request' = request /\ raised'[p] = raised[p]
        /\ \A f \in DOMAIN StartDir \ NamesOf(files) : dir'[f] = dir[f]
        /\ DOMAIN local'[p] = {"unwritten"} \cup DOMAIN local[p]
        /\ \A v \in DOMAIN local[p] \ {"unwritten"} : local'[p][v] = local[p][v]
        /\ DOMAIN left \subseteq DOMAIN files
        /\ \A i \in DOMAIN left : left[i] = files[i]
        /\ InDir(dir', files, DOMAIN files \ DOMAIN left)
        /\ IF DOMAIN left = {} THEN at'[p] = "testbench" ELSE at'[p] = at[p]
    <2> HIDE DEF files
    <2>1. FilesAbout(files, dut_prefix(request[p]), [dut |-> local[p].dut_src.version])
        BY <1>3 DEF BridgeFiles, files
    <2> QED
        BY <1>3, <2>1, FileWritten
  <1>5. /\ local'[p].bridge_files = files /\ local'[p].dut_src = local[p].dut_src
        /\ local'[p].prefix = local[p].prefix /\ some \subseteq DOMAIN local'[p]
    <2>1. \A v \in some \ {"unwritten"} : local'[p][v] = local[p][v]
        BY <1>3, <1>4
    <2> QED
        BY <1>3, <1>4, <2>1
  <1>6. at'[p] \in {"testbench", "write bridge"}
      BY <1>1, <1>4
  <1>7. BenchGenLocals(p)'
    <2>1. BridgeFiles(p)'
        BY <1>3, <1>4, <1>5 DEF BridgeFiles
    <2>2. BenchGenAssigned[at'[p]] = some
        BY ONLY <1>2, <1>6
    <2>3. "tb_files" \notin BenchGenAssigned[at'[p]]
        BY ONLY <2>2
    <2> QED
        BY <1>5, <2>1, <2>2, <2>3 DEF BenchGenLocals
  <1>8. BenchGenDir(p)'
    <2> HIDE DEF files
    <2>1. CASE DOMAIN left = {}
      <3>1. at'[p] = "testbench" /\ DOMAIN files \ DOMAIN left = DOMAIN files
          BY <1>4, <2>1
      <3>2. InDir(dir', files, DOMAIN files)
          BY <1>4, <3>1
      <3> QED
          BY <1>5, <3>1, <3>2 DEF BenchGenDir
    <2>2. CASE DOMAIN left # {}
      <3>1. at'[p] = "write bridge"
          BY <1>1, <1>4, <2>2
      <3>2. Writing(p, files)'
          BY <1>4, <1>5, <2>2 DEF Writing, files
      <3> QED
          BY <1>5, <3>1, <3>2 DEF BenchGenDir, files
    <2> QED
        BY <2>1, <2>2
  <1>9. OldTests(p)'
    <2>1. Overwritten(p) = NamesOf(files) /\ Overwritten(p)' = NamesOf(files)
        BY <1>1, <1>3, <1>5, <1>6 DEF Overwritten, NamesOf
    <2>2. Testbench(p)' = Testbench(p) /\ {Testbench(p), "Makefile"} \subseteq DOMAIN StartDir
        BY <1>4, BenchGenNames DEF Testbench
    <2> QED
        BY <1>3, <1>4, <2>1, <2>2 DEF OldTests
  <1> QED
      BY <1>1, <1>2, <1>3, <1>4, <1>5, <1>6, <1>7, <1>8, <1>9 DEF BenchGenInv

LEMMA WriteTestbenchKeeps ==
  ASSUME Ownership, Commands, DirShape, NEW p \in Procs, request[p].script = "benchgen.py",
         BenchGenInv(p), WriteFiles(p, "write testbench", "ended")
  PROVE  BenchGenInv(p)' /\ LeavesRest(p)
  <1> DEFINE files   == local[p].tb_files
             bridges == local[p].bridge_files
             all     == {"dut_src", "prefix", "bridge_files", "unwritten", "tb_files"}
  <1>1. at[p] = "write testbench" /\ raised[p] = "none"
      BY DEF WriteFiles, At, BenchGenInv
  <1>2. /\ BenchGenAssigned["write testbench"] = all /\ BenchGenAssigned["ended"] = all
        /\ {"write testbench", "ended"} \subseteq DOMAIN BenchGenAssigned
      BY DEF BenchGenAssigned
  <1>3. /\ all \subseteq DOMAIN local[p] /\ BridgeFiles(p) /\ TestbenchFiles(p)
        /\ Writing(p, files) /\ InDir(dir, bridges, NotReplaced(p))
        /\ local[p].prefix = dut_prefix(request[p])
      BY <1>1, <1>2 DEF BenchGenInv, BenchGenLocals, BenchGenDir
  <1> DEFINE left == local'[p].unwritten
  <1>4. /\ LeavesRest(p) /\ request' = request /\ raised'[p] = raised[p]
        /\ \A f \in DOMAIN StartDir \ NamesOf(files) : dir'[f] = dir[f]
        /\ DOMAIN local'[p] = {"unwritten"} \cup DOMAIN local[p]
        /\ \A v \in DOMAIN local[p] \ {"unwritten"} : local'[p][v] = local[p][v]
        /\ DOMAIN left \subseteq DOMAIN files
        /\ \A i \in DOMAIN left : left[i] = files[i]
        /\ InDir(dir', files, DOMAIN files \ DOMAIN left)
        /\ IF DOMAIN left = {} THEN at'[p] = "ended" ELSE at'[p] = at[p]
    <2> HIDE DEF files
    <2>1. FilesAbout(files, dut_prefix(request[p]), FirstFile(bridges).content)
        BY <1>3 DEF TestbenchFiles, files
    <2> QED
        BY <1>3, <2>1, FileWritten
  <1>5. /\ local'[p].tb_files = files /\ local'[p].bridge_files = bridges
        /\ local'[p].dut_src = local[p].dut_src
        /\ local'[p].prefix = local[p].prefix /\ all \subseteq DOMAIN local'[p]
    <2>1. \A v \in all \ {"unwritten"} : local'[p][v] = local[p][v]
        BY <1>3, <1>4
    <2> QED
        BY <1>3, <1>4, <2>1
  <1>6. at'[p] \in {"write testbench", "ended"}
      BY <1>1, <1>4
  <1>7. BenchGenLocals(p)'
    <2>1. BridgeFiles(p)' /\ TestbenchFiles(p)'
        BY <1>3, <1>4, <1>5 DEF BridgeFiles, TestbenchFiles
    <2>2. BenchGenAssigned[at'[p]] = all
        BY ONLY <1>2, <1>6
    <2> QED
        BY <1>5, <2>1, <2>2 DEF BenchGenLocals
  <1>8. NotReplaced(p)' = NotReplaced(p) /\ InDir(dir', bridges, NotReplaced(p)')
    <2>1. NotReplaced(p)' = NotReplaced(p)
        BY <1>5 DEF NotReplaced
    <2>2. ASSUME NEW i \in NotReplaced(p)
          PROVE  dir'[bridges[i].name] = bridges[i].content
      <3>1. bridges[i].name \notin NamesOf(files) /\ i \in DOMAIN bridges
          BY DEF NotReplaced
      <3>2. bridges[i].name \in AnswerNames(dut_prefix(request[p]))
          BY <1>3, <3>1 DEF BridgeFiles, FilesAbout
      <3>3. bridges[i].name \in DOMAIN StartDir
          BY <3>2, BenchGenNames
      <3> QED
          BY <1>3, <1>4, <3>1, <3>3 DEF InDir
    <2> QED
        BY <2>1, <2>2 DEF InDir
  <1>9. BenchGenDir(p)'
    <2>1. CASE DOMAIN left = {}
      <3>1. at'[p] = "ended" /\ DOMAIN files \ DOMAIN left = DOMAIN files
          BY <1>4, <2>1
      <3> HIDE DEF files
      <3>2. InDir(dir', files, DOMAIN files)
          BY <1>4, <3>1
      <3> QED
          BY <1>5, <1>8, <3>1, <3>2 DEF BenchGenDir
    <2>2. CASE DOMAIN left # {}
      <3>1. at'[p] = "write testbench"
          BY <1>1, <1>4, <2>2
      <3>2. Writing(p, files)'
          BY <1>4, <1>5, <2>2 DEF Writing
      <3> QED
          BY <1>5, <1>8, <3>1, <3>2 DEF BenchGenDir
    <2> QED
        BY <2>1, <2>2
  <1>10. at'[p] = "write testbench" \/ Done(p)'
      BY <1>1, <1>4, <1>6 DEF Done, At
  <1> QED
      BY <1>1, <1>2, <1>3, <1>4, <1>5, <1>6, <1>7, <1>9, <1>10 DEF BenchGenInv

----------------------------------------------------------------------------
(* Its questions, and its other statements.                                *)

\* The files of an answer are kept.
FilesKept(p, files, name, there) ==
  /\ DOMAIN files # {} /\ Goto(p, there)
  /\ local'[p][name] = files /\ local'[p]["unwritten"] = files
  /\ DOMAIN local'[p] = {name, "unwritten"} \cup DOMAIN local[p]
  /\ \A v \in DOMAIN local[p] \ {name, "unwritten"} : local'[p][v] = local[p][v]

LEMMA FilesAsked ==
  ASSUME Ownership, NEW p \in Procs, NEW here, NEW subject, NEW name, NEW there,
         AskFor(p, here, subject, name, there)
  PROVE  \/ Raise(p, "ValueError") /\ UNCHANGED local
         \/ \E files : /\ FilesKept(p, files, name, there)
                       /\ FilesAbout(files, local[p].prefix, subject)
  <1>1. PICK answer \in call_claude(local[p].prefix, subject) :
          IF DOMAIN extract_files(answer) = {}
          THEN Raise(p, "ValueError") /\ UNCHANGED local
          ELSE /\ Goto(p, there)
               /\ Assign(p, [v \in {name, "unwritten"} |-> extract_files(answer)])
      BY DEF AskFor
  <1>2. CASE DOMAIN extract_files(answer) # {}
    <2> DEFINE files  == extract_files(answer)
               values == [v \in {name, "unwritten"} |-> files]
    <2>1. /\ DOMAIN values = {name, "unwritten"} /\ values[name] = files
          /\ values["unwritten"] = files
        OBVIOUS
    <2>2. Goto(p, there) /\ Assign(p, values)
        BY <1>1, <1>2
    <2>3. /\ local'[p][name] = files /\ local'[p]["unwritten"] = files
          /\ DOMAIN local'[p] = {name, "unwritten"} \cup DOMAIN local[p]
          /\ \A v \in DOMAIN local[p] \ {name, "unwritten"} : local'[p][v] = local[p][v]
      <3> HIDE DEF values, files
      <3> QED
          BY <2>1, <2>2, Assigned
    <2>4. FilesAbout(files, local[p].prefix, subject)
        BY <1>2, FilesOfAnswer
    <2> QED
        BY <1>2, <2>2, <2>3, <2>4 DEF FilesKept
  <1> QED
      BY <1>1, <1>2

\* An answer of which nothing is written yet.
LEMMA AnswerIsUnwritten ==
  ASSUME NEW p \in Procs, NEW files, NEW prefix, NEW subject, FilesAbout(files, prefix, subject),
         local'[p].unwritten = files
  PROVE  Writing(p, files)'
  BY DEF Writing, InDir, FilesAbout

LEMMA BridgeAsked ==
  ASSUME Ownership, Commands, DirShape, NEW p \in Procs, request[p].script = "benchgen.py",
         BenchGenInv(p), generate_bridge(p)
  PROVE  BenchGenInv(p)' /\ LeavesRest(p)
  <1> DEFINE prefix  == dut_prefix(request[p])
             subject == [dut |-> local[p].dut_src.version]
             some    == {"dut_src", "prefix", "bridge_files", "unwritten"}
  <1>1. at[p] = "bridge" /\ raised[p] = "none" /\ UNCHANGED <<request, dir>>
      BY DEF generate_bridge, AskFor, At, BenchGenInv
  <1>2. /\ BenchGenAssigned["bridge"] = {"dut_src", "prefix"}
        /\ BenchGenAssigned["write bridge"] = some
        /\ "tb_files" \notin BenchGenAssigned["write bridge"]
        /\ "write bridge" \in DOMAIN BenchGenAssigned \ {"write testbench", "ended"}
      BY DEF BenchGenAssigned
  <1>3. {"dut_src", "prefix"} \subseteq DOMAIN local[p] /\ local[p].prefix = prefix
      BY <1>1, <1>2 DEF BenchGenInv, BenchGenLocals
  <1>4. AskFor(p, "bridge", subject, "bridge_files", "write bridge")
      BY DEF generate_bridge
  <1>5. CASE Raise(p, "ValueError") /\ UNCHANGED local
      BY <1>1, <1>5, BenchGenRaiseStep
  <1>6. ASSUME NEW files, FilesKept(p, files, "bridge_files", "write bridge"),
               FilesAbout(files, prefix, subject)
        PROVE  BenchGenInv(p)' /\ LeavesRest(p)
    <2>1. /\ at'[p] = "write bridge" /\ local'[p].bridge_files = files
          /\ local'[p].unwritten = files
          /\ local'[p].dut_src = local[p].dut_src /\ local'[p].prefix = prefix
          /\ some \subseteq DOMAIN local'[p]
        BY <1>3, <1>6, Gone DEF FilesKept
    <2>2. BridgeFiles(p)'
        BY <1>1, <1>6, <2>1 DEF BridgeFiles
    <2>3. BenchGenLocals(p)'
        BY <1>2, <2>1, <2>2 DEF BenchGenLocals
    <2>4. Writing(p, files)'
      <3> HIDE DEF prefix, subject
      <3> QED
          BY <1>6, <2>1, AnswerIsUnwritten
    <2>5. BenchGenDir(p)'
        BY <2>1, <2>4 DEF BenchGenDir
    <2>6. Goto(p, "write bridge")
        BY <1>6 DEF FilesKept
    <2> QED
        BY <1>1, <1>2, <2>1, <2>3, <2>5, <2>6, BenchGenQuietStep
  <1>7. \/ Raise(p, "ValueError") /\ UNCHANGED local
        \/ \E files : /\ FilesKept(p, files, "bridge_files", "write bridge")
                      /\ FilesAbout(files, prefix, subject)
    <2> HIDE DEF subject
    <2> QED
        BY <1>3, <1>4, FilesAsked
  <1> QED
      BY <1>5, <1>6, <1>7

LEMMA TestbenchAsked ==
  ASSUME Ownership, Commands, DirShape, NEW p \in Procs, request[p].script = "benchgen.py",
         BenchGenInv(p), generate_testbench(p)
  PROVE  BenchGenInv(p)' /\ LeavesRest(p)
  <1> DEFINE prefix  == dut_prefix(request[p])
             bridges == local[p].bridge_files
             subject == FirstFile(bridges).content
             some    == {"dut_src", "prefix", "bridge_files", "unwritten"}
             all     == {"dut_src", "prefix", "bridge_files", "unwritten", "tb_files"}
  <1>1. at[p] = "testbench" /\ raised[p] = "none" /\ UNCHANGED <<request, dir>>
      BY DEF generate_testbench, AskFor, At, BenchGenInv
  <1>2. /\ BenchGenAssigned["testbench"] = some
        /\ BenchGenAssigned["write testbench"] = all
        /\ "write testbench" \in DOMAIN BenchGenAssigned
      BY DEF BenchGenAssigned
  <1>3. /\ some \subseteq DOMAIN local[p] /\ local[p].prefix = prefix
        /\ BridgeFiles(p) /\ InDir(dir, bridges, DOMAIN bridges)
      BY <1>1, <1>2 DEF BenchGenInv, BenchGenLocals, BenchGenDir
  <1>4. AskFor(p, "testbench", subject, "tb_files", "write testbench")
      BY DEF generate_testbench
  <1>5. CASE Raise(p, "ValueError") /\ UNCHANGED local
      BY <1>1, <1>5, BenchGenRaiseStep
  <1>6. ASSUME NEW files, FilesKept(p, files, "tb_files", "write testbench"),
               FilesAbout(files, prefix, subject)
        PROVE  BenchGenInv(p)' /\ LeavesRest(p)
    <2>1. /\ at'[p] = "write testbench" /\ raised'[p] = "none"
          /\ local'[p].tb_files = files /\ local'[p].unwritten = files
          /\ local'[p].dut_src = local[p].dut_src /\ local'[p].prefix = prefix
          /\ local'[p].bridge_files = bridges
          /\ all \subseteq DOMAIN local'[p]
        BY <1>1, <1>3, <1>6, Gone DEF FilesKept
    <2>2. BridgeFiles(p)'
        BY <1>1, <1>3, <2>1 DEF BridgeFiles
    <2>3. TestbenchFiles(p)'
        BY <1>1, <1>6, <2>1 DEF TestbenchFiles
    <2>4. BenchGenLocals(p)'
        BY <1>2, <2>1, <2>2, <2>3 DEF BenchGenLocals
    <2>5. Writing(p, files)'
      <3> HIDE DEF prefix, subject
      <3> QED
          BY <1>6, <2>1, AnswerIsUnwritten
    <2>6. InDir(dir', bridges, NotReplaced(p)')
        BY <1>1, <1>3, <2>1 DEF InDir, NotReplaced
    <2>7. BenchGenDir(p)'
        BY <2>1, <2>5, <2>6 DEF BenchGenDir
    <2>8. DirShape' /\ LeavesRest(p)
        BY <1>1 DEF DirShape, LeavesRest
    <2> QED
        BY <1>1, <1>2, <2>1, <2>4, <2>7, <2>8 DEF BenchGenInv
  <1>7. \/ Raise(p, "ValueError") /\ UNCHANGED local
        \/ \E files : /\ FilesKept(p, files, "tb_files", "write testbench")
                      /\ FilesAbout(files, prefix, subject)
    <2> HIDE DEF subject
    <2> QED
        BY <1>3, <1>4, FilesAsked
  <1> QED
      BY <1>5, <1>6, <1>7

LEMMA DutRead ==
  ASSUME Ownership, DirShape, NEW p \in Procs, BenchGenInv(p), ReadDut(p)
  PROVE  BenchGenInv(p)' /\ LeavesRest(p)
  <1> DEFINE r == request[p]
             dut_src == dir[r.dut]
             example == IF r.example # None THEN r.example ELSE detect_example(dut_src)
             values == [dut_src |-> dut_src, prefix |-> dut_prefix(r), example |-> example]
  <1>1. at[p] = "dut" /\ raised[p] = "none" /\ UNCHANGED <<request, dir>>
      BY DEF ReadDut, At, BenchGenInv
  <1>2. CASE \E e : e # "none" /\ Raise(p, e) /\ UNCHANGED local
      BY <1>1, <1>2, BenchGenRaiseStep
  <1>3. CASE Goto(p, "tempdir") /\ Assign(p, values)
    <2>1. /\ DOMAIN values = {"dut_src", "prefix", "example"}
          /\ values["prefix"] = dut_prefix(r)
        OBVIOUS
    <2> HIDE DEF values
    <2>2. {"dut_src", "prefix"} \subseteq DOMAIN local'[p] /\ local'[p].prefix = dut_prefix(r)
        BY <1>3, <2>1, Assigned
    <2>3. at'[p] = "tempdir"
        BY <1>3, Gone
    <2>4. /\ BenchGenAssigned["tempdir"] = {"dut_src", "prefix"}
          /\ "bridge_files" \notin BenchGenAssigned["tempdir"]
          /\ "tb_files" \notin BenchGenAssigned["tempdir"]
          /\ "tempdir" \in DOMAIN BenchGenAssigned \ {"write testbench", "ended"}
        BY DEF BenchGenAssigned
    <2>5. BenchGenLocals(p)'
        BY <2>2, <2>3, <2>4 DEF BenchGenLocals
    <2>6. BenchGenDir(p)'
        BY <2>3 DEF BenchGenDir
    <2> QED
        BY <1>1, <1>3, <2>2, <2>4, <2>5, <2>6, BenchGenQuietStep
  <1> QED
      BY <1>2, <1>3 DEF ReadDut

\* At the end of the `with`, normally or with an exception.
LEMMA CloneLeft ==
  ASSUME Ownership, DirShape, NEW p \in Procs, BenchGenInv(p), LeaveTempDir(p, "bridge")
  PROVE  BenchGenInv(p)' /\ LeavesRest(p)
  <1>1. at[p] = "leave" /\ UNCHANGED <<request, local, dir>>
      BY DEF LeaveTempDir, At
  <1>2. CASE raised[p] = "none"
      BY <1>1, <1>2, BenchGenMoveOn DEF LeaveTempDir
  <1>3. CASE raised[p] # "none"
    <2>1. at'[p] = "ended" /\ raised'[p] = raised[p]
        BY <1>3, Gone DEF LeaveTempDir
    <2>2. ~ Done(p) /\ Overwritten(p) = {} /\ (OldTests(p) => OldTests(p)')
        BY <1>1 DEF Done, At, Overwritten, OldTests, Testbench
    <2>3. DirShape' /\ "ended" \in DOMAIN BenchGenAssigned
        BY <1>1 DEF DirShape, BenchGenAssigned
    <2> QED
        BY <1>1, <1>3, <2>1, <2>2, <2>3 DEF BenchGenInv, LeavesRest
  <1> QED
      BY <1>2, <1>3

LEMMA BenchGenStepKeeps ==
  ASSUME Ownership, Commands, DirShape, NEW p \in Procs, request[p].script = "benchgen.py",
         BenchGenInv(p), BenchGenStep(p)
  PROVE  BenchGenInv(p)' /\ LeavesRest(p)
  <1> USE DEF At
  <1>1. CASE ReadDut(p)
      BY <1>1, DutRead
  <1>2. CASE MakeCloneDir(p)
    <2>1. raised[p] = "none"
        BY <1>2 DEF MakeCloneDir, BenchGenInv
    <2> QED
        BY <1>2, <2>1, BenchGenMoveOn DEF MakeCloneDir
  <1>3. CASE Clone(p)
    <2>1. raised[p] = "none" /\ at[p] = "clone" /\ UNCHANGED <<request, local, dir>>
        BY <1>3 DEF Clone, BenchGenInv
    <2>2. CASE Goto(p, "fetch")
        BY <2>1, <2>2, BenchGenMoveOn
    <2>3. CASE Raise(p, "CalledProcessError")
        BY <2>1, <2>3, BenchGenRaiseStep
    <2> QED
        BY <1>3, <2>2, <2>3 DEF Clone
  <1>4. CASE ReadExample(p)
    <2>1. raised[p] = "none" /\ at[p] = "fetch" /\ UNCHANGED <<request, local, dir>>
        BY <1>4 DEF ReadExample, BenchGenInv
    <2>2. CASE Goto(p, "leave")
        BY <2>1, <2>2, BenchGenMoveOn
    <2>3. CASE Raise(p, "FileNotFoundError")
        BY <2>1, <2>3, BenchGenRaiseStep
    <2> QED
        BY <1>4, <2>2, <2>3 DEF ReadExample
  <1>5. CASE LeaveTempDir(p, "bridge")
      BY <1>5, CloneLeft
  <1>6. CASE generate_bridge(p)
      BY <1>6, BridgeAsked
  <1>7. CASE WriteFiles(p, "write bridge", "testbench")
      BY <1>7, WriteBridgeKeeps
  <1>8. CASE generate_testbench(p)
      BY <1>8, TestbenchAsked
  <1>9. CASE WriteFiles(p, "write testbench", "ended")
      BY <1>9, WriteTestbenchKeeps
  <1>10. CASE Interrupted(p, {"clone", "bridge", "testbench"})
      BY <1>10, BenchGenRaiseStep DEF Interrupted
  <1> QED
      BY <1>1, <1>2, <1>3, <1>4, <1>5, <1>6, <1>7, <1>8, <1>9, <1>10 DEF BenchGenStep

----------------------------------------------------------------------------
(* rv32i_compile.py: linking, padding and unpacking.                       *)

\* The sections of the files that are linked, one behind the other.
LEMMA FlattenOne ==
  ASSUME NEW s
  PROVE  FlattenSeq(<<s>>) = s
  <1> DEFINE f == [i \in 1 .. Len(<<s>>) |-> s]
  <1>1. Len(<<s>>) = 1 /\ <<s>>[1] = s
      OBVIOUS
  <1> DEFINE Eq(g) == g = [i \in 1 .. Len(<<s>>) |->
                             IF i = 1 THEN <<s>>[i] ELSE g[i - 1] \o <<s>>[i]]
  <1>2. Eq(f)
      BY <1>1
  <1>3. Eq(CHOOSE g : Eq(g))
      BY <1>2
  <1>4. FlattenSeq(<<s>>) = (CHOOSE g : Eq(g))[Len(<<s>>)]
      BY <1>1 DEF FlattenSeq
  <1> QED
      BY <1>1, <1>3, <1>4

LEMMA FlattenTwo ==
  ASSUME NEW s, NEW t
  PROVE  FlattenSeq(<<s, t>>) = s \o t
  <1> DEFINE st == <<s, t>>
             f == [i \in 1 .. Len(st) |-> IF i = 1 THEN s ELSE s \o t]
             Eq(g) == g = [i \in 1 .. Len(st) |-> IF i = 1 THEN st[i] ELSE g[i - 1] \o st[i]]
  <1>1. Len(st) = 2 /\ st[1] = s /\ st[2] = t
      OBVIOUS
  <1>2. Eq(f)
    <2> HIDE DEF st
    <2>1. f = [i \in 1 .. 2 |-> IF i = 1 THEN s ELSE s \o t]
        BY <1>1
    <2>2. f[1] = s
        BY <2>1
    <2> QED
        BY <1>1, <2>1, <2>2
  <1>3. Eq(CHOOSE g : Eq(g))
      BY <1>2
  <1>4. FlattenSeq(st) = (CHOOSE g : Eq(g))[Len(st)]
      BY <1>1 DEF FlattenSeq
  <1>5. ASSUME NEW g, Eq(g)
        PROVE  g[2] = s \o t
    <2> HIDE DEF st
    <2>1. g[1] = s
        BY <1>1, <1>5
    <2>2. 2 \in 1 .. Len(st) /\ 2 # 1 /\ 2 - 1 = 1
        BY <1>1
    <2>3. g[2] = g[2 - 1] \o st[2]
        BY <1>5, <2>2
    <2> QED
        BY <1>1, <2>1, <2>2, <2>3
  <1> HIDE DEF Eq
  <1> QED
      BY <1>1, <1>3, <1>4, <1>5

\* A byte of a word that is put together from four.
LEMMA ByteOfWord ==
  ASSUME NEW b, \A j \in 0 .. 3 : b[j] \in Word(8), NEW k \in 0 .. 3
  PROVE  Slice(UNION {ShiftLeft(b[j], 8 * j) : j \in 0 .. 3}, 8 * k + 7, 8 * k) = b[k]
  <1> DEFINE w == UNION {ShiftLeft(b[j], 8 * j) : j \in 0 .. 3}
  <1>1. \A x : x \in w <=> \E j \in 0 .. 3 : \E i \in b[j] : x = i + 8 * j
      BY DEF ShiftLeft
  <1>2. \A j \in 0 .. 3 : \A i \in b[j] : i \in 0 .. 7
      BY DEF Word, Bits
  <1>3. ASSUME NEW x \in w, 8 * k <= x, x <= 8 * k + 7
        PROVE  x - 8 * k \in b[k]
    <2>0. PICK j \in 0 .. 3 : \E i \in b[j] : x = i + 8 * j
        BY <1>1
    <2>1. PICK i \in b[j] : x = i + 8 * j
        BY <2>0
    <2>2. j = k
        BY <1>2, <1>3, <2>1
    <2> QED
        BY <1>2, <2>1, <2>2
  <1>4. ASSUME NEW i \in b[k]
        PROVE  i + 8 * k \in w /\ 8 * k <= i + 8 * k /\ i + 8 * k <= 8 * k + 7
      BY <1>1, <1>2
  <1> HIDE DEF w
  <1>5. Slice(w, 8 * k + 7, 8 * k) \subseteq b[k]
      BY <1>3 DEF Slice
  <1>6. ASSUME NEW i \in b[k]
        PROVE  i \in Slice(w, 8 * k + 7, 8 * k)
    <2>1. (i + 8 * k) - 8 * k = i
        BY <1>2
    <2> QED
        BY <1>4, <2>1 DEF Slice
  <1> QED
      BY <1>5, <1>6 DEF w

\* The data is filled up with zeros to whole words,
LEMMA PadFillsWord ==
  ASSUME NEW data \in Bytes
  PROVE  /\ Pad(data) \in Bytes
         /\ Len(Pad(data)) % 4 = 0 /\ Len(Pad(data)) - Len(data) \in 0 .. 3
         /\ \A i \in 1 .. Len(Pad(data)) :
              Pad(data)[i] = IF i <= Len(data) THEN data[i] ELSE {}
  <1> DEFINE n == (4 - (Len(data) % 4)) % 4
             zeros == [i \in 1 .. n |-> {}]
  <1>1. Len(data) \in Nat /\ n \in 0 .. 3 /\ (Len(data) + n) % 4 = 0
      BY DEF Bytes
  <1>2. {} \in Word(8)
      BY DEF Word
  <1>3. zeros \in Bytes /\ Len(zeros) = n /\ \A i \in 1 .. n : zeros[i] = {}
      BY <1>1, <1>2 DEF Bytes
  <1>4. Pad(data) = data \o zeros
      BY DEF Pad
  <1> HIDE DEF n, zeros
  <1>5. /\ Pad(data) \in Bytes /\ Len(Pad(data)) = Len(data) + n
        /\ \A i \in 1 .. Len(data) + n :
             Pad(data)[i] = IF i <= Len(data) THEN data[i] ELSE zeros[i - Len(data)]
      BY <1>1, <1>3, <1>4 DEF Bytes
  <1> QED
      BY <1>1, <1>3, <1>5

\* and the words are these bytes, the first one lowest.
LEMMA WordsOfBytes ==
  ASSUME NEW data \in Bytes, NEW words, words = Unpack(Pad(data))
  PROVE  /\ 4 * Len(words) - Len(data) \in 0 .. 3
         /\ \A i \in 1 .. Len(words), k \in 0 .. 3 :
              Slice(words[i], 8 * k + 7, 8 * k) =
                IF 4 * i - 3 + k <= Len(data) THEN data[4 * i - 3 + k] ELSE {}
  <1> DEFINE d == Pad(data)
             n == Len(d) \div 4
  <1>1. /\ d \in Seq(Word(8)) /\ Len(d) \in Nat /\ Len(data) \in Nat
        /\ Len(d) % 4 = 0 /\ Len(d) - Len(data) \in 0 .. 3
        /\ \A i \in 1 .. Len(d) : d[i] = IF i <= Len(data) THEN data[i] ELSE {}
      BY PadFillsWord DEF Bytes
  <1> HIDE DEF d
  <1>2. n \in Nat /\ Len(d) = 4 * n
      BY <1>1
  <1>3. words = [i \in 1 .. n |-> UNION {ShiftLeft(d[4 * i - 3 + j], 8 * j) : j \in 0 .. 3}]
      BY DEF Unpack, d
  <1> HIDE DEF n
  <1>4. Len(words) = n
      BY <1>2, <1>3
  <1>5. ASSUME NEW i \in 1 .. n, NEW k \in 0 .. 3
        PROVE  Slice(words[i], 8 * k + 7, 8 * k) = d[4 * i - 3 + k]
    <2> DEFINE b == [j \in 0 .. 3 |-> d[4 * i - 3 + j]]
    <2>1. \A j \in 0 .. 3 : 4 * i - 3 + j \in 1 .. Len(d)
        BY <1>2
    <2>2. \A j \in 0 .. 3 : b[j] \in Word(8)
      <3>1. \A x \in 1 .. Len(d) : d[x] \in Word(8)
          BY <1>1
      <3> QED
          BY ONLY <2>1, <3>1
    <2>3. words[i] = UNION {ShiftLeft(b[j], 8 * j) : j \in 0 .. 3}
        BY <1>3
    <2>4. b[k] = d[4 * i - 3 + k]
        OBVIOUS
    <2> HIDE DEF b
    <2> QED
        BY <2>2, <2>3, <2>4, ByteOfWord
  <1>6. ASSUME NEW i \in 1 .. n, NEW k \in 0 .. 3
        PROVE  d[4 * i - 3 + k] = IF 4 * i - 3 + k <= Len(data) THEN data[4 * i - 3 + k] ELSE {}
    <2>1. 4 * i - 3 + k \in 1 .. Len(d)
        BY <1>2
    <2> QED
        BY <1>1, <2>1
  <1>7. 4 * Len(words) - Len(data) \in 0 .. 3
      BY <1>1, <1>2, <1>4
  <1>8. ASSUME NEW i \in 1 .. Len(words), NEW k \in 0 .. 3
        PROVE  Slice(words[i], 8 * k + 7, 8 * k) =
                 IF 4 * i - 3 + k <= Len(data) THEN data[4 * i - 3 + k] ELSE {}
    <2>1. i \in 1 .. n
        BY <1>4
    <2> QED
        BY <1>5, <1>6, <2>1
  <1> QED
      BY <1>7, <1>8

----------------------------------------------------------------------------
(* rv32i_compile.py: what it has in its variables and temporary files.     *)

Source(p) == SourceText(request[p].src)

\* The code that a source is compiled and linked to.
Image(text) == (IF text.lang = "c" THEN CRT0_ASM.code ELSE << >>) \o text.code

CompileStatements ==
  {"source", "find", "tempdir", "sources", "gcc", "tempfile", "objcopy", "read", "unlink",
   "unpack", "leave", "print", "ended"}

\* Where the source, the linked code and the words are on the way.
Progress(p) ==
  /\ at[p] \in {"find", "tempdir", "sources"} =>
       "src_text" \in DOMAIN local[p] /\ local[p].src_text = Source(p)
  /\ at[p] = "gcc" => \E lang \in {"c", "asm"} : tmp[td[p]] = SourceFiles(lang, Source(p))
  /\ at[p] \in {"tempfile", "objcopy"} => tmp[td[p]].text = Image(Source(p))
  /\ at[p] = "read" => tmp[bin[p]] = Image(Source(p))
  /\ at[p] \in {"unlink", "unpack"} => local[p].data = Image(Source(p))
  /\ at[p] \in {"leave", "print", "ended"} => local[p].words = Unpack(Pad(Image(Source(p))))

CompileInv(p) ==
  /\ at[p] \in CompileStatements
  /\ Source(p).code \in Bytes
  /\ raised[p] = "none" => Progress(p)
  /\ raised[p] # "none" => at[p] \in {"unlink", "leave", "ended"}

\* gcc builds what is in the language that it is taken for, and puts the startup code of
\* a C program first.
LEMMA LinkedText ==
  ASSUME NEW text, text.code \in Bytes, NEW lang \in {"c", "asm"},
         Builds(SourceFiles(lang, text))
  PROVE  Elf(SourceFiles(lang, text)).text = Image(text)
  <1> DEFINE files == SourceFiles(lang, text)
  <1>1. Elf(files).text = FlattenSeq([i \in DOMAIN files |-> files[i].text.code])
      BY DEF Elf
  <1>2. \A i \in DOMAIN files : files[i].text.lang = files[i].as
      BY DEF Builds
  <1> DEFINE f == [as |-> "asm", text |-> CRT0_ASM]
             c == [as |-> "c", text |-> text]
             s == [as |-> "asm", text |-> text]
  <1>3. /\ f.text.code = CRT0_ASM.code /\ c.text = text /\ c.as = "c"
        /\ s.text = text /\ s.as = "asm"
      OBVIOUS
  <1>4. files = IF lang = "c" THEN <<f, c>> ELSE <<s>>
      BY DEF SourceFiles
  <1> HIDE DEF files, f, c, s
  <1>5. CASE lang = "c"
    <2>1. DOMAIN files = 1 .. 2 /\ files[1] = f /\ files[2] = c
        BY <1>4, <1>5
    <2>2. text.lang = "c"
        BY <1>2, <1>3, <2>1
    <2>3. [i \in DOMAIN files |-> files[i].text.code] = <<CRT0_ASM.code, text.code>>
      <3> DEFINE g == [i \in DOMAIN files |-> files[i].text.code]
      <3>1. g = [i \in 1 .. 2 |-> g[i]] /\ g[1] = CRT0_ASM.code /\ g[2] = text.code
          BY <1>3, <2>1
      <3> HIDE DEF g
      <3> QED
          BY <3>1 DEF g
    <2> QED
        BY <1>1, <2>2, <2>3, FlattenTwo DEF Image, files
  <1>6. CASE lang = "asm"
    <2>1. DOMAIN files = 1 .. 1 /\ files[1] = s
        BY <1>4, <1>6
    <2>2. text.lang # "c"
        BY <1>2, <1>3, <2>1
    <2>3. [i \in DOMAIN files |-> files[i].text.code] = <<text.code>>
      <3> DEFINE g == [i \in DOMAIN files |-> files[i].text.code]
      <3>1. g = [i \in 1 .. 1 |-> g[i]] /\ g[1] = text.code
          BY <1>3, <2>1
      <3> HIDE DEF g
      <3> QED
          BY <3>1 DEF g
    <2>4. << >> \o text.code = text.code
        BY DEF Bytes
    <2> QED
        BY <1>1, <2>2, <2>3, <2>4, FlattenOne DEF Image, files
  <1> QED
      BY <1>5, <1>6

\* A statement of p changes no file, so its source stays.
LEMMA SourceStays ==
  ASSUME NEW p \in Procs, UNCHANGED <<request, dir>>
  PROVE  Source(p)' = Source(p)
  BY DEF Source, SourceText, is_path

\* A failure.
LEMMA CompileRaiseStep ==
  ASSUME Ownership, NEW p \in Procs, CompileInv(p), UNCHANGED <<request, dir>>,
         NEW e, e # "none", Raise(p, e)
  PROVE  CompileInv(p)'
  <1>1. at'[p] \in {"unlink", "leave", "ended"} /\ raised'[p] # "none"
      BY HasRaised DEF Unwind
  <1> QED
      BY <1>1, SourceStays DEF CompileInv, CompileStatements

\* A step to another statement.
LEMMA CompileMoveOn ==
  ASSUME Ownership, NEW p \in Procs, CompileInv(p), raised[p] = "none",
         UNCHANGED <<request, dir>>, NEW x \in CompileStatements, Goto(p, x), Progress(p)'
  PROVE  CompileInv(p)'
  BY SourceStays, Gone DEF CompileInv

LEMMA CompileStepKeeps ==
  ASSUME Ownership, NEW p \in Procs, CompileInv(p), CompileStep(p)
  PROVE  CompileInv(p)'
  <1> USE DEF At
  <1> DEFINE T == Source(p)
  <1>1. UNCHANGED <<request, dir>>
      BY DEF CompileStep, ReadSource, FindGcc, MakeTempDir, WriteSources, RunGcc,
             MakeTempFile, RunObjcopy, ReadBinary, Unlink, PadAndUnpack, LeaveTempDir,
             PrintWords, Interrupted
  <1>2. Source(p)' = T
      BY <1>1, SourceStays
  <1>3. /\ raised[p] = "none" \/ at[p] \in {"unlink", "leave", "ended"}
        /\ raised[p] = "none" => Progress(p)
        /\ T.code \in Bytes
      BY DEF CompileInv
  <1> HIDE DEF T
  <1>4. CASE ReadSource(p)
    <2> DEFINE lang == SourceLang(request[p])
               values == [src_text |-> T, lang |-> lang]
    <2>1. Assign(p, values) /\ Goto(p, "find")
        BY <1>4 DEF ReadSource, T, Source
    <2>2. DOMAIN values = {"src_text", "lang"} /\ values["src_text"] = T
        OBVIOUS
    <2> HIDE DEF values
    <2>3. "src_text" \in DOMAIN local'[p] /\ local'[p].src_text = T
        BY <2>1, <2>2, Assigned
    <2>4. at'[p] = "find"
        BY <2>1, Gone
    <2>5. Progress(p)'
        BY <1>2, <2>3, <2>4 DEF Progress
    <2> QED
        BY <1>1, <1>3, <1>4, <2>1, <2>5, CompileMoveOn DEF ReadSource, CompileStatements
  <1>5. CASE FindGcc(p)
    <2>1. at[p] = "find" /\ raised[p] = "none"
        BY <1>3, <1>5 DEF FindGcc
    <2>2. CASE Raise(p, "FileNotFoundError")
        BY <1>1, <2>2, CompileRaiseStep
    <2>3. ASSUME NEW gcc, Goto(p, "tempdir"), Assign(p, [gcc |-> gcc])
          PROVE  CompileInv(p)'
      <3> DEFINE values == [gcc |-> gcc]
      <3>1. DOMAIN values = {"gcc"}
          OBVIOUS
      <3>2. Assign(p, values)
          BY <2>3
      <3> HIDE DEF values
      <3>3. "src_text" \in DOMAIN local[p] /\ local[p].src_text = T
          BY <1>3, <2>1 DEF Progress, T
      <3>4. "src_text" \in DOMAIN local'[p] /\ local'[p].src_text = T
          BY <3>1, <3>2, <3>3, Assigned
      <3>5. at'[p] = "tempdir"
          BY <2>3, Gone
      <3>6. Progress(p)'
          BY <1>2, <3>4, <3>5 DEF Progress
      <3> QED
          BY <1>1, <2>1, <2>3, <3>6, CompileMoveOn DEF CompileStatements
    <2> QED
        BY <1>5, <2>2, <2>3 DEF FindGcc
  <1>6. CASE MakeTempDir(p)
    <2>1. at[p] = "tempdir" /\ raised[p] = "none" /\ local' = local /\ Goto(p, "sources")
        BY <1>3, <1>6 DEF MakeTempDir
    <2>2. at'[p] = "sources"
        BY <2>1, Gone
    <2>3. Progress(p)'
        BY <1>2, <1>3, <2>1, <2>2 DEF Progress, T
    <2> QED
        BY <1>1, <2>1, <2>3, CompileMoveOn DEF CompileStatements
  <1>7. CASE WriteSources(p)
    <2>1. at[p] = "sources" /\ raised[p] = "none" /\ local[p].src_text = T /\ td' = td
        BY <1>3, <1>7 DEF WriteSources, Progress, T
    <2>2. CASE Raise(p, "ValueError")
        BY <1>1, <2>2, CompileRaiseStep
    <2>3. CASE /\ local[p].lang \in {"c", "asm"} /\ Goto(p, "gcc")
               /\ Put(td[p], SourceFiles(local[p].lang, local[p].src_text))
      <3>1. tmp'[td'[p]] = SourceFiles(local[p].lang, T)
          BY <2>1, <2>3 DEF Put
      <3>2. at'[p] = "gcc"
          BY <2>3, Gone
      <3>3. Progress(p)'
          BY <1>2, <2>3, <3>1, <3>2 DEF Progress
      <3> QED
          BY <1>1, <2>1, <2>3, <3>3, CompileMoveOn DEF CompileStatements
    <2> QED
        BY <1>7, <2>2, <2>3 DEF WriteSources
  <1>8. CASE RunGcc(p)
    <2>1. at[p] = "gcc" /\ raised[p] = "none" /\ td' = td
        BY <1>3, <1>8 DEF RunGcc
    <2>2. PICK lang \in {"c", "asm"} : tmp[td[p]] = SourceFiles(lang, T)
        BY <1>3, <2>1 DEF Progress, T
    <2>3. CASE Raise(p, "CalledProcessError")
        BY <1>1, <2>3, CompileRaiseStep
    <2>4. CASE /\ Builds(tmp[td[p]]) /\ Goto(p, "tempfile")
               /\ Put(td[p], Elf(tmp[td[p]]))
      <3>1. Elf(tmp[td[p]]).text = Image(T)
          BY <1>3, <2>2, <2>4, LinkedText
      <3>2. tmp'[td'[p]].text = Image(T)
          BY <2>1, <2>4, <3>1 DEF Put
      <3>3. at'[p] = "tempfile"
          BY <2>4, Gone
      <3>4. Progress(p)'
          BY <1>2, <3>2, <3>3 DEF Progress
      <3> QED
          BY <1>1, <2>1, <2>4, <3>4, CompileMoveOn DEF CompileStatements
    <2> QED
        BY <1>8, <2>3, <2>4 DEF RunGcc
  <1>9. CASE MakeTempFile(p)
    <2>1. /\ at[p] = "tempfile" /\ raised[p] = "none" /\ td' = td /\ Goto(p, "objcopy")
          /\ tmp[td[p]].text = Image(T)
        BY <1>3, <1>9 DEF MakeTempFile, Progress, T
    <2>2. td[p] \in DOMAIN tmp
        BY <2>1, OwnedHere DEF DirStatements, Ownership, OwnedExists, Owned
    <2>3. tmp'[td'[p]] = tmp[td[p]]
        BY <1>9, <2>1, <2>2 DEF MakeTempFile, Put, Free
    <2>4. at'[p] = "objcopy"
        BY <2>1, Gone
    <2>5. Progress(p)'
        BY <1>2, <2>1, <2>3, <2>4 DEF Progress
    <2> QED
        BY <1>1, <2>1, <2>5, CompileMoveOn DEF CompileStatements
  <1>10. CASE RunObjcopy(p)
    <2>1. at[p] = "objcopy" /\ raised[p] = "none" /\ bin' = bin /\ tmp[td[p]].text = Image(T)
        BY <1>3, <1>10 DEF RunObjcopy, Progress, T
    <2>2. CASE Raise(p, "CalledProcessError") \/ Raise(p, "FileNotFoundError")
        BY <1>1, <2>2, CompileRaiseStep
    <2>3. CASE Goto(p, "read") /\ Put(bin[p], Binary(tmp[td[p]]))
      <3>1. tmp'[bin'[p]] = Image(T)
          BY <2>1, <2>3 DEF Put, Binary
      <3>2. at'[p] = "read"
          BY <2>3, Gone
      <3>3. Progress(p)'
          BY <1>2, <3>1, <3>2 DEF Progress
      <3> QED
          BY <1>1, <2>1, <2>3, <3>3, CompileMoveOn DEF CompileStatements
    <2> QED
        BY <1>10, <2>2, <2>3 DEF RunObjcopy
  <1>11. CASE ReadBinary(p)
    <2>1. at[p] = "read" /\ raised[p] = "none" /\ tmp[bin[p]] = Image(T)
        BY <1>3, <1>11 DEF ReadBinary, Progress, T
    <2>2. CASE Raise(p, "FileNotFoundError")
        BY <1>1, <2>2, CompileRaiseStep
    <2>3. CASE Goto(p, "unlink") /\ Assign(p, [data |-> tmp[bin[p]]])
      <3> DEFINE data == tmp[bin[p]]
                 values == [data |-> data]
      <3>1. DOMAIN values = {"data"} /\ values["data"] = data
          OBVIOUS
      <3>2. Assign(p, values)
          BY <2>3
      <3> HIDE DEF values, data
      <3>3. local'[p].data = data
          BY <3>1, <3>2, Assigned
      <3>4. at'[p] = "unlink"
          BY <2>3, Gone
      <3>5. Progress(p)'
          BY <1>2, <2>1, <3>3, <3>4 DEF Progress, data
      <3> QED
          BY <1>1, <2>1, <2>3, <3>5, CompileMoveOn DEF CompileStatements
    <2> QED
        BY <1>11, <2>2, <2>3 DEF ReadBinary
  <1>12. CASE Unlink(p)
    <2>1. at[p] = "unlink" /\ local' = local
        BY <1>12 DEF Unlink
    <2>2. CASE raised[p] = "none"
      <3>1. Goto(p, "unpack") /\ local[p].data = Image(T)
          BY <1>3, <1>12, <2>1, <2>2 DEF Unlink, Progress, T
      <3>2. at'[p] = "unpack"
          BY <3>1, Gone
      <3>3. Progress(p)'
          BY <1>2, <2>1, <3>1, <3>2 DEF Progress
      <3> QED
          BY <1>1, <2>2, <3>1, <3>3, CompileMoveOn DEF CompileStatements
    <2>3. CASE raised[p] # "none"
      <3>1. at'[p] = "leave" /\ raised'[p] # "none"
          BY <1>12, <2>3, Gone DEF Unlink
      <3> QED
          BY <1>2, <1>3, <3>1 DEF CompileInv, CompileStatements
    <2> QED
        BY <2>2, <2>3
  <1>13. CASE PadAndUnpack(p)
    <2>1. at[p] = "unpack" /\ raised[p] = "none" /\ local[p].data = Image(T)
        BY <1>3, <1>13 DEF PadAndUnpack, Progress, T
    <2> DEFINE words == Unpack(Pad(local[p].data))
               values == [words |-> words]
    <2>2. Assign(p, values) /\ Goto(p, "leave")
        BY <1>13 DEF PadAndUnpack
    <2>3. DOMAIN values = {"words"} /\ values["words"] = words
        OBVIOUS
    <2> HIDE DEF values, words
    <2>4. local'[p].words = words
        BY <2>2, <2>3, Assigned
    <2>5. at'[p] = "leave"
        BY <2>2, Gone
    <2>6. Progress(p)'
        BY <1>2, <2>1, <2>4, <2>5 DEF Progress, words
    <2> QED
        BY <1>1, <2>1, <2>2, <2>6, CompileMoveOn DEF CompileStatements
  <1>14. CASE LeaveTempDir(p, "print")
    <2>1. at[p] = "leave" /\ local' = local
        BY <1>14 DEF LeaveTempDir
    <2>2. CASE raised[p] = "none"
      <3>1. Goto(p, "print")
          BY <1>14, <2>2 DEF LeaveTempDir
      <3>2. at'[p] = "print"
          BY <3>1, Gone
      <3>3. Progress(p)'
          BY <1>2, <1>3, <2>1, <2>2, <3>2 DEF Progress, T
      <3> QED
          BY <1>1, <2>2, <3>1, <3>3, CompileMoveOn DEF CompileStatements
    <2>3. CASE raised[p] # "none"
      <3>1. at'[p] = "ended" /\ raised'[p] # "none"
          BY <1>14, <2>3, Gone DEF LeaveTempDir
      <3> QED
          BY <1>2, <1>3, <3>1 DEF CompileInv, CompileStatements
    <2> QED
        BY <2>2, <2>3
  <1>15. CASE PrintWords(p)
    <2>1. at[p] = "print" /\ raised[p] = "none" /\ local' = local /\ Goto(p, "ended")
        BY <1>3, <1>15 DEF PrintWords
    <2>2. at'[p] = "ended"
        BY <2>1, Gone
    <2>3. Progress(p)'
        BY <1>2, <1>3, <2>1, <2>2 DEF Progress, T
    <2> QED
        BY <1>1, <2>1, <2>3, CompileMoveOn DEF CompileStatements
  <1>16. CASE Interrupted(p, {"gcc", "objcopy"})
      BY <1>1, <1>16, CompileRaiseStep DEF Interrupted
  <1> QED
      BY <1>4, <1>5, <1>6, <1>7, <1>8, <1>9, <1>10, <1>11, <1>12, <1>13, <1>14, <1>15, <1>16
      DEF CompileStep

----------------------------------------------------------------------------
(* Side by side.                                                           *)

ScriptInv(p) ==
  /\ request[p].script = "rv32i_compile.py" => CompileInv(p)
  /\ request[p].script = "gen_tb.py" => GenTbInv(p)
  /\ request[p].script = "benchgen.py" => BenchGenInv(p)

ToolInv == Ownership /\ Commands /\ DirShape /\ \A p \in Procs : ScriptInv(p)

\* What a process leaves to another one, and the user to all.
LeftAlone(p) ==
  /\ request'[p] = request[p] /\ at'[p] = at[p]
  /\ local'[p] = local[p] /\ raised'[p] = raised[p]
  /\ td'[p] = td[p] /\ bin'[p] = bin[p] /\ \A n \in Owned(p) : tmp'[n] = tmp[n]
  /\ \A f \in Outputs(request[p]) : dir'[f] = dir[f]
  /\ request[p].script = "rv32i_compile.py" => Source(p)' = Source(p)

LEMMA InvLeftAlone ==
  ASSUME Ownership, Commands, NEW p \in Procs, ScriptInv(p), LeftAlone(p)
  PROVE  ScriptInv(p)'
  <1>1. /\ request'[p] = request[p] /\ at'[p] = at[p] /\ local'[p] = local[p]
        /\ raised'[p] = raised[p] /\ (Done(p)' <=> Done(p))
      BY DEF LeftAlone, Done, At
  <1>2. ASSUME request[p].script = "gen_tb.py", GenTbInv(p)
        PROVE  GenTbInv(p)'
    <2>1. Len(request[p].args) \in {1, 2} => dir'[TestFile(p)] = dir[TestFile(p)]
        BY <1>2 DEF LeftAlone, Outputs, TestFile
    <2>2. TestFile(p)' = TestFile(p) /\ (GenTbLocals(p)' <=> GenTbLocals(p))
        BY <1>1 DEF TestFile, GenTbLocals
    <2> QED
        BY <1>1, <1>2, <2>1, <2>2 DEF GenTbInv
  <1>3. ASSUME request[p].script = "benchgen.py", BenchGenInv(p)
        PROVE  BenchGenInv(p)'
    <2>1. Testbench(p)' = Testbench(p)
        BY <1>1 DEF Testbench
    <2>2. \A f \in AnswerNames(dut_prefix(request[p])) : dir'[f] = dir[f]
        BY <1>3, BenchGenNames DEF LeftAlone
    <2>3. OldTests(p)' <=> OldTests(p)
      <3>1. Overwritten(p)' = Overwritten(p)
          BY <1>1 DEF Overwritten, NamesOf
      <3>2. {Testbench(p), "Makefile"} \subseteq AnswerNames(dut_prefix(request[p]))
          BY DEF Testbench, AnswerNames
      <3> QED
          BY <2>1, <2>2, <3>1, <3>2 DEF OldTests
    <2>4. BenchGenLocals(p)' <=> BenchGenLocals(p)
        BY <1>1 DEF BenchGenLocals, BridgeFiles, TestbenchFiles
    <2>5. BenchGenLocals(p) /\ BenchGenDir(p) => BenchGenDir(p)'
      <3> SUFFICES ASSUME BenchGenLocals(p), BenchGenDir(p)
                   PROVE  BenchGenDir(p)'
          OBVIOUS
      <3>1. ASSUME NEW files, NEW subject, NEW places,
                   FilesAbout(files, dut_prefix(request[p]), subject),
                   places \subseteq DOMAIN files, InDir(dir, files, places)
            PROVE  InDir(dir', files, places)
          BY <2>2, <3>1 DEF InDir, FilesAbout
      <3>2. /\ at[p] \in {"write bridge", "testbench", "write testbench", "ended"} => BridgeFiles(p)
            /\ at[p] \in {"write testbench", "ended"} => TestbenchFiles(p)
          BY DEF BenchGenLocals, BenchGenAssigned
      <3> DEFINE bridges == local[p].bridge_files
                 tests   == local[p].tb_files
                 rest(files) == DOMAIN files \ DOMAIN local[p].unwritten
      <3>3. NotReplaced(p) \subseteq DOMAIN bridges /\ NotReplaced(p)' = NotReplaced(p)
          BY <1>1 DEF NotReplaced
      <3>4. ASSUME at[p] \in {"write bridge", "testbench", "write testbench", "ended"},
                   NEW places, places \subseteq DOMAIN bridges, InDir(dir, bridges, places)
            PROVE  InDir(dir', bridges, places)
        <4> HIDE DEF bridges
        <4>1. FilesAbout(bridges, dut_prefix(request[p]), [dut |-> local[p].dut_src.version])
            BY <3>2, <3>4 DEF BridgeFiles, bridges
        <4> QED
            BY <3>1, <3>4, <4>1
      <3>5. ASSUME at[p] \in {"write testbench", "ended"},
                   NEW places, places \subseteq DOMAIN tests, InDir(dir, tests, places)
            PROVE  InDir(dir', tests, places)
        <4> HIDE DEF tests
        <4>1. FilesAbout(tests, dut_prefix(request[p]), FirstFile(bridges).content)
            BY <3>2, <3>5 DEF TestbenchFiles, tests
        <4> QED
            BY <3>1, <3>5, <4>1
      <3> HIDE DEF bridges, tests
      <3>6. at[p] = "write bridge" => Writing(p, bridges)'
          BY <1>1, <3>4 DEF BenchGenDir, Writing, bridges
      <3>7. at[p] = "write testbench" => Writing(p, tests)'
          BY <1>1, <3>5 DEF BenchGenDir, Writing, tests
      <3>8. at[p] = "testbench" => InDir(dir', bridges, DOMAIN bridges)
          BY <3>4 DEF BenchGenDir, bridges
      <3>9. at[p] \in {"write testbench", "ended"} => InDir(dir', bridges, NotReplaced(p))
          BY <3>3, <3>4 DEF BenchGenDir, bridges
      <3>10. at[p] = "ended" => InDir(dir', tests, DOMAIN tests)
          BY <3>5 DEF BenchGenDir, tests
      <3> QED
          BY <1>1, <3>3, <3>6, <3>7, <3>8, <3>9, <3>10 DEF BenchGenDir, bridges, tests
    <2> QED
        BY <1>1, <1>3, <2>3, <2>4, <2>5 DEF BenchGenInv
  <1>4. ASSUME request[p].script = "rv32i_compile.py", CompileInv(p)
        PROVE  CompileInv(p)'
    <2>1. Source(p)' = Source(p) /\ td'[p] = td[p] /\ bin'[p] = bin[p]
        BY <1>4 DEF LeftAlone
    <2>2. at[p] \in DirStatements => tmp'[td[p]] = tmp[td[p]]
        BY OwnedHere DEF LeftAlone, Owned
    <2>3. at[p] \in FileStatements => tmp'[bin[p]] = tmp[bin[p]]
        BY OwnedHere DEF LeftAlone, Owned
    <2>4. Progress(p) => Progress(p)'
        BY <1>1, <2>1, <2>2, <2>3 DEF Progress, DirStatements, FileStatements
    <2> QED
        BY <1>1, <1>4, <2>1, <2>4 DEF CompileInv
  <1> QED
      BY <1>1, <1>2, <1>3, <1>4 DEF ScriptInv

\* The compiler's source is not among the files that others write.
LEMMA SourceLeftAlone ==
  ASSUME Commands, DirShape, DirShape', NEW p \in Procs, request' = request,
         request[p].script = "rv32i_compile.py",
         request[p].src.path \in DOMAIN StartDir =>
           dir'[request[p].src.path] = dir[request[p].src.path]
  PROVE  Source(p)' = Source(p)
  <1>1. DOMAIN dir = DOMAIN StartDir /\ DOMAIN dir' = DOMAIN StartDir
      BY DEF DirShape
  <1> QED
      BY <1>1 DEF Source, SourceText, is_path

LEMMA ToolInvInit == Init => ToolInv
  <1> SUFFICES ASSUME Init PROVE ToolInv
      OBVIOUS
  <1>1. Commands /\ DirShape
      BY ToolsAssumption DEF Init, Commands, DirShape
  <1>2. ASSUME NEW p \in Procs
        PROVE  ScriptInv(p)
    <2>1. /\ at[p] = FirstStatement[request[p].script]
          /\ local[p] = << >> /\ raised[p] = "none" /\ dir = StartDir
        BY DEF Init
    <2>2. FirstStatement["gen_tb.py"] = "args" /\ FirstStatement["benchgen.py"] = "dut"
        BY DEF FirstStatement
    <2>3. DOMAIN local[p] = {}
        BY <2>1
    <2>4. ~ Done(p) \/ request[p].script \notin {"gen_tb.py", "benchgen.py"}
        BY <2>1, <2>2 DEF Done, At
    <2>5. ASSUME request[p].script = "gen_tb.py"
          PROVE  GenTbInv(p)
      <3>1. GenTbAssigned["args"] = {} /\ "args" \in DOMAIN GenTbAssigned
          BY DEF GenTbAssigned
      <3> QED
          BY <2>1, <2>2, <2>3, <2>4, <2>5, <3>1 DEF GenTbInv, GenTbLocals
    <2>6. ASSUME request[p].script = "benchgen.py"
          PROVE  BenchGenInv(p)
      <3>1. BenchGenAssigned["dut"] = {} /\ "dut" \in DOMAIN BenchGenAssigned
          BY DEF BenchGenAssigned
      <3>2. BenchGenLocals(p) /\ BenchGenDir(p)
          BY <2>1, <2>2, <2>6, <3>1 DEF BenchGenLocals, BenchGenDir
      <3> QED
          BY <2>1, <2>2, <2>3, <2>4, <2>6, <3>1, <3>2 DEF BenchGenInv, OldTests
    <2>7. ASSUME request[p].script = "rv32i_compile.py"
          PROVE  CompileInv(p)
      <3>1. at[p] = "source"
          BY <2>1, <2>7 DEF FirstStatement
      <3>2. Source(p).code \in Bytes
          BY <1>1, <2>1, <2>7, ToolsAssumption DEF Source, SourceText, is_path, Commands
      <3>3. Progress(p)
          BY <3>1 DEF Progress
      <3> QED
          BY <2>1, <3>1, <3>2, <3>3 DEF CompileInv, CompileStatements
    <2> QED
        BY <2>5, <2>6, <2>7 DEF ScriptInv
  <1> QED
      BY <1>1, <1>2, OwnershipInit DEF ToolInv

LEMMA StatementKeeps ==
  ASSUME ToolInv, NEW p \in Procs, Statement(p)
  PROVE  ScriptInv(p)' /\ LeavesRest(p)
  <1>1. Ownership /\ Commands /\ DirShape /\ ScriptInv(p)
      BY DEF ToolInv
  <1>2. request' = request
      BY <1>1, StatementIsOwn DEF OnlyOwn
  <1>3. CASE CompileStep(p)
    <2>1. request[p].script = "rv32i_compile.py"
        BY <1>3 DEF CompileStep
    <2>2. UNCHANGED dir
        BY <1>3 DEF CompileStep, ReadSource, FindGcc, MakeTempDir, WriteSources, RunGcc,
                    MakeTempFile, RunObjcopy, ReadBinary, Unlink, PadAndUnpack, LeaveTempDir,
                    PrintWords, Interrupted
    <2>3. CompileInv(p)'
        BY <1>1, <1>3, <2>1, CompileStepKeeps DEF ScriptInv
    <2> QED
        BY <1>1, <1>2, <2>1, <2>2, <2>3 DEF ScriptInv, LeavesRest, DirShape
  <1>4. CASE GenTbStep(p)
    <2>1. request[p].script = "gen_tb.py"
        BY <1>4 DEF GenTbStep
    <2> QED
        BY <1>1, <1>2, <1>4, <2>1, GenTbStepKeeps DEF ScriptInv
  <1>5. CASE BenchGenStep(p)
    <2>1. request[p].script = "benchgen.py"
        BY <1>5 DEF BenchGenStep
    <2> QED
        BY <1>1, <1>2, <1>5, <2>1, BenchGenStepKeeps DEF ScriptInv
  <1> QED
      BY <1>3, <1>4, <1>5 DEF Statement

LEMMA ToolInvNext == ToolInv /\ [Next]_scriptVars => ToolInv'
  <1> SUFFICES ASSUME ToolInv, [Next]_scriptVars PROVE ToolInv'
      OBVIOUS
  <1>1. Ownership /\ Commands /\ DirShape /\ \A p \in Procs : ScriptInv(p)
      BY DEF ToolInv
  <1>2. Ownership'
      BY <1>1, OwnershipNext
  <1>3. CASE \E p \in Procs : Statement(p)
    <2>1. PICK p \in Procs : Statement(p)
        BY <1>3
    <2>2. OnlyOwn(p) /\ ScriptInv(p)' /\ LeavesRest(p)
        BY <1>1, <2>1, StatementIsOwn, StatementKeeps
    <2>3. Commands' /\ DirShape'
        BY <1>1, <2>2 DEF Commands, OnlyOwn, LeavesRest
    <2>4. ASSUME NEW q \in Procs, q # p
          PROVE  LeftAlone(q)
      <3>1. request[q] \in CommandLines[q] /\ request[p] \in CommandLines[p]
          BY <1>1 DEF Commands
      <3>2. \A f \in Outputs(request[q]) : f \in DOMAIN StartDir /\ f \notin Outputs(request[p])
          BY <2>4, <3>1, ToolsAssumption DEF LeftTo
      <3>3. request[q].script = "rv32i_compile.py" => Source(q)' = Source(q)
        <4>1. request[q].script = "rv32i_compile.py" =>
                request[q].src.path \notin Outputs(request[p])
            BY <2>4, <3>1, ToolsAssumption DEF LeftTo
        <4> QED
            BY <1>1, <2>2, <2>3, <4>1, SourceLeftAlone DEF LeavesRest, OnlyOwn
      <3> QED
          BY <2>2, <2>4, <3>2, <3>3 DEF LeftAlone, OnlyOwn, LeavesRest
    <2>5. \A q \in Procs : ScriptInv(q)'
        BY <1>1, <2>2, <2>4, InvLeftAlone
    <2> QED
        BY <1>2, <2>3, <2>5 DEF ToolInv
  <1>4. CASE UserEdits
    <2>1. PICK e \in Edits : Write(e.file, e.content)
        BY <1>4 DEF UserEdits
    <2>2. UNCHANGED <<request, at, local, raised, td, bin, tmp>>
        BY <1>4 DEF UserEdits
    <2>3. Commands' /\ DirShape'
        BY <1>1, <2>1, <2>2 DEF Commands, DirShape, Write
    <2>4. ASSUME NEW q \in Procs
          PROVE  LeftAlone(q)
      <3>1. \A f \in Outputs(request[q]) : f \in DOMAIN StartDir /\ e.file # f
          BY <1>1, ToolsAssumption DEF LeftTo, Commands
      <3>2. request[q].script = "rv32i_compile.py" => Source(q)' = Source(q)
        <4>1. request[q].script = "rv32i_compile.py" => e.file # request[q].src.path
            BY <1>1, ToolsAssumption DEF LeftTo, Commands
        <4> QED
            BY <1>1, <2>1, <2>2, <2>3, <4>1, SourceLeftAlone DEF Write, DirShape
      <3> QED
          BY <1>1, <2>1, <2>2, <3>1, <3>2 DEF LeftAlone, Write, DirShape
    <2>5. \A q \in Procs : ScriptInv(q)'
        BY <1>1, <2>4, InvLeftAlone
    <2> QED
        BY <1>2, <2>3, <2>5 DEF ToolInv
  <1>5. CASE UNCHANGED scriptVars
    <2>1. UNCHANGED <<request, at, local, raised, td, bin, dir, tmp>>
        BY <1>5 DEF scriptVars
    <2>2. Commands' /\ DirShape'
        BY <1>1, <2>1 DEF Commands, DirShape
    <2>3. \A q \in Procs : LeftAlone(q)
        BY <2>1, SourceStays DEF LeftAlone
    <2> QED
        BY <1>1, <1>2, <2>2, <2>3, InvLeftAlone DEF ToolInv
  <1> QED
      BY <1>3, <1>4, <1>5 DEF Next, Statement

LEMMA ToolInvCorrect == Spec => []ToolInv
  BY ToolInvInit, ToolInvNext, PTL DEF Spec

\* The words of a call are the code of its source, with the startup code of a C program in
\* front of it, for every source, language, compiler and call beside it.
THEOREM WordsAreOfSourceCorrect == Spec => []WordsAreOfSource
  <1>1. ToolInv => WordsAreOfSource
    <2> SUFFICES ASSUME ToolInv, NEW p \in Procs, Compiled(p)
                 PROVE  LET text  == SourceText(request[p].src)
                            bytes == (IF text.lang = "c" THEN CRT0_ASM.code ELSE << >>)
                                     \o text.code
                            words == local[p].words
                        IN  /\ 4 * Len(words) - Len(bytes) \in 0 .. 3
                            /\ \A i \in 1 .. Len(words), k \in 0 .. 3 :
                                 Slice(words[i], 8 * k + 7, 8 * k) =
                                   IF 4 * i - 3 + k <= Len(bytes) THEN bytes[4 * i - 3 + k]
                                                                  ELSE {}
        BY DEF WordsAreOfSource
    <2> DEFINE bytes == Image(Source(p))
               words == local[p].words
    <2>1. /\ Source(p).code \in Bytes
          /\ words = Unpack(Pad(bytes))
        BY DEF ToolInv, ScriptInv, CompileInv, Progress, Compiled, Done, At
    <2>2. bytes \in Bytes
      <3>1. CRT0_ASM.code = Crt0Code
          BY DEF CRT0_ASM
      <3> QED
          BY <2>1, <3>1, CompileAssumption DEF Image, Bytes
    <2> HIDE DEF bytes, words
    <2>3. /\ 4 * Len(words) - Len(bytes) \in 0 .. 3
          /\ \A i \in 1 .. Len(words), k \in 0 .. 3 :
               Slice(words[i], 8 * k + 7, 8 * k) =
                 IF 4 * i - 3 + k <= Len(bytes) THEN bytes[4 * i - 3 + k] ELSE {}
        BY <2>1, <2>2, WordsOfBytes
    <2> QED
        BY <2>3 DEF words, bytes, Image, Source
  <1> QED
      BY <1>1, ToolInvCorrect, PTL

\* A test that gen_tb.py has written is of one version of its specification in program and
\* checks, whenever the specification is edited and whatever the other scripts do.
THEOREM TestIsOfOneSpecCorrect == Spec => []TestIsOfOneSpec
  <1>1. ToolInv => TestIsOfOneSpec
    <2> SUFFICES ASSUME ToolInv, NEW p \in Procs, request[p].script = "gen_tb.py", Done(p)
                 PROVE  LET test == dir[OutFile(local[p].name)]
                        IN  test.of.program.of.spec = test.of.checks
        BY DEF TestIsOfOneSpec
    <2>1. GenTbInv(p) /\ at[p] = "ended" /\ raised[p] = "none"
        BY DEF ToolInv, ScriptInv, Done, At
    <2>2. /\ GenTbAssigned["ended"] \subseteq DOMAIN local[p]
          /\ {"name", "program_code", "tb_code"} \subseteq GenTbAssigned["ended"]
        BY <2>1 DEF GenTbInv, GenTbLocals, GenTbAssigned
    <2>3. dir[OutFile(local[p].name)] = local[p].tb_code
        BY <2>1, <2>2 DEF GenTbInv, TestFile
    <2>4. /\ local[p].program_code.of.spec = local[p].spec_text
          /\ local[p].tb_code.of = [program |-> local[p].program_code,
                                    checks |-> local[p].spec_text]
        BY <2>1, <2>2 DEF GenTbInv, GenTbLocals
    <2> QED
        BY <2>3, <2>4
  <1> QED
      BY <1>1, ToolInvCorrect, PTL

\* For all answers that begin with the bridge, with any number of further blocks under any
\* of the names in any order, and all second answers that bring no bridge of their own, what
\* benchgen.py has written when it ends is a bridge of its DUT and files of that bridge,
\* whatever runs beside it.
THEOREM TestbenchIsOfItsBridgeCorrect == Spec => []TestbenchIsOfItsBridge
  <1>1. ToolInv => TestbenchIsOfItsBridge
    <2> SUFFICES ASSUME ToolInv, NEW p \in Procs, request[p].script = "benchgen.py", Done(p),
                        FirstFile(local[p].bridge_files).name = BridgeFile[local[p].prefix],
                        BridgeFile[local[p].prefix] \notin NamesOf(local[p].tb_files)
                 PROVE  LET bridge == BridgeFile[local[p].prefix]
                        IN  /\ \A f \in NamesOf(local[p].tb_files) : dir[f].of = dir[bridge]
                            /\ dir[bridge].of = [dut |-> local[p].dut_src.version]
        BY DEF TestbenchIsOfItsBridge, TestbenchIsOfBridge
    <2> DEFINE bridges == local[p].bridge_files
               tests   == local[p].tb_files
               bridge  == BridgeFile[local[p].prefix]
               subject == [dut |-> local[p].dut_src.version]
    <2>1. BenchGenInv(p) /\ at[p] = "ended" /\ raised[p] = "none"
        BY DEF ToolInv, ScriptInv, Done, At
    <2>2. BenchGenLocals(p) /\ BenchGenDir(p)
        BY <2>1 DEF BenchGenInv
    <2>3. BridgeFiles(p) /\ TestbenchFiles(p)
        BY <2>1, <2>2 DEF BenchGenLocals, BenchGenAssigned
    <2>4. InDir(dir, bridges, NotReplaced(p)) /\ InDir(dir, tests, DOMAIN tests)
        BY <2>1, <2>2 DEF BenchGenDir
    <2> DEFINE m == Min(DOMAIN bridges)
    <2>5. m \in DOMAIN bridges /\ FirstFile(bridges).content.of = subject
      <3>1. FilesAbout(bridges, dut_prefix(request[p]), subject)
          BY <2>3 DEF BridgeFiles
      <3> HIDE DEF bridges, subject
      <3> QED
          BY <3>1, FirstIsFile
    <2>6. FirstFile(bridges) = bridges[m]
        BY DEF FirstFile
    <2>7. dir[bridge] = FirstFile(bridges).content
      <3>1. m \in NotReplaced(p)
          BY <2>5, <2>6 DEF NotReplaced
      <3> QED
          BY <2>4, <2>6, <3>1 DEF InDir
    <2>8. ASSUME NEW i \in DOMAIN tests
          PROVE  dir[tests[i].name].of = dir[bridge]
      <3>1. tests[i].content.of = FirstFile(bridges).content
          BY <2>3 DEF TestbenchFiles, FilesAbout
      <3>2. dir[tests[i].name] = tests[i].content
          BY <2>4 DEF InDir
      <3> QED
          BY <2>7, <3>1, <3>2
    <2> QED
        BY <2>5, <2>7, <2>8 DEF NamesOf
  <1> QED
      BY <1>1, ToolInvCorrect, PTL

\* A generator that fails at any of its statements leaves the testbench files that were in
\* the directory when it was started, whatever runs beside it.
THEOREM FailureKeepsTestsCorrect == Spec => []FailureKeepsTests
  <1>1. ToolInv => FailureKeepsTests
    <2> SUFFICES ASSUME ToolInv, NEW p \in Procs, raised[p] # "none", NEW f \in TestFiles(p)
                 PROVE  dir[f] = StartDir[f]
        BY DEF FailureKeepsTests
    <2>1. ScriptInv(p) /\ ~ Done(p)
        BY DEF ToolInv, Done
    <2>2. CASE request[p].script = "gen_tb.py" /\ "name" \in DOMAIN local[p]
      <3>1. GenTbInv(p) /\ f = OutFile(local[p].name)
          BY <2>1, <2>2 DEF ScriptInv, TestFiles
      <3> QED
          BY <2>1, <2>2, <3>1 DEF GenTbInv, TestFile
    <2>3. CASE request[p].script = "benchgen.py" /\ "prefix" \in DOMAIN local[p]
      <3>1. BenchGenInv(p) /\ f \in {TbFile[local[p].prefix], "Makefile"} \ Overwritten(p)
          BY <2>1, <2>3 DEF ScriptInv, TestFiles, Overwritten
      <3>2. OldTests(p) /\ local[p].prefix = dut_prefix(request[p])
          BY <2>1, <2>3, <3>1 DEF BenchGenInv
      <3> QED
          BY <3>1, <3>2 DEF OldTests, Testbench
    <2> QED
        BY <2>2, <2>3 DEF TestFiles
  <1> QED
      BY <1>1, ToolInvCorrect, PTL

==============================================================================
