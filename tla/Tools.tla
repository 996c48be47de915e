-------------------------------- MODULE Tools --------------------------------
(***************************************************************************)
(* The scripts of the repository side by side: each process runs one       *)
(* command line to its end, and the user may edit the files they read.     *)
(***************************************************************************)
EXTENDS Compile, GenTb, BenchGen

CONSTANTS
  CommandLines,  \* what each process may be started with
  StartDir,      \* the current directory before, with files of earlier runs
  Edits          \* what the user may write meanwhile: script that reads it, file, content

FirstStatement ==
  [s \in {"rv32i_compile.py", "gen_tb.py", "benchgen.py"} |->
     CASE s = "rv32i_compile.py" -> "source" [] s = "gen_tb.py" -> "args" [] OTHER -> "dut"]

\* The files a command line writes.
Outputs(r) ==
  CASE r.script = "gen_tb.py" /\ Len(r.args) \in {1, 2} -> {OutFile(TestName(r.args))}
    [] r.script = "benchgen.py" -> AnswerNames(dut_prefix(r))
    [] OTHER -> {}

\* A file that neither the other processes nor the user write while p runs.
LeftTo(p, f) ==
  /\ \A q \in Procs \ {p} : \A s \in CommandLines[q] : f \notin Outputs(s)
  /\ \A e \in Edits : e.file # f

\* The directory maps names to contents.  Side by side run scripts that write different
\* files; the user edits what the generators read, not what they write or the compiler
\* reads; and sources are made of bytes.
ASSUME ToolsAssumption ==
  /\ StartDir = [f \in DOMAIN StartDir |-> StartDir[f]]
  /\ \A p \in Procs : \A r \in CommandLines[p] :
       /\ r.script \in DOMAIN FirstStatement
       /\ \A f \in Outputs(r) : f \in DOMAIN StartDir /\ LeftTo(p, f)
       /\ r.script = "benchgen.py" => dut_prefix(r) \in DOMAIN BridgeFile
       /\ r.script = "rv32i_compile.py" =>
            /\ LeftTo(p, r.src.path)
            /\ r.src.text.code \in Bytes
            /\ r.src.path \in DOMAIN StartDir /\ StartDir[r.src.path] # None =>
                 StartDir[r.src.path].code \in Bytes

Init ==
  /\ request \in {r \in [Procs -> UNION {CommandLines[p] : p \in Procs}] :
                    \A p \in Procs : r[p] \in CommandLines[p]}
  /\ at = [p \in Procs |-> FirstStatement[request[p].script]]
  /\ local = [p \in Procs |-> << >>]
  /\ raised = [p \in Procs |-> "none"]
  /\ td = [p \in Procs |-> None]
  /\ bin = [p \in Procs |-> None]
  /\ dir = StartDir
  /\ tmp = << >>

UserEdits ==
  \E e \in Edits :
    /\ \E p \in Procs : request[p].script = e.script /\ Running(p)
    /\ Write(e.file, e.content)
    /\ UNCHANGED <<request, at, local, raised, td, bin, tmp>>

Next == UserEdits \/ \E p \in Procs : CompileStep(p) \/ GenTbStep(p) \/ BenchGenStep(p)

Spec == Init /\ [][Next]_scriptVars

----------------------------------------------------------------------------

\* The testbench files a generator writes when it has all its answers, as far as it knows
\* their names; those that come with the bridge are written before the second question.
TestFiles(p) ==
  CASE request[p].script = "gen_tb.py" /\ "name" \in DOMAIN local[p] -> {OutFile(local[p].name)}
    [] request[p].script = "benchgen.py" /\ "prefix" \in DOMAIN local[p] ->
         {TbFile[local[p].prefix], "Makefile"} \
           (IF "bridge_files" \in DOMAIN local[p] THEN NamesOf(local[p].bridge_files) ELSE {})
    [] OTHER -> {}

\* A generator that fails, at whatever question or because the user gives up waiting,
\* leaves the testbench that was there (gen_tb.py:171-178, benchgen.py:390-404).
FailureKeepsTests ==
  \A p \in Procs : raised[p] # "none" => \A f \in TestFiles(p) : dir[f] = StartDir[f]

==============================================================================
