------------------------------- MODULE BenchGen ------------------------------
(***************************************************************************)
(* benchgen.py: the bridge of a Chisel module, and the cocotb testbench    *)
(* and Makefile of that bridge, generated by a language model with a       *)
(* worked example from a git repository.                                   *)
(*                                                                         *)
(* A DUT's source is its version, whether it has a package line and        *)
(* whether it has streaming ports.  An answer is a list of file blocks,    *)
(* of which the last may lack its closing fence; a file is what it was     *)
(* generated from.                                                         *)
(***************************************************************************)
EXTENDS Scripts, SequencesExt

CONSTANTS
  Stem,        \* the name of a file without directory and suffix
  BridgeFile,  \* Axi<Prefix>.scala, by prefix
  TbFile,      \* tb_<prefix>.py in lower case, by prefix
  Examples,    \* the worked examples the cloned repository has
  MaxBlocks    \* bound: the file blocks an answer may have

ASSUME BenchGenAssumption == MaxBlocks \in Nat

Block(name, content, closed) == [name |-> name, content |-> content, closed |-> closed]

\* What the code tells apart by name, and notes for any other file.
AnswerNames(prefix) == {BridgeFile[prefix], TbFile[prefix], "Makefile", "NOTES.md"}

\* The answers to a question about a subject, whatever the prompt asks for: any files in
\* any order, a name perhaps several times, and the last block perhaps cut off by
\* max_tokens.
call_claude(prefix, subject) ==
  UNION {{[i \in 1 .. n |-> Block(names[i], [draft |-> i, of |-> subject], i < n \/ whole)] :
             names \in [1 .. n -> AnswerNames(prefix)], whole \in BOOLEAN} : n \in 0 .. MaxBlocks}

\* The dictionary of the closed blocks, by the place of its items: a name keeps the place
\* of its first block and gets the content of its last.
extract_files(blocks) ==
  LET same(i) == {j \in DOMAIN blocks : blocks[j].closed /\ blocks[j].name = blocks[i].name}
      firsts  == {i \in DOMAIN blocks : blocks[i].closed /\ i = Min(same(i))}
  IN  [i \in firsts |-> blocks[Max(same(i))]]

FirstFile(files) == files[Min(DOMAIN files)]

NamesOf(files) == {files[i].name : i \in DOMAIN files}

dut_prefix(r) == IF r.prefix # None THEN r.prefix ELSE Stem[r.dut]

detect_example(dut_src) == IF dut_src.streaming THEN "testq" ELSE "cmd"

----------------------------------------------------------------------------

\* read(args.dut) and what is derived from it.
ReadDut(p) ==
  LET r == request[p]
      dut_src == dir[r.dut]
  IN  /\ At(p, "dut")
      /\ CASE dut_src = None -> Raise(p, "FileNotFoundError") /\ UNCHANGED local
           [] dut_src # None /\ ~ dut_src.package -> Raise(p, "ValueError") /\ UNCHANGED local
           [] OTHER ->
                /\ Goto(p, "tempdir")
                /\ Assign(p, [dut_src |-> dut_src,
                              prefix  |-> dut_prefix(r),
                              example |-> IF r.example # None THEN r.example
                                                              ELSE detect_example(dut_src)])
      /\ UNCHANGED <<request, td, bin, dir, tmp>>

\* fetch_example: its temporary directory,
MakeCloneDir(p) ==
  /\ At(p, "tempdir")
  /\ EnterTempDir(p, {})
  /\ Goto(p, "clone")
  /\ UNCHANGED <<request, local, bin, dir>>

\* git clone, which may fail,
Clone(p) ==
  /\ At(p, "clone")
  /\ \/ Put(td[p], Examples) /\ Goto(p, "fetch")
     \/ Raise(p, "CalledProcessError") /\ UNCHANGED tmp
  /\ UNCHANGED <<request, local, td, bin, dir>>

\* and the three files of the example.
ReadExample(p) ==
  /\ At(p, "fetch")
  /\ IF local[p].example \in tmp[td[p]] THEN Goto(p, "leave") ELSE Raise(p, "FileNotFoundError")
  /\ UNCHANGED <<request, local, td, bin, dir, tmp>>

\* The files in an answer, kept under a name and still to be written; without any,
\* ValueError.
AskFor(p, here, subject, name, there) ==
  /\ At(p, here)
  /\ \E answer \in call_claude(local[p].prefix, subject) :
       LET files == extract_files(answer)
       IN  IF DOMAIN files = {}
           THEN Raise(p, "ValueError") /\ UNCHANGED local
           ELSE Goto(p, there) /\ Assign(p, [v \in {name, "unwritten"} |-> files])
  /\ UNCHANGED <<request, td, bin, dir, tmp>>

generate_bridge(p) ==
  AskFor(p, "bridge", [dut |-> local[p].dut_src.version], "bridge_files", "write bridge")

\* A mutant: bridge_src is what the loop over the files wrote last.
generate_testbench_from_last(p) ==
  LET files == local[p].bridge_files
  IN  AskFor(p, "testbench", files[Max(DOMAIN files)].content, "tb_files", "write testbench")

\* bridge_src is the first file of the first answer.
generate_testbench(p) ==
  AskFor(p, "testbench", FirstFile(local[p].bridge_files).content, "tb_files", "write testbench")

\* for name, content in files.items(): write(name, content)
WriteFiles(p, here, there) ==
  LET files == local[p].unwritten
      file  == FirstFile(files)
      rest  == DOMAIN files \ {Min(DOMAIN files)}
  IN  /\ At(p, here)
      /\ Write(file.name, file.content)
      /\ Assign(p, [unwritten |-> [i \in rest |-> files[i]]])
      /\ IF rest = {} THEN Goto(p, there) ELSE UNCHANGED <<at, raised>>
      /\ UNCHANGED <<request, td, bin, tmp>>

BenchGenStep(p) ==
  /\ request[p].script = "benchgen.py"
  /\ \/ ReadDut(p) \/ MakeCloneDir(p) \/ Clone(p) \/ ReadExample(p) \/ LeaveTempDir(p, "bridge")
     \/ generate_bridge(p) \/ WriteFiles(p, "write bridge", "testbench")
     \/ generate_testbench(p) \/ WriteFiles(p, "write testbench", "ended")
     \/ Interrupted(p, {"clone", "bridge", "testbench"})

----------------------------------------------------------------------------

\* The testbench and the Makefile a second answer brings are of the bridge that is in the
\* directory when benchgen.py says "done."
TestbenchIsOfBridge(p) ==
  LET bridge == BridgeFile[local[p].prefix]
      tests  == NamesOf(local[p].tb_files)
  IN  bridge \notin tests => \A f \in tests : dir[f].of = dir[bridge]

\* When the first answer begins with the bridge, whatever drafts, notes and test files
\* follow in it, and the second brings no bridge of its own, what benchgen.py leaves in
\* the directory is a bridge of the DUT as it was read and files generated from that
\* very bridge, never from an earlier draft or from what an earlier run has left
\* (benchgen.py:393-406).
TestbenchIsOfItsBridge ==
  \A p \in Procs :
    LET bridge == BridgeFile[local[p].prefix]
    IN  request[p].script = "benchgen.py" /\ Done(p) /\ FirstFile(local[p].bridge_files).name = bridge =>
          /\ TestbenchIsOfBridge(p)
          /\ bridge \notin NamesOf(local[p].tb_files) =>
               dir[bridge].of = [dut |-> local[p].dut_src.version]

\* "a cocotb testbench for that bridge" (benchgen.py:9), that bridge being the file
\* Axi<Prefix>.scala which the run has just generated, wherever in the answer it was.
TestbenchIsForThatBridge ==
  \A p \in Procs :
    request[p].script = "benchgen.py" /\ Done(p)
      /\ BridgeFile[local[p].prefix] \in NamesOf(local[p].bridge_files) => TestbenchIsOfBridge(p)

==============================================================================
