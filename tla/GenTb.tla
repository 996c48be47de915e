-------------------------------- MODULE GenTb --------------------------------
(***************************************************************************)
(* gen_tb.py: a testbench generated from a plain-text specification, in    *)
(* two questions to a language model, first for the program and then for   *)
(* the test around it.                                                     *)
(*                                                                         *)
(* An answer is a list of blocks, of which those of type text count.  A    *)
(* text is what it was made from and its markdown fence: none, around the  *)
(* whole text, or only opened, in an answer cut off by max_tokens.         *)
(***************************************************************************)
EXTENDS Scripts, Sequences, FiniteSetsExt

CONSTANTS BaseName   \* a file name without its directory and .tbspec

\* The answers to a question about `subject`: no block, or a text, perhaps behind a
\* block of another type.
Answers(subject) ==
  LET texts == [type : {"text"}, of : {subject}, fence : {"none", "whole", "opened"}]
      other == [type |-> "thinking"]
  IN  {<< >>, <<other>>} \cup {<<t>> : t \in texts} \cup {<<other, t>> : t \in texts}

\* The first text of an answer, or None.
extract_text(answer) ==
  LET texts == {i \in DOMAIN answer : answer[i].type = "text"}
  IN  IF texts = {} THEN None ELSE answer[Min(texts)]

strip_fences(text) ==
  IF text.fence = "whole" THEN [text EXCEPT !.fence = "none"] ELSE text

TestName(args) == IF Len(args) = 1 THEN BaseName[args[1]] ELSE args[1]

OutFile(name) == "tb_" \o name \o ".py"

----------------------------------------------------------------------------

\* One argument names the specification and, less its suffix, the test; two name both.
Arguments(p) ==
  LET args == request[p].args
  IN  /\ At(p, "args")
      /\ IF Len(args) \in {1, 2}
         THEN Goto(p, "spec") /\ Assign(p, [infile |-> args[Len(args)], name |-> TestName(args)])
         ELSE Raise(p, "SystemExit") /\ UNCHANGED local
      /\ UNCHANGED <<request, td, bin, dir, tmp>>

ReadSpec(p) ==
  /\ At(p, "spec")
  /\ IF dir[local[p].infile] = None
     THEN Raise(p, "FileNotFoundError") /\ UNCHANGED local
     ELSE Goto(p, "code") /\ Assign(p, [spec_text |-> dir[local[p].infile]])
  /\ UNCHANGED <<request, td, bin, dir, tmp>>

\* The answer to a question, kept under a name; without a text, RuntimeError.
Ask(p, here, subject, name, there) ==
  /\ At(p, here)
  /\ \E answer \in Answers(subject) :
       IF extract_text(answer) = None
       THEN Raise(p, "RuntimeError") /\ UNCHANGED local
       ELSE Goto(p, there) /\ Assign(p, [v \in {name} |-> strip_fences(extract_text(answer))])
  /\ UNCHANGED <<request, td, bin, tmp>>

gen_machine_code(p) ==
  /\ Ask(p, "code", [spec |-> local[p].spec_text], "program_code", "bench")
  /\ UNCHANGED dir

\* A mutant: the second question takes the specification from the file again.
gen_testbench_reread(p) ==
  /\ Ask(p, "bench", [program |-> local[p].program_code, checks |-> dir[local[p].infile]],
         "tb_code", "write")
  /\ UNCHANGED dir

\* A mutant: the file is opened for writing before the second question is asked.
gen_testbench_open(p) ==
  /\ Ask(p, "bench", [program |-> local[p].program_code, checks |-> local[p].spec_text],
         "tb_code", "write")
  /\ Write(OutFile(local[p].name), "")

gen_testbench(p) ==
  /\ Ask(p, "bench", [program |-> local[p].program_code, checks |-> local[p].spec_text],
         "tb_code", "write")
  /\ UNCHANGED dir

WriteTest(p) ==
  /\ At(p, "write")
  /\ Write(OutFile(local[p].name), local[p].tb_code)
  /\ Goto(p, "ended")
  /\ UNCHANGED <<request, local, td, bin, tmp>>

GenTbStep(p) ==
  /\ request[p].script = "gen_tb.py"
  /\ \/ Arguments(p) \/ ReadSpec(p) \/ gen_machine_code(p) \/ gen_testbench(p)
     \/ WriteTest(p) \/ Interrupted(p, {"code", "bench"})

----------------------------------------------------------------------------

\* The program of a test and the checks in it come from one version of the
\* specification, the one read when the script was started, although both are asked for
\* one after the other and the file may be edited meanwhile (gen_tb.py:166-172).
TestIsOfOneSpec ==
  \A p \in Procs :
    request[p].script = "gen_tb.py" /\ Done(p) =>
      LET test == dir[OutFile(local[p].name)]
      IN  test.of.program.of.spec = test.of.checks

==============================================================================
