------------------------------- MODULE MCTools -------------------------------
(***************************************************************************)
(* Two processes: one compiles or runs benchgen.py, the other compiles or  *)
(* runs gen_tb.py.  The directory holds what earlier runs have left.       *)
(***************************************************************************)
EXTENDS Tools

CONSTANTS p1, p2

Text(lang, braces, code, data, links) ==
  [lang |-> lang, braces |-> braces, code |-> code, data |-> data, links |-> links]

\* Bytes that tell every place in a word apart.
Byte(k) == {k, 7}

AsmText  == Text("asm", FALSE, <<Byte(0), Byte(1), Byte(2), Byte(3), Byte(4)>>, << >>, TRUE)
CText    == Text("c", TRUE, <<Byte(4), Byte(3), Byte(2), Byte(1)>>, <<Byte(6)>>, TRUE)
Odd      == Text("asm", TRUE, <<Byte(5)>>, << >>, TRUE)     \* a brace in a comment
Softcall == Text("c", TRUE, <<Byte(5)>>, << >>, FALSE)      \* needs libgcc
NoCode   == Text("none", FALSE, << >>, << >>, FALSE)        \* a file name taken for source

Path(name) == [path |-> name, text |-> NoCode]
Inline(text) == [path |-> None, text |-> text]

Elf64   == "riscv64-unknown-elf"
Linux32 == "riscv32-linux-gnu"

Ubuntu == {<<Elf64, "gcc">>, <<Elf64, "objcopy">>, <<Linux32, "gcc">>, <<Elf64, "cc">>,
           <<Elf64, "gcc", "-12">>, <<Elf64, "objcopy", "-12">>}

CompileLine(src, lang, cc, path) ==
  [script |-> "rv32i_compile.py", src |-> src, lang |-> lang, cc |-> cc, path |-> path]

CompileLines ==
  {CompileLine(Path("loop.s"), None, None, Ubuntu),
   CompileLine(Path("sum.c"), None, None, Ubuntu),
   CompileLine(Inline(AsmText), None, <<Elf64, "cc">>, Ubuntu),
   CompileLine(Inline(CText), None, <<Linux32, "gcc">>, Ubuntu),
   CompileLine(Inline(CText), None, <<Elf64, "gcc", "-12">>, Ubuntu),
   CompileLine(Inline(Odd), None, None, Ubuntu),
   CompileLine(Inline(Odd), "asm", None, Ubuntu),
   CompileLine(Path("soft.C"), None, None, Ubuntu),
   CompileLine(Path("gone.s"), None, None, Ubuntu),
   CompileLine(Path("loop.s"), "cpp", None, Ubuntu),
   CompileLine(Path("loop.s"), None, None, {})}

GenTbLines ==
  {[script |-> "gen_tb.py", args |-> args] :
     args \in {<<"eq.tbspec">>, <<"other", "eq.tbspec">>, <<"gone.tbspec">>, << >>}}

BenchGenLine(dut, prefix, example) ==
  [script |-> "benchgen.py", dut |-> dut, prefix |-> prefix, example |-> example]

BenchGenLines ==
  {BenchGenLine("Core.scala", None, None), BenchGenLine("Core.scala", "Other", "testq"),
   BenchGenLine("gone.scala", None, None), BenchGenLine("Bare.scala", None, "cmd")}

MCCommandLines == (p1 :> CompileLines \cup BenchGenLines) @@ (p2 :> CompileLines \cup GenTbLines)

\* One run of benchgen.py and nothing else.
MCOneBenchGen == p1 :> {BenchGenLine("Core.scala", None, None)}

Dut(version, package) == [version |-> version, package |-> package, streaming |-> FALSE]

OldBridge == [draft |-> 0, of |-> [dut |-> 0]]

MCStartDir ==
  [f \in {"gone.s", "gone.tbspec", "gone.scala", "tb_gone.py", "tb_other.py",
          "AxiOther.scala", "tb_other_prefix.py", "AxiBare.scala", "tb_bare.py",
          "Axigone.scala", "tb_gone_dut.py", "NOTES.md"} |-> None]
  @@ "loop.s" :> AsmText @@ "sum.c" :> CText @@ "soft.C" :> Softcall
  @@ "eq.tbspec" :> 1 @@ "tb_eq.py" :> "an earlier test"
  @@ "Core.scala" :> Dut(1, TRUE) @@ "Bare.scala" :> Dut(1, FALSE)
  @@ "AxiCore.scala" :> OldBridge
  @@ "tb_core.py" :> [draft |-> 0, of |-> OldBridge]
  @@ "Makefile" :> [draft |-> 0, of |-> OldBridge]

MCEdits ==
  {[script |-> "gen_tb.py", file |-> "eq.tbspec", content |-> 2],
   [script |-> "benchgen.py", file |-> "Core.scala", content |-> Dut(2, TRUE)]}

MCBaseName == "eq.tbspec" :> "eq" @@ "gone.tbspec" :> "gone"

MCStem == "Core.scala" :> "Core" @@ "Bare.scala" :> "Bare" @@ "gone.scala" :> "gone"

MCBridgeFile ==
  "Core" :> "AxiCore.scala" @@ "Other" :> "AxiOther.scala" @@ "Bare" :> "AxiBare.scala"
  @@ "gone" :> "Axigone.scala"

MCTbFile ==
  "Core" :> "tb_core.py" @@ "Other" :> "tb_other_prefix.py" @@ "Bare" :> "tb_bare.py"
  @@ "gone" :> "tb_gone_dut.py"

MCCFiles == {"sum.c", "soft.C"}

MCCrt0Code == <<Byte(6), Byte(5)>>

==============================================================================
