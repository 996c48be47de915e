------------------------------- MODULE Compile -------------------------------
(***************************************************************************)
(* rv32i_compile.py: compile_prog, which turns RV32I assembly or C into a  *)
(* list of instruction words with a gcc and an objcopy found on PATH.      *)
(*                                                                         *)
(* A source text is what the code and the compiler tell apart in it:       *)
(*   lang    the language it is written in                                 *)
(*   braces  whether it contains "{" or "#include"                         *)
(*   code    the bytes it compiles to, each the set of its 1 bits          *)
(*   data    the bytes it puts into other sections                         *)
(*   links   whether it compiles and links without any library             *)
(* A tool is a pair: the target it is for, and what it is.                 *)
(***************************************************************************)
EXTENDS Scripts, Words, SequencesExt

CONSTANTS CFiles,    \* file names that end in .c, in any case
          Crt0Code   \* the instructions `call main` and `ecall`, in bytes

Bytes == Seq(Word(8))

ASSUME CompileAssumption == Crt0Code \in Bytes

\* A tool is its target, its name and perhaps a version.
RISCV_CC_CANDIDATES ==
  << <<"riscv64-unknown-elf", "gcc">>, <<"riscv32-unknown-elf", "gcc">>,
     <<"riscv-none-elf", "gcc">>, <<"riscv64-elf", "gcc">>,
     <<"riscv32-linux-gnu", "gcc">>, <<"riscv64-linux-gnu", "gcc">> >>

CRT0_ASM == [lang |-> "asm", braces |-> FALSE, code |-> Crt0Code, data |-> << >>, links |-> TRUE]

guess_lang(text) == IF text.braces THEN "c" ELSE "asm"

\* shutil.which(cc), or the first candidate it finds.
find_riscv_gcc(cc, path) ==
  LET known == IF cc # None THEN <<cc>> ELSE RISCV_CC_CANDIDATES
      found == SelectSeq(known, LAMBDA c : c \in path)
  IN  IF found = << >> THEN None ELSE Head(found)

\* "gcc" replaced in the name of the compiler, at its end or in front of a version; a
\* name without it stays.
objcopyOf(gcc) == IF gcc[2] = "gcc" THEN [gcc EXCEPT ![2] = "objcopy"] ELSE gcc

\* src names a file that exists; otherwise it is the text itself.
is_path(src) == src.path \in DOMAIN dir /\ dir[src.path] # None

SourceText(src) == IF is_path(src) THEN dir[src.path] ELSE src.text

SourceLang(r) ==
  IF r.lang # None THEN r.lang
  ELSE IF is_path(r.src) THEN (IF r.src.path \in CFiles THEN "c" ELSE "asm")
  ELSE guess_lang(r.src.text)

\* The files of the compiler's command line, in its order.
SourceFiles(lang, text) ==
  IF lang = "c" THEN <<[as |-> "asm", text |-> CRT0_ASM], [as |-> "c", text |-> text]>>
                ELSE <<[as |-> "asm", text |-> text]>>

\* gcc takes a file in the language its name stands for.
Builds(files) ==
  \A i \in DOMAIN files : files[i].text.lang = files[i].as /\ files[i].text.links

Elf(files) ==
  [text |-> FlattenSeq([i \in DOMAIN files |-> files[i].text.code]),
   rest |-> FlattenSeq([i \in DOMAIN files |-> files[i].text.data])]

\* objcopy -O binary --only-section=.text
Binary(elf) == elf.text

Pad(data) == data \o [i \in 1 .. (4 - (Len(data) % 4)) % 4 |-> {}]

\* struct.unpack("<I")
Unpack(data) ==
  [k \in 1 .. Len(data) \div 4 |-> UNION {ShiftLeft(data[4 * k - 3 + j], 8 * j) : j \in 0 .. 3}]

----------------------------------------------------------------------------
(* compile_prog, and _elf_to_words in it.                                  *)

ReadSource(p) ==
  /\ At(p, "source")
  /\ Assign(p, [src_text |-> SourceText(request[p].src), lang |-> SourceLang(request[p])])
  /\ Goto(p, "find")
  /\ UNCHANGED <<request, td, bin, dir, tmp>>

FindGcc(p) ==
  LET gcc == find_riscv_gcc(request[p].cc, request[p].path)
  IN  /\ At(p, "find")
      /\ IF gcc = None THEN Raise(p, "FileNotFoundError") /\ UNCHANGED local
                       ELSE Goto(p, "tempdir") /\ Assign(p, [gcc |-> gcc])
      /\ UNCHANGED <<request, td, bin, dir, tmp>>

MakeTempDir(p) ==
  /\ At(p, "tempdir")
  /\ EnterTempDir(p, << >>)
  /\ Goto(p, "sources")
  /\ UNCHANGED <<request, local, bin, dir>>

WriteSources(p) ==
  /\ At(p, "sources")
  /\ IF local[p].lang \in {"c", "asm"}
     THEN /\ Put(td[p], SourceFiles(local[p].lang, local[p].src_text))
          /\ Goto(p, "gcc")
     ELSE Raise(p, "ValueError") /\ UNCHANGED tmp
  /\ UNCHANGED <<request, local, td, bin, dir>>

\* subprocess.run(cmd, check=True): the compiler leaves out.elf, or fails.
RunGcc(p) ==
  /\ At(p, "gcc")
  /\ IF Builds(tmp[td[p]])
     THEN Put(td[p], Elf(tmp[td[p]])) /\ Goto(p, "tempfile")
     ELSE Raise(p, "CalledProcessError") /\ UNCHANGED tmp
  /\ UNCHANGED <<request, local, td, bin, dir>>

\* A mutant: every call uses the same file.
MakeTempFileFixed(p) ==
  /\ At(p, "tempfile")
  /\ LET n == CHOOSE n \in TempFiles : TRUE
     IN  bin' = [bin EXCEPT ![p] = n] /\ Put(n, << >>)
  /\ Goto(p, "objcopy")
  /\ UNCHANGED <<request, local, td, dir>>

\* NamedTemporaryFile(delete=False)
MakeTempFile(p) ==
  /\ At(p, "tempfile")
  /\ \E n \in TempFiles :
       Free(n) /\ bin' = [bin EXCEPT ![p] = n] /\ Put(n, << >>)
  /\ Goto(p, "objcopy")
  /\ UNCHANGED <<request, local, td, dir>>

\* The tool may be missing, or be no objcopy.
RunObjcopy(p) ==
  LET objcopy == objcopyOf(local[p].gcc)
  IN  /\ At(p, "objcopy")
      /\ IF objcopy \in request[p].path /\ objcopy[2] = "objcopy"
         THEN Put(bin[p], Binary(tmp[td[p]])) /\ Goto(p, "read")
         ELSE /\ Raise(p, IF objcopy \in request[p].path THEN "CalledProcessError"
                                                        ELSE "FileNotFoundError")
              /\ UNCHANGED tmp
  /\ UNCHANGED <<request, local, td, bin, dir>>

\* open(binpath) fails if the file is gone.
ReadBinary(p) ==
  /\ At(p, "read")
  /\ IF Free(bin[p]) THEN Raise(p, "FileNotFoundError") /\ UNCHANGED local
                     ELSE Goto(p, "unlink") /\ Assign(p, [data |-> tmp[bin[p]]])
  /\ UNCHANGED <<request, td, bin, dir, tmp>>

\* finally: os.unlink(binpath)
Unlink(p) ==
  /\ At(p, "unlink")
  /\ Erase(bin[p])
  /\ bin' = [bin EXCEPT ![p] = None]
  /\ Goto(p, IF raised[p] = "none" THEN "unpack" ELSE "leave")
  /\ UNCHANGED <<request, local, td, dir>>

PadAndUnpack(p) ==
  /\ At(p, "unpack")
  /\ Assign(p, [words |-> Unpack(Pad(local[p].data))])
  /\ Goto(p, "leave")
  /\ UNCHANGED <<request, td, bin, dir, tmp>>

\* _main prints the words.
PrintWords(p) ==
  /\ At(p, "print")
  /\ Goto(p, "ended")
  /\ UNCHANGED <<request, local, td, bin, dir, tmp>>

CompileStep(p) ==
  /\ request[p].script = "rv32i_compile.py"
  /\ \/ ReadSource(p) \/ FindGcc(p) \/ MakeTempDir(p) \/ WriteSources(p) \/ RunGcc(p)
     \/ MakeTempFile(p) \/ RunObjcopy(p) \/ ReadBinary(p) \/ Unlink(p) \/ PadAndUnpack(p)
     \/ LeaveTempDir(p, "print") \/ PrintWords(p) \/ Interrupted(p, {"gcc", "objcopy"})

----------------------------------------------------------------------------

Compiled(p) == request[p].script = "rv32i_compile.py" /\ Done(p)

\* The words a call returns are the .text of its own source, with the startup code of
\* a C program in front of it, first byte lowest, and zeros up to a whole word:
\* whatever the language was taken for, and whatever another call is doing at the same
\* time (rv32i_compile.py:114-116, 133-136).
WordsAreOfSource ==
  \A p \in Procs :
    Compiled(p) =>
      LET text  == SourceText(request[p].src)
          bytes == (IF text.lang = "c" THEN CRT0_ASM.code ELSE << >>) \o text.code
          words == local[p].words
      IN  /\ 4 * Len(words) - Len(bytes) \in 0 .. 3
          /\ \A i \in 1 .. Len(words), k \in 0 .. 3 :
               Slice(words[i], 8 * k + 7, 8 * k) =
                 IF 4 * i - 3 + k <= Len(bytes) THEN bytes[4 * i - 3 + k] ELSE {}

==============================================================================
