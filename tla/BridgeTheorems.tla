---------------------------- MODULE BridgeTheorems ---------------------------
(***************************************************************************)
(* The host's protocol keeps a program whole, and a cycle count and the    *)
(* results of a run together, and makes each run on a program prepared for *)
(* the pipeline a run of the sequential machine: for every list of jobs    *)
(* whose programs fit, every program, every width and every bus delay.     *)
(***************************************************************************)
EXTENDS SRV32IBridge, ClockTheorems, SequenceTheorems

----------------------------------------------------------------------------
(* Sequences, whatever their elements.                                     *)

IsSequence(s, n) == n \in Nat /\ s = [i \in 1 .. n |-> s[i]]

LEMMA SequenceLen ==
  ASSUME NEW s, NEW n, IsSequence(s, n)
  PROVE  Len(s) = n /\ DOMAIN s = 1 .. n /\ s \in Seq({s[i] : i \in 1 .. n})
<1> DEFINE S == {s[i] : i \in 1 .. n}
<1>1. s \in [1 .. n -> S] /\ DOMAIN s = 1 .. n
  BY DEF IsSequence
<1>2. s \in Seq(S)
  BY <1>1, SeqDef DEF IsSequence
<1>3. Len(s) \in Nat /\ DOMAIN s = 1 .. Len(s)
  BY <1>2, LenProperties
<1> HIDE DEF S
<1>4. Len(s) = n
  <2>1. n \in Nat /\ \A i \in Nat : i \in 1 .. n <=> i \in 1 .. Len(s)
    BY <1>1, <1>3 DEF IsSequence
  <2>2. ~ n > Len(s)
    BY <2>1, <1>3
  <2>3. ~ Len(s) > n
    BY <2>1, <1>3
  <2>4. n \in Nat /\ Len(s) \in Nat
    BY <1>3 DEF IsSequence
  <2> QED
    BY <2>2, <2>3, <2>4
<1> QED
  BY <1>1, <1>2, <1>4 DEF S

Joined(s, t) == s \o t

\* The elements of a concatenation, by their place.
LEMMA Concatenation ==
  ASSUME NEW s, NEW m, IsSequence(s, m), NEW t, NEW n, IsSequence(t, n)
  PROVE  /\ IsSequence(Joined(s, t), m + n)
         /\ \A i \in 1 .. m + n : Joined(s, t)[i] = IF i <= m THEN s[i] ELSE t[i - m]
<1> DEFINE S == {s[i] : i \in 1 .. m} \cup {t[i] : i \in 1 .. n}
<1>1. s \in Seq(S) /\ t \in Seq(S)
  <2>1. /\ {s[i] : i \in 1 .. m} \subseteq S /\ {t[i] : i \in 1 .. n} \subseteq S
        /\ s \in Seq({s[i] : i \in 1 .. m}) /\ t \in Seq({t[i] : i \in 1 .. n})
    BY SequenceLen
  <2> HIDE DEF S
  <2> QED
    BY <2>1, SeqMonotonic
<1>2. Len(s) = m /\ Len(t) = n
  BY SequenceLen
<1> HIDE DEF S
<1>3. /\ s \o t \in Seq(S)
      /\ Len(s \o t) = m + n
      /\ \A i \in 1 .. m + n : (s \o t)[i] = IF i <= m THEN s[i] ELSE t[i - m]
  BY <1>1, <1>2, ConcatProperties
<1>4. IsSequence(s \o t, m + n)
  <2>1. s \o t \in [1 .. m + n -> S]
    BY <1>3, LenProperties
  <2> QED
    BY <2>1 DEF IsSequence
<1> QED
  BY <1>3, <1>4 DEF Joined

LEMMA Halves ==
  ASSUME NEW s, NEW m, IsSequence(s, m), NEW t, NEW n, IsSequence(t, n)
  PROVE  /\ IsSequence(Joined(s, t), m + n)
         /\ \A i \in 1 .. m : Joined(s, t)[i] = s[i]
         /\ \A i \in 1 .. n : Joined(s, t)[m + i] = t[i]
<1>1. m \in Nat /\ n \in Nat
  BY DEF IsSequence
<1>2. IsSequence(Joined(s, t), m + n)
  BY Concatenation
<1>3. ASSUME NEW i \in 1 .. m PROVE Joined(s, t)[i] = s[i]
  BY <1>1, Concatenation
<1>4. ASSUME NEW i \in 1 .. n PROVE Joined(s, t)[m + i] = t[i]
  <2>1. m + i \in 1 .. m + n /\ ~ (m + i <= m) /\ (m + i) - m = i
    BY <1>1
  <2> QED
    BY <2>1, Concatenation
<1> QED
  BY <1>2, <1>3, <1>4

LEMMA HeadOfSequence ==
  ASSUME NEW s, NEW n, IsSequence(s, n), n > 0
  PROVE  Head(s) = s[1]
<1> DEFINE S == {s[i] : i \in 1 .. n}
<1>1. s \in Seq(S) /\ Len(s) = n
  BY SequenceLen
<1> HIDE DEF S
<1>2. s # << >>
  BY <1>1, EmptySeq
<1> QED
  BY <1>1, <1>2

Rest(s) == Tail(s)

LEMMA RestOfSequence ==
  ASSUME NEW s, NEW n, IsSequence(s, n), n > 0
  PROVE  /\ IsSequence(Rest(s), n - 1)
         /\ \A i \in 1 .. n - 1 : Rest(s)[i] = s[i + 1]
         /\ Rest(s) = << >> <=> n = 1
<1> DEFINE S == {s[i] : i \in 1 .. n}
<1>1. s \in Seq(S) /\ Len(s) = n
  BY SequenceLen
<1> HIDE DEF S
<1>2. s # << >>
  BY <1>1, EmptySeq
<1>3. /\ Tail(s) \in Seq(S)
      /\ Len(Tail(s)) = n - 1
      /\ \A i \in 1 .. n - 1 : Tail(s)[i] = s[i + 1]
  BY <1>1, <1>2, HeadTailProperties
<1>4. IsSequence(Tail(s), n - 1)
  BY <1>3, LenProperties DEF IsSequence
<1>5. Tail(s) = << >> <=> n = 1
  BY <1>3, EmptySeq DEF IsSequence
<1> QED
  BY <1>3, <1>4, <1>5 DEF Rest

\* Tuples.
LEMMA Tuples ==
  /\ IsSequence(<< >>, 0)
  /\ \A a : IsSequence(<<a>>, 1)
  /\ \A a, b : IsSequence(<<a, b>>, 2)
  /\ \A a, b, c : IsSequence(<<a, b, c>>, 3)
BY DEF IsSequence

----------------------------------------------------------------------------
(* The accesses of a job, counted from the last one.                       *)

LEMMA JobType ==
  ASSUME NEW j \in DOMAIN Jobs
  PROVE  /\ IsSequence(Jobs[j].prog, Len(Jobs[j].prog))
         /\ IsSequence(Jobs[j].preload, Len(Jobs[j].preload))
         /\ \A i \in DOMAIN Jobs[j].preload :
              Jobs[j].preload[i][1] \in Nat /\ Jobs[j].preload[i][2] \in Data
         /\ \A i \in DOMAIN Jobs[j].prog : Jobs[j].prog[i] \in InstWord
         /\ Jobs[j].addr \in Nat /\ Jobs[j].reg \in RegIdx /\ Jobs[j].entry \in Data
<1>1. Jobs \in Seq(Job)
  BY BridgeAssumption
<1>2. Jobs[j] \in Job
  BY <1>1, LenProperties, ElementOfSeq
<1>3. Jobs[j].prog \in Seq(InstWord) /\ Jobs[j].preload \in Seq(Nat \X Data)
  BY <1>2 DEF Job
<1>4. IsSequence(Jobs[j].prog, Len(Jobs[j].prog))
  BY <1>3, LenProperties DEF IsSequence
<1>5. IsSequence(Jobs[j].preload, Len(Jobs[j].preload))
  BY <1>3, LenProperties DEF IsSequence
<1>6. \A i \in DOMAIN Jobs[j].preload : Jobs[j].preload[i] \in Nat \X Data
  BY <1>3, LenProperties, ElementOfSeq
<1>7. Jobs[j].addr \in Nat /\ Jobs[j].reg \in RegIdx /\ Jobs[j].entry \in Data
  BY <1>2 DEF Job
<1>8. \A i \in DOMAIN Jobs[j].prog : Jobs[j].prog[i] \in InstWord
  BY <1>3, LenProperties, ElementOfSeq
<1> QED
  BY <1>4, <1>5, <1>6, <1>7, <1>8

\* run(): the program is written, read back and given its entry, in this order, with
\* the core disabled before and enabled behind.
IsRun(r, prog, n, entry, check) ==
  /\ IsSequence(r, 2 * n + 6)
  /\ r[1] = setEnable(FALSE)
  /\ \A i \in 1 .. n : /\ r[1 + i] = writeInst(i - 1, prog[i])
                       /\ r[1 + n + i] = verifyInst(i - 1, prog[i])
  /\ r[2 * n + 2] = writeWord(32, entry) /\ r[2 * n + 3] = writeWord(48, One)
  /\ r[2 * n + 4] = setEnable(TRUE) /\ r[2 * n + 5] = waitForHalt
  /\ r[2 * n + 6] = lastAccess(check)

LEMMA RunShape ==
  ASSUME NEW prog, NEW n, IsSequence(prog, n), NEW entry, NEW check
  PROVE  IsRun(run(prog, entry, check), prog, n, entry, check)
<1> DEFINE first  == <<setEnable(FALSE)>>
           writes == [i \in 1 .. n |-> writeInst(i - 1, prog[i])]
           reads  == [i \in 1 .. n |-> verifyInst(i - 1, prog[i])]
           entered == <<writeWord(32, entry), writeWord(48, One)>>
           last   == <<setEnable(TRUE), waitForHalt, lastAccess(check)>>
<1>0. n \in Nat /\ DOMAIN prog = 1 .. n
  BY SequenceLen DEF IsSequence
<1>1. run(prog, entry, check)
        = Joined(Joined(Joined(first, Joined(writes, reads)), entered), last)
  BY <1>0 DEF run, loadProg, setEntry, Joined
<1>2. IsSequence(first, 1) /\ first[1] = setEnable(FALSE)
  BY Tuples
<1>3. IsSequence(writes, n) /\ \A i \in 1 .. n : writes[i] = writeInst(i - 1, prog[i])
  BY <1>0 DEF IsSequence
<1>4. IsSequence(reads, n) /\ \A i \in 1 .. n : reads[i] = verifyInst(i - 1, prog[i])
  BY <1>0 DEF IsSequence
<1>5. IsSequence(entered, 2) /\ entered[1] = writeWord(32, entry) /\ entered[2] = writeWord(48, One)
  BY Tuples
<1>6. /\ IsSequence(last, 3)
      /\ last[1] = setEnable(TRUE) /\ last[2] = waitForHalt /\ last[3] = lastAccess(check)
  BY Tuples
<1> HIDE DEF first, writes, reads, entered, last
<1> DEFINE w == Joined(writes, reads)
           fw == Joined(first, w)
           fwe == Joined(fw, entered)
           r == Joined(fwe, last)
<1>15. run(prog, entry, check) = r
  BY <1>1
<1>8. /\ IsSequence(w, n + n)
      /\ \A i \in 1 .. n : w[i] = writes[i]
      /\ \A i \in 1 .. n : w[n + i] = reads[i]
  <2>1. IsSequence(writes, n) /\ IsSequence(reads, n)
    BY <1>3, <1>4
  <2> QED
    BY ONLY <2>1, Halves
<1> HIDE DEF w
<1>10. /\ IsSequence(fw, 1 + (n + n))
       /\ \A i \in 1 .. 1 : fw[i] = first[i]
       /\ \A i \in 1 .. n + n : fw[1 + i] = w[i]
  <2>1. IsSequence(first, 1) /\ IsSequence(w, n + n)
    BY <1>2, <1>8
  <2> QED
    BY ONLY <2>1, Halves
<1> HIDE DEF fw
<1>12. /\ IsSequence(fwe, 1 + (n + n) + 2)
       /\ \A i \in 1 .. 1 + (n + n) : fwe[i] = fw[i]
       /\ \A i \in 1 .. 2 : fwe[1 + (n + n) + i] = entered[i]
  <2>1. IsSequence(fw, 1 + (n + n)) /\ IsSequence(entered, 2)
    BY <1>5, <1>10
  <2> QED
    BY ONLY <2>1, Halves
<1> HIDE DEF fwe
<1>14. /\ IsSequence(r, 1 + (n + n) + 2 + 3)
       /\ \A i \in 1 .. 1 + (n + n) + 2 : r[i] = fwe[i]
       /\ \A i \in 1 .. 3 : r[1 + (n + n) + 2 + i] = last[i]
  <2>1. IsSequence(fwe, 1 + (n + n) + 2) /\ IsSequence(last, 3)
    BY <1>6, <1>12
  <2> QED
    BY ONLY <2>1, Halves
<1> HIDE DEF r
<1>16. IsSequence(r, 2 * n + 6)
  <2>1. 1 + (n + n) + 2 + 3 = 2 * n + 6
    BY <1>0
  <2> QED
    BY <1>14, <2>1
<1>17. r[1] = setEnable(FALSE)
  <2>1. 1 \in 1 .. 1 /\ 1 \in 1 .. 1 + (n + n) /\ 1 \in 1 .. 1 + (n + n) + 2
    BY <1>0
  <2> QED
    BY <1>2, <1>10, <1>12, <1>14, <2>1
<1>18. ASSUME NEW i \in 1 .. n
       PROVE  r[1 + i] = writeInst(i - 1, prog[i]) /\ r[1 + n + i] = verifyInst(i - 1, prog[i])
  <2>1. /\ i \in 1 .. n + n /\ n + i \in 1 .. n + n /\ 1 + (n + i) = 1 + n + i
        /\ 1 + i \in 1 .. 1 + (n + n) /\ 1 + n + i \in 1 .. 1 + (n + n)
        /\ 1 + i \in 1 .. 1 + (n + n) + 2 /\ 1 + n + i \in 1 .. 1 + (n + n) + 2
    BY <1>0
  <2>2. fw[1 + i] = w[i] /\ fw[1 + n + i] = w[n + i]
    BY <1>10, <2>1
  <2>3. r[1 + i] = fw[1 + i] /\ r[1 + n + i] = fw[1 + n + i]
    BY <1>12, <1>14, <2>1
  <2> QED
    BY <1>3, <1>4, <1>8, <2>2, <2>3
<1>19. r[2 * n + 2] = writeWord(32, entry) /\ r[2 * n + 3] = writeWord(48, One)
  <2>1. /\ 1 + (n + n) + 1 = 2 * n + 2 /\ 1 + (n + n) + 2 = 2 * n + 3
        /\ 2 * n + 2 \in 1 .. 1 + (n + n) + 2 /\ 2 * n + 3 \in 1 .. 1 + (n + n) + 2
    BY <1>0
  <2>2. fwe[2 * n + 2] = entered[1] /\ fwe[2 * n + 3] = entered[2]
    BY <1>12, <2>1
  <2> QED
    BY <1>5, <1>14, <2>1, <2>2
<1>20. r[2 * n + 4] = setEnable(TRUE) /\ r[2 * n + 5] = waitForHalt /\ r[2 * n + 6] = lastAccess(check)
  <2>1. /\ 1 + (n + n) + 2 + 1 = 2 * n + 4 /\ 1 + (n + n) + 2 + 2 = 2 * n + 5
        /\ 1 + (n + n) + 2 + 3 = 2 * n + 6
    BY <1>0
  <2>2. r[1 + (n + n) + 2 + 1] = last[1] /\ r[1 + (n + n) + 2 + 2] = last[2]
        /\ r[1 + (n + n) + 2 + 3] = last[3]
    BY <1>14
  <2> QED
    BY <1>6, <2>1, <2>2, Zenon
<1> QED
  BY <1>15, <1>16, <1>17, <1>18, <1>19, <1>20 DEF IsRun

\* The store of a word in dmem, or behind it.
StoresWord(a) == a.op = "write" /\ a.addr \in Nat /\ a.addr >= dmem_base_rw /\ a.data \in Data

\* An access that prepares a job: a word is stored in dmem, or the core is reset and
\* the end of the reset awaited.
Prepares(b, m, k) ==
  \/ StoresWord(b[k])
  \/ b[k] = awaitBits(0, One, "none")
  \/ b[k] = writeWord(0, One) /\ k < m /\ b[k + 1] = awaitBits(0, One, "none")

LEMMA BeforeShape ==
  ASSUME NEW j \in DOMAIN Jobs
  PROVE  \E m : IsSequence(Before(j), m) /\ \A k \in 1 .. m : Prepares(Before(j), m, k)
<1> DEFINE p == Len(Jobs[j].preload)
           q == IF Jobs[j].reset THEN 2 ELSE 0
           reset == IF Jobs[j].reset THEN resetCore ELSE << >>
           stores == [i \in 1 .. p |-> writeData(Jobs[j].preload[i][1], Jobs[j].preload[i][2])]
<1>1. IsSequence(Jobs[j].preload, p) /\ DOMAIN Jobs[j].preload = 1 .. p
  BY JobType, SequenceLen
<1>2. Before(j) = Joined(reset, stores)
  BY <1>1 DEF Before, Joined
<1>3. /\ IsSequence(reset, q)
      /\ \/ q = 0
         \/ q = 2 /\ reset[1] = writeWord(0, One) /\ reset[2] = awaitBits(0, One, "none")
  <2>1. CASE Jobs[j].reset
    BY <2>1, Tuples DEF resetCore
  <2>2. CASE ~ Jobs[j].reset
    BY <2>2, Tuples
  <2> QED
    BY <2>1, <2>2
<1>4. IsSequence(stores, p)
  BY <1>1 DEF IsSequence
<1>5. \A i \in 1 .. p : StoresWord(stores[i])
  BY <1>1, JobType DEF writeData, writeWord, dmem_base_rw, StoresWord
<1>6. p \in Nat /\ q \in Nat
  BY <1>1 DEF IsSequence
<1> HIDE DEF reset, stores, p, q
<1>7. /\ IsSequence(Joined(reset, stores), q + p)
      /\ \A i \in 1 .. q : Joined(reset, stores)[i] = reset[i]
      /\ \A i \in 1 .. p : Joined(reset, stores)[q + i] = stores[i]
  BY ONLY <1>3, <1>4, Halves
<1>8. ASSUME NEW k \in 1 .. q + p PROVE Prepares(Joined(reset, stores), q + p, k)
  <2>1. CASE k <= q
    <3>1. q = 2 /\ (k = 1 \/ k = 2)
      BY <1>3, <1>6, <2>1
    <3>2. Joined(reset, stores)[1] = reset[1] /\ Joined(reset, stores)[1 + 1] = reset[2]
      BY <1>7, <3>1
    <3>3. 1 < q + p
      BY <1>6, <3>1
    <3> QED
      BY <1>3, <3>1, <3>2, <3>3 DEF Prepares
  <2>2. CASE ~ k <= q
    <3>1. PICK i \in 1 .. p : k = q + i
      <4>1. k - q \in 1 .. p /\ k = q + (k - q)
        BY <1>6, <2>2
      <4> QED
        BY <4>1
    <3> QED
      BY <1>5, <1>7, <3>1 DEF Prepares
  <2> QED
    BY <2>1, <2>2
<1> QED
  BY <1>2, <1>7, <1>8

\* The access of job j that l - 1 others follow.
AccessAt(j, l) == Access(j)[Len(Access(j)) + 1 - l]

\* What the accesses of a job are, counted from the last: the testbench looks at five
\* results; before, run() ends with a disabling of the core, a wait and an enabling;
\* before, it latches the entry, has read back the program and has written it; and it
\* has begun with a disabling of the core.
LEMMA AccessShape ==
  ASSUME NEW j \in DOMAIN Jobs, NEW n, n = Len(Jobs[j].prog)
  PROVE  /\ n \in Nat
         /\ IsSequence(Access(j), Len(Access(j))) /\ Len(Access(j)) >= 2 * n + 11
         /\ \A l \in 1 .. 3 : /\ AccessAt(j, l).op = "read" /\ AccessAt(j, l).as \in {"reg", "pc", "dmem"}
                              /\ AccessAt(j, l).addr # 0
         /\ AccessAt(j, 1) = readData(Jobs[j].addr) /\ AccessAt(j, 2) = readPC
         /\ AccessAt(j, 3) = readReg(Jobs[j].reg)
         /\ AccessAt(j, 4) = readWord(112, "hi") /\ AccessAt(j, 5) = readWord(96, "lo")
         /\ AccessAt(j, 6) = lastAccess(Jobs[j].check_halt) /\ AccessAt(j, 7) = waitForHalt
         /\ AccessAt(j, 8) = setEnable(TRUE) /\ AccessAt(j, 9) = writeWord(48, One)
         /\ AccessAt(j, 10) = writeWord(32, Jobs[j].entry)
         /\ \A i \in 1 .. n :
              /\ AccessAt(j, n + 11 - i) = verifyInst(i - 1, Jobs[j].prog[i])
              /\ AccessAt(j, 2 * n + 11 - i) = writeInst(i - 1, Jobs[j].prog[i])
         /\ AccessAt(j, 2 * n + 11) = setEnable(FALSE)
         /\ \A l \in 2 * n + 12 .. Len(Access(j)) :
              \/ StoresWord(AccessAt(j, l))
              \/ AccessAt(j, l) = awaitBits(0, One, "none")
              \/ /\ AccessAt(j, l) = writeWord(0, One) /\ l - 1 > 2 * n + 11
                 /\ AccessAt(j, l - 1) = awaitBits(0, One, "none")
<1> DEFINE r == run(Jobs[j].prog, Jobs[j].entry, Jobs[j].check_halt)
           look == LookAt(j)
<1>1. IsSequence(Jobs[j].prog, n) /\ n \in Nat
  BY JobType DEF IsSequence
<1>2. PICK m : IsSequence(Before(j), m) /\ \A k \in 1 .. m : Prepares(Before(j), m, k)
  BY BeforeShape
<1>3. m \in Nat
  BY <1>2 DEF IsSequence
<1>4. IsRun(r, Jobs[j].prog, n, Jobs[j].entry, Jobs[j].check_halt) /\ IsSequence(r, 2 * n + 6)
  <2>1. ASSUME NEW prog, NEW entry, NEW check, IsSequence(prog, n)
        PROVE  IsRun(run(prog, entry, check), prog, n, entry, check)
    BY <2>1, RunShape
  <2>2. IsRun(r, Jobs[j].prog, n, Jobs[j].entry, Jobs[j].check_halt)
    BY <1>1, <2>1, Zenon
  <2> QED
    BY <2>2 DEF IsRun
<1>5. /\ IsSequence(look, 5)
      /\ look[1] = readWord(96, "lo") /\ look[2] = readWord(112, "hi")
      /\ \A i \in 3 .. 5 : /\ look[i].op = "read" /\ look[i].as \in {"reg", "pc", "dmem"}
                           /\ look[i].addr # 0
      /\ look[3] = readReg(Jobs[j].reg) /\ look[4] = readPC /\ look[5] = readData(Jobs[j].addr)
  <2> DEFINE a == readReg(Jobs[j].reg)  b == readPC  c == readData(Jobs[j].addr)
  <2>1. /\ a.op = "read" /\ a.as = "reg" /\ b.op = "read" /\ b.as = "pc"
        /\ c.op = "read" /\ c.as = "dmem" /\ a.addr # 0 /\ b.addr # 0 /\ c.addr # 0
    <3>1. Jobs[j].addr \in Nat /\ Jobs[j].reg \in RegIdx
      BY JobType
    <3>2. Jobs[j].reg \in Nat
      BY ONLY <3>1 DEF RegIdx
    <3> QED
      BY <3>1, <3>2 DEF readReg, readPC, readData, readWord, debug_regs_base_r, dmem_base_rw
  <2>2. a = readReg(Jobs[j].reg) /\ b = readPC /\ c = readData(Jobs[j].addr)
    OBVIOUS
  <2>9. look = Joined(<<readWord(96, "lo"), readWord(112, "hi")>>, <<a, b, c>>)
    BY DEF LookAt, readCycles, Joined
  <2> HIDE DEF a, b, c, look
  <2>3. IsSequence(<<readWord(96, "lo"), readWord(112, "hi")>>, 2) /\ IsSequence(<<a, b, c>>, 3)
    BY Tuples
  <2>4. /\ IsSequence(look, 2 + 3)
        /\ \A i \in 1 .. 2 : look[i] = <<readWord(96, "lo"), readWord(112, "hi")>>[i]
        /\ \A i \in 1 .. 3 : look[2 + i] = <<a, b, c>>[i]
    BY ONLY <2>3, <2>9, Halves
  <2>5. look[1] = readWord(96, "lo") /\ look[2] = readWord(112, "hi")
    BY <2>4
  <2>6. look[2 + 1] = a /\ look[2 + 2] = b /\ look[2 + 3] = c
    BY <2>4
  <2>7. IsSequence(look, 5)
    BY <2>4
  <2>8. ASSUME NEW i \in 3 .. 5
        PROVE  /\ look[i].op = "read" /\ look[i].as \in {"reg", "pc", "dmem"}
               /\ look[i].addr # 0
    <3>1. i = 2 + 1 \/ i = 2 + 2 \/ i = 2 + 3
      OBVIOUS
    <3> QED
      BY <2>1, <2>6, <3>1
  <2> QED
    BY <2>2, <2>5, <2>6, <2>7, <2>8
<1> DEFINE br == Joined(Before(j), r)
<1>6. Access(j) = Joined(br, look)
  BY DEF Access, Joined
<1> HIDE DEF r, look
<1>7. /\ IsSequence(br, m + (2 * n + 6))
      /\ \A i \in 1 .. m : br[i] = Before(j)[i]
      /\ \A i \in 1 .. 2 * n + 6 : br[m + i] = r[i]
  BY ONLY <1>2, <1>4, Halves
<1> HIDE DEF br
<1>8. /\ IsSequence(Joined(br, look), m + (2 * n + 6) + 5)
      /\ \A i \in 1 .. m + (2 * n + 6) : Joined(br, look)[i] = br[i]
      /\ \A i \in 1 .. 5 : Joined(br, look)[m + (2 * n + 6) + i] = look[i]
  <2>1. IsSequence(br, m + (2 * n + 6)) /\ IsSequence(look, 5)
    BY <1>5, <1>7
  <2> QED
    BY ONLY <2>1, Halves
<1>9. Len(Access(j)) = m + 2 * n + 11 /\ IsSequence(Access(j), Len(Access(j)))
  <2>1. m + (2 * n + 6) + 5 = m + 2 * n + 11
    BY <1>1, <1>3
  <2> QED
    BY <1>6, <1>8, <2>1, SequenceLen
<1>10. \A l \in 1 .. 5 : AccessAt(j, l) = look[6 - l]
  <2> SUFFICES ASSUME NEW l \in 1 .. 5 PROVE AccessAt(j, l) = look[6 - l]
    OBVIOUS
  <2>1. (m + 2 * n + 11) + 1 - l = m + (2 * n + 6) + (6 - l) /\ 6 - l \in 1 .. 5
    BY <1>1, <1>3
  <2>2. Access(j)[m + (2 * n + 6) + (6 - l)] = look[6 - l]
    BY ONLY <1>6, <1>8, <2>1
  <2>3. AccessAt(j, l) = Access(j)[(m + 2 * n + 11) + 1 - l]
    BY ONLY <1>9 DEF AccessAt
  <2> QED
    BY ONLY <2>1, <2>2, <2>3
<1>11. \A l \in 6 .. 2 * n + 11 : AccessAt(j, l) = r[2 * n + 12 - l]
  <2> SUFFICES ASSUME NEW l \in 6 .. 2 * n + 11 PROVE AccessAt(j, l) = r[2 * n + 12 - l]
    OBVIOUS
  <2>1. /\ (m + 2 * n + 11) + 1 - l = m + (2 * n + 12 - l)
        /\ 2 * n + 12 - l \in 1 .. 2 * n + 6
        /\ m + (2 * n + 12 - l) \in 1 .. m + (2 * n + 6)
    BY <1>1, <1>3
  <2>2. br[m + (2 * n + 12 - l)] = r[2 * n + 12 - l]
    BY <1>7, <2>1
  <2>3. Access(j)[m + (2 * n + 12 - l)] = br[m + (2 * n + 12 - l)]
    BY <1>6, <1>8, <2>1
  <2> QED
    BY <1>9, <2>1, <2>2, <2>3 DEF AccessAt
<1>12. \A l \in 2 * n + 12 .. m + 2 * n + 11 : AccessAt(j, l) = Before(j)[m + 2 * n + 12 - l]
  <2> SUFFICES ASSUME NEW l \in 2 * n + 12 .. m + 2 * n + 11
               PROVE  AccessAt(j, l) = Before(j)[m + 2 * n + 12 - l]
    OBVIOUS
  <2>1. /\ (m + 2 * n + 11) + 1 - l = m + 2 * n + 12 - l
        /\ m + 2 * n + 12 - l \in 1 .. m
        /\ m + 2 * n + 12 - l \in 1 .. m + (2 * n + 6)
    BY <1>1, <1>3
  <2>2. br[m + 2 * n + 12 - l] = Before(j)[m + 2 * n + 12 - l]
    BY ONLY <1>7, <2>1
  <2>3. Access(j)[m + 2 * n + 12 - l] = br[m + 2 * n + 12 - l]
    BY ONLY <1>6, <1>8, <2>1
  <2>4. AccessAt(j, l) = Access(j)[(m + 2 * n + 11) + 1 - l]
    BY ONLY <1>9 DEF AccessAt
  <2> QED
    BY ONLY <2>1, <2>2, <2>3, <2>4
<1>13. \A l \in 1 .. 3 : /\ AccessAt(j, l).op = "read" /\ AccessAt(j, l).as \in {"reg", "pc", "dmem"}
                         /\ AccessAt(j, l).addr # 0
  <2>1. \A l \in 1 .. 3 : l \in 1 .. 5 /\ 6 - l \in 3 .. 5
    OBVIOUS
  <2> QED
    BY <1>5, <1>10, <2>1
<1>14. /\ AccessAt(j, 1) = readData(Jobs[j].addr) /\ AccessAt(j, 2) = readPC
       /\ AccessAt(j, 3) = readReg(Jobs[j].reg)
       /\ AccessAt(j, 4) = readWord(112, "hi") /\ AccessAt(j, 5) = readWord(96, "lo")
  BY <1>5, <1>10
<1>15. /\ AccessAt(j, 6) = lastAccess(Jobs[j].check_halt) /\ AccessAt(j, 7) = waitForHalt
       /\ AccessAt(j, 8) = setEnable(TRUE) /\ AccessAt(j, 9) = writeWord(48, One)
       /\ AccessAt(j, 10) = writeWord(32, Jobs[j].entry)
       /\ AccessAt(j, 2 * n + 11) = setEnable(FALSE)
  <2>1. /\ {6, 7, 8, 9, 10, 2 * n + 11} \subseteq 6 .. 2 * n + 11
        /\ 2 * n + 12 - 6 = 2 * n + 6 /\ 2 * n + 12 - 7 = 2 * n + 5
        /\ 2 * n + 12 - 8 = 2 * n + 4 /\ 2 * n + 12 - 9 = 2 * n + 3
        /\ 2 * n + 12 - 10 = 2 * n + 2 /\ 2 * n + 12 - (2 * n + 11) = 1
    BY <1>1
  <2>2. /\ AccessAt(j, 6) = r[2 * n + 6] /\ AccessAt(j, 7) = r[2 * n + 5]
        /\ AccessAt(j, 8) = r[2 * n + 4] /\ AccessAt(j, 9) = r[2 * n + 3]
        /\ AccessAt(j, 10) = r[2 * n + 2] /\ AccessAt(j, 2 * n + 11) = r[1]
    BY ONLY <1>11, <2>1
  <2> HIDE DEF r
  <2> QED
    BY ONLY <1>4, <2>2 DEF IsRun
<1>16. ASSUME NEW i \in 1 .. n
       PROVE  /\ AccessAt(j, n + 11 - i) = verifyInst(i - 1, Jobs[j].prog[i])
              /\ AccessAt(j, 2 * n + 11 - i) = writeInst(i - 1, Jobs[j].prog[i])
  <2>1. n + 11 - i \in 6 .. 2 * n + 11 /\ 2 * n + 12 - (n + 11 - i) = 1 + n + i
    <3>1. n \in Nat
      BY <1>1
    <3>2. n + 11 - i \in 6 .. 2 * n + 11
      BY ONLY <3>1, i \in 1 .. n
    <3>3. 2 * n + 12 - (n + 11 - i) = 1 + n + i
      BY ONLY <3>1, i \in 1 .. n
    <3> QED
      BY <3>2, <3>3
  <2>2. 2 * n + 11 - i \in 6 .. 2 * n + 11 /\ 2 * n + 12 - (2 * n + 11 - i) = 1 + i
    BY <1>1
  <2>3. /\ r[1 + n + i] = verifyInst(i - 1, Jobs[j].prog[i])
        /\ r[1 + i] = writeInst(i - 1, Jobs[j].prog[i])
    BY ONLY <1>4, i \in 1 .. n DEF IsRun
  <2>4. AccessAt(j, n + 11 - i) = r[1 + n + i]
    BY ONLY <1>11, <2>1
  <2>5. AccessAt(j, 2 * n + 11 - i) = r[1 + i]
    BY ONLY <1>11, <2>2
  <2> QED
    BY ONLY <2>3, <2>4, <2>5
<1>17. ASSUME NEW l \in 2 * n + 12 .. m + 2 * n + 11
       PROVE  \/ StoresWord(AccessAt(j, l))
              \/ AccessAt(j, l) = awaitBits(0, One, "none")
              \/ /\ AccessAt(j, l) = writeWord(0, One) /\ l - 1 > 2 * n + 11
                 /\ AccessAt(j, l - 1) = awaitBits(0, One, "none")
  <2> DEFINE k == m + 2 * n + 12 - l
  <2>1. k \in 1 .. m /\ (k < m => l - 1 \in 2 * n + 12 .. m + 2 * n + 11)
        /\ m + 2 * n + 12 - (l - 1) = k + 1
    BY <1>1, <1>3
  <2>2. AccessAt(j, l) = Before(j)[k]
    BY <1>12
  <2> HIDE DEF k
  <2>3. Prepares(Before(j), m, k)
    BY <1>2, <2>1
  <2>4. k < m => AccessAt(j, l - 1) = Before(j)[k + 1] /\ l - 1 > 2 * n + 11
    <3>1. k < m => AccessAt(j, l - 1) = Before(j)[m + 2 * n + 12 - (l - 1)]
      BY <1>12, <2>1
    <3>2. l - 1 \in 2 * n + 12 .. m + 2 * n + 11 => l - 1 > 2 * n + 11
      BY <1>1, <1>3
    <3> QED
      BY <2>1, <3>1, <3>2
  <2> QED
    BY <2>2, <2>3, <2>4 DEF Prepares
<1> QED
  <2>1. Len(Access(j)) >= 2 * n + 11
    BY <1>1, <1>3, <1>9
  <2> QED
    BY <1>1, <1>9, <1>13, <1>14, <1>15, <1>16, <1>17, <2>1

----------------------------------------------------------------------------
(* The inductive invariant: where the host is in its job, and what the     *)
(* hardware has of it.                                                     *)

Left == Len(todo)
Size == Len(Jobs[job].prog)

Asking == Doing({"expect", "read", "await"})

\* What is left of the job under way is the end of its accesses.
TodoIsTheRest ==
  /\ job \in 1 .. Len(Jobs) + 1
  /\ working => /\ IsSequence(todo, Left) /\ Left \in 1 .. Len(Access(job))
                /\ \A i \in 1 .. Left : todo[i] = AccessAt(job, Left + 1 - i)

\* The write channels carry nothing but the write under way.
WriteIsCurrent ==
  /\ Doing({"write"}) =>
       /\ awHoldAddrReg \in {None, current.addr}
       /\ wHoldReg \in {None, [data |-> current.data, strb |-> Lane]}
       /\ brespReg # None => awHoldAddrReg = None /\ wHoldReg = None
  /\ ~ Doing({"write"}) => awHoldAddrReg = None /\ wHoldReg = None /\ brespReg = None

\* What the read channel carries is still true.
ReadIsCurrent ==
  /\ ~ Asking => rstateReg = "READY2READ"
  /\ rstateReg = "WAIT_MEM" =>
       /\ Selected(current.addr) \in {"imem", "dmem"}
       /\ Selected(current.addr) = "imem" =>
            pendingImem /\ hostImemRdVec = imem[ImemSlot(current.addr)]
  /\ rstateReg = "COMPLETED" =>
       /\ Selected(current.addr) = "imem" => rdataReg = imem[ImemSlot(current.addr)]
       /\ Left = 5 => rdataReg = FromInt(cycleReg % CycleLo, 32)
       /\ Left = 4 => rdataReg = FromInt(cycleReg \div CycleLo, 32)
       /\ current.addr = 0 /\ 0 \in rdataReg => ~ softReset /\ resetCounterReg = 0
  /\ rstateReg \in RState

\* A soft reset is over before the host goes on.
ResetIsAwaited ==
  /\ resetCounterReg \in Nat
  /\ softReset \/ resetCounterReg > 0 =>
       working /\ current.addr = 0 /\ (Doing({"write"}) => brespReg # None)
  /\ softResetDoneReg => ~ softReset /\ resetCounterReg = 0

\* The core is disabled while its program is replaced and when run() has returned.
CoreIsDisabled ==
  working /\ (\/ Left <= 5 \/ Left \in 9 .. 2 * Size + 10
              \/ Left \in {6, 2 * Size + 11} /\ brespReg # None) => ~ enable

\* The words that have been read back are those of the program.
VerifiedIsLoaded ==
  working => \A i \in 1 .. Size :
    i + Left < Size + 11 => imem[FromInt(i - 1, IMEMW)] = Jobs[job].prog[i]

\* A half of the cycle count that has been read is still true.
CountIsKept ==
  working => /\ result = [n \in {"lo", "hi", "reg", "pc", "dmem"} |-> result[n]]
             /\ Left <= 4 => result["lo"] = FromInt(cycleReg % CycleLo, 32)
             /\ Left <= 3 => result["hi"] = FromInt(cycleReg \div CycleLo, 32)

HostInv ==
  /\ TodoIsTheRest /\ WriteIsCurrent /\ ReadIsCurrent /\ ResetIsAwaited
  /\ CoreIsDisabled /\ VerifiedIsLoaded /\ CountIsKept

----------------------------------------------------------------------------
(* The access under way, by the number of accesses left.                   *)

LEMMA Selections ==
  /\ Selected(0) = "soft_reset" /\ Selected(16) = "enable" /\ Selected(32) = "entry_addr"
  /\ Selected(48) = "entry_addr_we" /\ Selected(64) = "status"
  /\ Selected(96) = "debug_cycles_lo" /\ Selected(112) = "debug_cycles_hi"
  /\ \A a : Selected(a) = "soft_reset" => a = 0
  /\ \A a : Selected(a) = "enable" => a = 16
<1>1. /\ Selected(0) = "soft_reset" /\ Selected(16) = "enable" /\ Selected(32) = "entry_addr"
      /\ Selected(48) = "entry_addr_we" /\ Selected(64) = "status"
  BY DEF Selected, InWindow, debug_regs_base_r, imem_base_rw, dmem_base_rw
<1>2. Selected(96) = "debug_cycles_lo" /\ Selected(112) = "debug_cycles_hi"
  BY DEF Selected, InWindow, debug_regs_base_r, imem_base_rw, dmem_base_rw
<1>3. \A a : Selected(a) = "soft_reset" => a = 0
  BY DEF Selected
<1>4. \A a : Selected(a) = "enable" => a = 16
  BY DEF Selected
<1> QED
  BY <1>1, <1>2, <1>3, <1>4

LEMMA CurrentShape ==
  ASSUME TodoIsTheRest, working
  PROVE  /\ Size \in Nat /\ Left \in Nat \ {0}
         /\ Left \in 1 .. 3 => current.op = "read" /\ current.as \in {"reg", "pc", "dmem"}
                                 /\ current.addr # 0
         /\ Left = 1 => current = readData(Jobs[job].addr)
         /\ Left = 2 => current = readPC
         /\ Left = 3 => current = readReg(Jobs[job].reg)
         /\ Left = 4 => current = readWord(112, "hi")
         /\ Left = 5 => current = readWord(96, "lo")
         /\ Left = 6 => current = lastAccess(Jobs[job].check_halt)
         /\ Left = 7 => current = waitForHalt
         /\ Left = 8 => current = setEnable(TRUE)
         /\ Left = 9 => current = writeWord(48, One)
         /\ Left = 10 => current = writeWord(32, Jobs[job].entry)
         /\ \A i \in 1 .. Size :
              /\ Left = Size + 11 - i => current = verifyInst(i - 1, Jobs[job].prog[i])
              /\ Left = 2 * Size + 11 - i => current = writeInst(i - 1, Jobs[job].prog[i])
         /\ Left = 2 * Size + 11 => current = setEnable(FALSE)
         /\ Left > 2 * Size + 11 =>
              \/ StoresWord(current)
              \/ current = awaitBits(0, One, "none")
              \/ /\ current = writeWord(0, One) /\ Left - 1 > 2 * Size + 11
                 /\ AccessAt(job, Left - 1) = awaitBits(0, One, "none")
<1>1. job \in DOMAIN Jobs
  BY DEF working
<1>2. /\ IsSequence(todo, Left) /\ Left \in 1 .. Len(Access(job)) /\ Left \in Nat
      /\ todo[1] = AccessAt(job, Left)
  <2>1. /\ IsSequence(todo, Left) /\ Left \in 1 .. Len(Access(job))
        /\ \A i \in 1 .. Left : todo[i] = AccessAt(job, Left + 1 - i)
    BY DEF TodoIsTheRest
  <2>2. Left \in Nat /\ 1 \in 1 .. Left /\ Left + 1 - 1 = Left
    BY <2>1 DEF IsSequence
  <2> QED
    BY <2>1, <2>2
<1>3. current = AccessAt(job, Left)
  <2>1. Left > 0
    BY <1>2
  <2>2. Head(todo) = todo[1]
    BY <1>2, <2>1, HeadOfSequence
  <2> QED
    BY <1>2, <2>2 DEF current
<1> HIDE DEF Left
<1>4. Size = Len(Jobs[job].prog)
  BY DEF Size
<1>5. Len(Access(job)) \in Nat
  BY <1>1, <1>4, AccessShape DEF IsSequence
<1>6. Size \in Nat /\ Left \in Nat \ {0}
  BY <1>1, <1>2, <1>4, AccessShape
<1>7. Left > 2 * Size + 11 => Left \in 2 * Size + 12 .. Len(Access(job))
  BY <1>2, <1>5, <1>6
<1>8. /\ \A l \in 1 .. 3 : /\ AccessAt(job, l).op = "read" /\ AccessAt(job, l).as \in {"reg", "pc", "dmem"}
                           /\ AccessAt(job, l).addr # 0
      /\ AccessAt(job, 1) = readData(Jobs[job].addr) /\ AccessAt(job, 2) = readPC
      /\ AccessAt(job, 3) = readReg(Jobs[job].reg)
      /\ AccessAt(job, 4) = readWord(112, "hi") /\ AccessAt(job, 5) = readWord(96, "lo")
      /\ AccessAt(job, 6) = lastAccess(Jobs[job].check_halt) /\ AccessAt(job, 7) = waitForHalt
      /\ AccessAt(job, 8) = setEnable(TRUE) /\ AccessAt(job, 9) = writeWord(48, One)
      /\ AccessAt(job, 10) = writeWord(32, Jobs[job].entry)
      /\ AccessAt(job, 2 * Size + 11) = setEnable(FALSE)
  <2>1. \A l \in 1 .. 3 : /\ AccessAt(job, l).op = "read" /\ AccessAt(job, l).as \in {"reg", "pc", "dmem"}
                          /\ AccessAt(job, l).addr # 0
    BY ONLY <1>1, <1>4, AccessShape
  <2>2. /\ AccessAt(job, 1) = readData(Jobs[job].addr) /\ AccessAt(job, 2) = readPC
        /\ AccessAt(job, 3) = readReg(Jobs[job].reg)
        /\ AccessAt(job, 4) = readWord(112, "hi") /\ AccessAt(job, 5) = readWord(96, "lo")
    BY ONLY <1>1, <1>4, AccessShape
  <2>3. /\ AccessAt(job, 6) = lastAccess(Jobs[job].check_halt) /\ AccessAt(job, 7) = waitForHalt
        /\ AccessAt(job, 8) = setEnable(TRUE) /\ AccessAt(job, 9) = writeWord(48, One)
        /\ AccessAt(job, 10) = writeWord(32, Jobs[job].entry)
        /\ AccessAt(job, 2 * Size + 11) = setEnable(FALSE)
    BY ONLY <1>1, <1>4, AccessShape
  <2> QED
    BY ONLY <2>1, <2>2, <2>3, Zenon
<1>9. /\ Left \in 1 .. 3 => current.op = "read" /\ current.as \in {"reg", "pc", "dmem"}
                             /\ current.addr # 0
      /\ Left = 1 => current = readData(Jobs[job].addr)
      /\ Left = 2 => current = readPC
      /\ Left = 3 => current = readReg(Jobs[job].reg)
      /\ Left = 4 => current = readWord(112, "hi")
      /\ Left = 5 => current = readWord(96, "lo")
      /\ Left = 6 => current = lastAccess(Jobs[job].check_halt)
      /\ Left = 7 => current = waitForHalt
      /\ Left = 8 => current = setEnable(TRUE)
      /\ Left = 9 => current = writeWord(48, One)
      /\ Left = 10 => current = writeWord(32, Jobs[job].entry)
      /\ Left = 2 * Size + 11 => current = setEnable(FALSE)
  BY <1>3, <1>8, Zenon
<1>10. ASSUME NEW i \in 1 .. Size
       PROVE  /\ Left = Size + 11 - i => current = verifyInst(i - 1, Jobs[job].prog[i])
              /\ Left = 2 * Size + 11 - i => current = writeInst(i - 1, Jobs[job].prog[i])
  <2>1. /\ AccessAt(job, Size + 11 - i) = verifyInst(i - 1, Jobs[job].prog[i])
        /\ AccessAt(job, 2 * Size + 11 - i) = writeInst(i - 1, Jobs[job].prog[i])
    BY <1>1, <1>4, AccessShape
  <2> QED
    BY <1>3, <2>1
<1>11. ASSUME Left > 2 * Size + 11
       PROVE  \/ StoresWord(current)
              \/ current = awaitBits(0, One, "none")
              \/ /\ current = writeWord(0, One) /\ Left - 1 > 2 * Size + 11
                 /\ AccessAt(job, Left - 1) = awaitBits(0, One, "none")
  <2>1. Left \in 2 * Size + 12 .. Len(Access(job))
    BY <1>7, <1>11
  <2> QED
    BY <1>1, <1>3, <1>4, <2>1, AccessShape
<1> QED
  BY <1>6, <1>9, <1>10, <1>11

\* What the invariant needs of it.
LEMMA Place ==
  ASSUME TodoIsTheRest, working
  PROVE  /\ Size \in Nat /\ Left \in Nat \ {0}
         /\ current.addr = 0 =>
              /\ Left > 2 * Size + 11 /\ current.as = "none"
              /\ \/ current.op = "await" /\ current.data = One
                 \/ /\ current.op = "write" /\ Left - 1 > 2 * Size + 11
                    /\ AccessAt(job, Left - 1) = awaitBits(0, One, "none")
         /\ Left <= 5 => current.op = "read"
         /\ Left = 5 => current = readWord(96, "lo")
         /\ Left = 4 => current = readWord(112, "hi")
         /\ Left <= 3 => current.as \in {"reg", "pc", "dmem"}
         /\ Left \in {6, 2 * Size + 11} =>
              current.op = "write" /\ current.addr = 16 /\ current.data = {}
         /\ Left \in 9 .. 2 * Size + 10 => current.addr # 16
         /\ Left <= Size + 10 /\ current.op = "write" => current.addr \in {16, 32, 48}
         /\ \A i \in 1 .. Size :
              Left = Size + 11 - i => current = verifyInst(i - 1, Jobs[job].prog[i])
<1> USE DEF writeWord, readWord, expectWord, awaitBits, setEnable, lastAccess, waitForHalt
<1>1. Size \in Nat /\ Left \in Nat \ {0}
  BY CurrentShape
<1>2. ASSUME Left <= 5
      PROVE  /\ current.op = "read" /\ current.addr # 0
             /\ Left = 5 => current = readWord(96, "lo")
             /\ Left = 4 => current = readWord(112, "hi")
             /\ Left <= 3 => current.as \in {"reg", "pc", "dmem"}
  <2>1. Left \in 1 .. 3 \/ Left = 4 \/ Left = 5
    BY <1>1, <1>2
  <2> QED
    BY <1>1, <2>1, CurrentShape
<1>3. Left \in {6, 2 * Size + 11} =>
        current.op = "write" /\ current.addr = 16 /\ current.data = {}
  BY CurrentShape DEF Flag
<1>4. Left = 7 => current.op = "await" /\ current.addr = 64
  BY CurrentShape
<1>5. Left \in {8, 9, 10} => current.op = "write" /\ current.addr \in {16, 32, 48}
  <2>1. /\ Left = 8 => current = setEnable(TRUE)
        /\ Left = 9 => current = writeWord(48, One)
        /\ Left = 10 => current = writeWord(32, Jobs[job].entry)
    BY ONLY TodoIsTheRest, working, CurrentShape
  <2>2. Left = 8 => current.op = "write" /\ current.addr = 16
    BY <2>1
  <2>3. Left = 9 => current.op = "write" /\ current.addr = 48
    BY <2>1
  <2>4. Left = 10 => current.op = "write" /\ current.addr = 32
    BY <2>1
  <2> QED
    BY ONLY <2>2, <2>3, <2>4
<1>6. Left \in {9, 10} => current.addr # 16
  BY CurrentShape
<1>7. ASSUME Left \in 11 .. Size + 10
      PROVE  current.op = "expect" /\ current.addr >= 4096
  <2>1. PICK i \in 1 .. Size : Left = Size + 11 - i
    <3>1. Size + 11 - Left \in 1 .. Size /\ Left = Size + 11 - (Size + 11 - Left)
      BY <1>1, <1>7
    <3> QED
      BY <3>1
  <2>2. current = verifyInst(i - 1, Jobs[job].prog[i])
    BY <2>1, CurrentShape
  <2> QED
    BY <2>2 DEF verifyInst, imem_base_rw
<1>8. ASSUME Left \in Size + 11 .. 2 * Size + 10
      PROVE  current.op = "write" /\ current.addr >= 4096
  <2>1. PICK i \in 1 .. Size : Left = 2 * Size + 11 - i
    <3>1. /\ 2 * Size + 11 - Left \in 1 .. Size
          /\ Left = 2 * Size + 11 - (2 * Size + 11 - Left)
      BY <1>1, <1>8
    <3> QED
      BY <3>1
  <2>2. current = writeInst(i - 1, Jobs[job].prog[i])
    BY <2>1, CurrentShape
  <2> QED
    BY <2>2 DEF writeInst, imem_base_rw
<1>9. \/ Left <= 5 \/ Left = 6 \/ Left = 7 \/ Left \in {8, 9, 10} \/ Left \in 11 .. Size + 10
      \/ Left \in Size + 11 .. 2 * Size + 10 \/ Left = 2 * Size + 11 \/ Left > 2 * Size + 11
  BY <1>1
<1>10. ASSUME current.addr = 0
       PROVE  /\ Left > 2 * Size + 11 /\ current.as = "none"
              /\ \/ current.op = "await" /\ current.data = One
                 \/ /\ current.op = "write" /\ Left - 1 > 2 * Size + 11
                    /\ AccessAt(job, Left - 1) = awaitBits(0, One, "none")
  <2>1. Left > 2 * Size + 11
    BY <1>2, <1>3, <1>4, <1>5, <1>7, <1>8, <1>9, <1>10
  <2>2. \/ current = awaitBits(0, One, "none")
        \/ /\ current = writeWord(0, One) /\ Left - 1 > 2 * Size + 11
           /\ AccessAt(job, Left - 1) = awaitBits(0, One, "none")
    <3>1. ~ StoresWord(current)
      BY <1>10 DEF StoresWord, dmem_base_rw
    <3> QED
      BY <2>1, <3>1, CurrentShape
  <2> QED
    BY <2>1, <2>2
<1>11. Left \in 9 .. 2 * Size + 10 => current.addr # 16
  <2>1. Left \in 9 .. 2 * Size + 10 =>
          Left \in {9, 10} \/ Left \in 11 .. Size + 10 \/ Left \in Size + 11 .. 2 * Size + 10
    BY <1>1
  <2> QED
    BY <1>6, <1>7, <1>8, <2>1
<1>12. Left <= Size + 10 /\ current.op = "write" => current.addr \in {16, 32, 48}
  <2>1. Left <= Size + 10 =>
          Left <= 5 \/ Left = 6 \/ Left = 7 \/ Left \in {8, 9, 10} \/ Left \in 11 .. Size + 10
    BY <1>1
  <2> QED
    BY <1>2, <1>3, <1>4, <1>5, <1>7, <2>1
<1>13. \A i \in 1 .. Size :
         Left = Size + 11 - i => current = verifyInst(i - 1, Jobs[job].prog[i])
  BY CurrentShape
<1> QED
  BY <1>1, <1>2, <1>3, <1>10, <1>11, <1>12, <1>13

\* The access that follows.
LEMMA Following ==
  ASSUME TodoIsTheRest, working, Left > 1, job' = job, todo' = Tail(todo)
  PROVE  /\ working' /\ Left' = Left - 1 /\ Size' = Size
         /\ TodoIsTheRest' /\ current' = AccessAt(job, Left - 1)
<1>1. /\ IsSequence(todo, Left) /\ Left \in 1 .. Len(Access(job)) /\ Left \in Nat
      /\ job \in 1 .. Len(Jobs) + 1
      /\ \A i \in 1 .. Left : todo[i] = AccessAt(job, Left + 1 - i)
  BY DEF TodoIsTheRest, IsSequence
<1>2. /\ IsSequence(todo', Left - 1)
      /\ \A i \in 1 .. Left - 1 : todo'[i] = todo[i + 1]
  <2>1. todo' = Rest(todo)
    BY DEF Rest
  <2>2. IsSequence(todo, Left) /\ Left > 0
    BY <1>1
  <2>3. /\ IsSequence(Rest(todo), Left - 1)
        /\ \A i \in 1 .. Left - 1 : Rest(todo)[i] = todo[i + 1]
    BY ONLY <2>2, RestOfSequence
  <2> QED
    BY ONLY <2>1, <2>3
<1>3. working' /\ Size' = Size
  BY DEF working, Size
<1>4. Left' = Left - 1
  BY <1>2, SequenceLen DEF Left
<1>5. \A i \in 1 .. Left - 1 : todo'[i] = AccessAt(job, (Left - 1) + 1 - i)
  <2> SUFFICES ASSUME NEW i \in 1 .. Left - 1 PROVE todo'[i] = AccessAt(job, (Left - 1) + 1 - i)
    OBVIOUS
  <2>1. i + 1 \in 1 .. Left /\ Left + 1 - (i + 1) = (Left - 1) + 1 - i
    BY <1>1
  <2> QED
    BY <1>1, <1>2, <2>1
<1>6. Left - 1 \in 1 .. Len(Access(job))
  BY <1>1
<1>7. TodoIsTheRest'
  BY <1>1, <1>2, <1>4, <1>5, <1>6 DEF TodoIsTheRest, AccessAt
<1>8. current' = AccessAt(job, Left - 1)
  <2>1. Head(todo') = todo'[1]
    <3>1. Left - 1 > 0
      BY <1>1
    <3> QED
      BY <1>2, <3>1, HeadOfSequence
  <2>2. 1 \in 1 .. Left - 1 /\ (Left - 1) + 1 - 1 = Left - 1
    BY <1>1
  <2> QED
    BY <1>5, <2>1, <2>2 DEF current
<1> QED
  BY <1>3, <1>4, <1>7, <1>8

\* The first access of the next job.
LEMMA NextJob ==
  ASSUME TodoIsTheRest, working, job' = job + 1,
         todo' = IF job = Len(Jobs) THEN << >> ELSE Access(job + 1)
  PROVE  /\ TodoIsTheRest'
         /\ working' => Size' \in Nat /\ Left' \in Nat /\ Left' >= 2 * Size' + 11
<1>1. Jobs \in Seq(Job)
  BY BridgeAssumption
<1>2. Len(Jobs) \in Nat /\ DOMAIN Jobs = 1 .. Len(Jobs)
  BY <1>1, LenProperties
<1>3. job \in 1 .. Len(Jobs) /\ job' \in 1 .. Len(Jobs) + 1
  BY <1>2 DEF working
<1>4. ASSUME working'
      PROVE  /\ Size' \in Nat /\ Left' \in Nat /\ Left' >= 2 * Size' + 11
             /\ IsSequence(todo', Left') /\ Left' = Len(Access(job'))
  <2>1. job' \in DOMAIN Jobs /\ todo' = Access(job')
    BY <1>2, <1>3, <1>4 DEF working
  <2> DEFINE n == Len(Jobs[job'].prog)
  <2>2. Size' = n /\ Left' = Len(Access(job'))
    BY <2>1 DEF Size, Left
  <2>3. n \in Nat /\ IsSequence(Access(job'), Len(Access(job'))) /\ Len(Access(job')) >= 2 * n + 11
    BY <2>1, AccessShape
  <2> QED
    BY <2>1, <2>2, <2>3 DEF IsSequence
<1>5. ASSUME working'
      PROVE  /\ Left' \in 1 .. Len(Access(job'))
             /\ \A i \in 1 .. Left' : todo'[i] = AccessAt(job', Left' + 1 - i)
  <2>1. Left' \in 1 .. Len(Access(job'))
    BY <1>4, <1>5
  <2>2. todo' = Access(job')
    BY <1>2, <1>3, <1>5 DEF working
  <2>3. \A i \in 1 .. Left' : Left' + 1 - (Left' + 1 - i) = i
    BY <1>4, <1>5
  <2> QED
    BY <1>4, <1>5, <2>1, <2>2, <2>3 DEF AccessAt
<1>6. TodoIsTheRest'
  BY <1>3, <1>4, <1>5 DEF TodoIsTheRest, AccessAt
<1> QED
  BY <1>4, <1>6

----------------------------------------------------------------------------
(* What one clock does to the host.                                        *)

\* The access under way goes on.
Continues ==
  /\ UNCHANGED <<job, todo, st, result>>
  /\ \/ Doing({"write"}) /\ ReadIdle /\ ~ (brespReg # None /\ brespReg' = None)
     \/ /\ Asking
        /\ \/ ReadIdle \/ ReadRegister(current.addr) \/ ReadImem(current.addr)
           \/ ReadDmem(current.addr) \/ ReadCapture \/ ReadHeld \/ ReadTaken
     \/ ~ working /\ ReadIdle

\* A write has been answered, or the answer of a read been taken.
Answered ==
  \/ Doing({"write"}) /\ ReadIdle /\ brespReg # None /\ brespReg' = None
  \/ Asking /\ ReadTaken

\* The next access of the job begins.
GoesOn ==
  /\ Answered /\ Left > 1
  /\ job' = job /\ todo' = Tail(todo)
  /\ current.op = "expect" => rdataReg = current.data
  /\ current.op = "await" => current.data \subseteq rdataReg
  /\ current.as = "check" /\ current.op = "write" => CleanHalt(st)
  /\ st' = IF current.op = "await" /\ current.as = "st" THEN rdataReg ELSE st
  /\ IF current.op = "read" THEN result' = [result EXCEPT ![current.as] = rdataReg]
                            ELSE result' = result

\* The next job begins.
BeginsNext ==
  /\ Answered
  /\ Left = 1 \/ current.op = "expect" \/ current.as # "none"
  /\ job' = job + 1 /\ todo' = IF job = Len(Jobs) THEN << >> ELSE Access(job + 1)
  /\ result' = NoResult

LEMMA HostStep ==
  ASSUME TodoIsTheRest, [BridgeNext]_bridgeVars
  PROVE  \/ UNCHANGED bridgeVars
         \/ /\ AxiClock(AddressOffered, BeatOffered)
            /\ \/ Continues
               \/ working /\ GoesOn
               \/ working /\ BeginsNext
<1>1. working => (Tail(todo) = << >> <=> Left = 1) /\ (Left # 1 => Left > 1)
  <2> SUFFICES ASSUME working PROVE (Tail(todo) = << >> <=> Left = 1) /\ (Left # 1 => Left > 1)
    OBVIOUS
  <2>1. IsSequence(todo, Left) /\ Left \in Nat \ {0}
    BY CurrentShape DEF TodoIsTheRest
  <2>2. Left > 0
    BY <2>1
  <2>3. Rest(todo) = << >> <=> Left = 1
    BY ONLY <2>1, <2>2, RestOfSequence
  <2> QED
    BY <2>1, <2>3 DEF Rest
<1>2. ASSUME NEW s, NEW r, Proceed(s, r), working
      PROVE  \/ Left > 1 /\ job' = job /\ todo' = Tail(todo) /\ st' = s /\ result' = r
             \/ /\ Left = 1 /\ job' = job + 1
                /\ todo' = IF job = Len(Jobs) THEN << >> ELSE Access(job + 1)
                /\ result' = NoResult
  BY <1>1, <1>2 DEF Proceed, End
<1>3. \A how : End(how) =>
        /\ job' = job + 1 /\ todo' = IF job = Len(Jobs) THEN << >> ELSE Access(job + 1)
        /\ result' = NoResult
  BY DEF End
<1>4. CASE BridgeNext
  <2>1. AxiClock(AddressOffered, BeatOffered)
    BY <1>4 DEF BridgeNext
  <2>2. CASE HostWrites
    <3>1. Doing({"write"}) /\ working /\ current.op = "write" /\ ReadIdle
      BY <2>2 DEF HostWrites, Doing
    <3>2. CASE brespReg # None /\ brespReg' = None
      <4>1. Answered
        BY <3>1, <3>2 DEF Answered
      <4>2. \/ current.as = "check" /\ End("AssertionError")
            \/ (current.as = "check" => CleanHalt(st)) /\ Proceed(st, result)
        BY <2>2, <3>2 DEF HostWrites
      <4>3. CASE current.as = "check" /\ End("AssertionError")
        BY <1>3, <2>1, <3>1, <4>1, <4>3 DEF BeginsNext
      <4>4. CASE (current.as = "check" => CleanHalt(st)) /\ Proceed(st, result)
        BY <1>2, <2>1, <3>1, <4>1, <4>4 DEF BeginsNext, GoesOn
      <4> QED
        BY <4>2, <4>3, <4>4
    <3>3. CASE ~ (brespReg # None /\ brespReg' = None)
      BY <2>1, <2>2, <3>1, <3>3 DEF HostWrites, Continues
    <3> QED
      BY <3>2, <3>3
  <2>3. CASE HostAsks
    BY <2>1, <2>3 DEF HostAsks, Continues, Asking, hostVars
  <2>4. CASE HostWaits
    BY <2>1, <2>4 DEF HostWaits, Continues, Asking, hostVars
  <2>5. CASE HostChecksAnswer
    <3>1. working /\ current.op = "expect" /\ Answered
      BY <2>5 DEF HostChecksAnswer, Doing, Asking, Answered
    <3>2. \/ rdataReg = current.data /\ Proceed(st, result)
          \/ End("AssertionError")
      BY <2>5 DEF HostChecksAnswer
    <3>3. CASE rdataReg = current.data /\ Proceed(st, result)
      BY <1>2, <2>1, <3>1, <3>3 DEF BeginsNext, GoesOn
    <3>4. CASE End("AssertionError")
      BY <1>3, <2>1, <3>1, <3>4 DEF BeginsNext
    <3> QED
      BY <3>2, <3>3, <3>4
  <2>6. CASE HostKeepsAnswer
    <3>1. working /\ current.op = "read" /\ Answered
      BY <2>6 DEF HostKeepsAnswer, Doing, Asking, Answered
    <3>2. Proceed(st, [result EXCEPT ![current.as] = rdataReg])
      BY <2>6 DEF HostKeepsAnswer
    <3> QED
      BY <1>2, <2>1, <3>1, <3>2 DEF BeginsNext, GoesOn
  <2>7. CASE HostPolls
    <3>1. working /\ current.op = "await" /\ Answered /\ Asking /\ ReadTaken
      BY <2>7 DEF HostPolls, Doing, Asking, Answered
    <3>2. CASE current.data \subseteq rdataReg
      <4>1. Proceed(IF current.as = "st" THEN rdataReg ELSE st, result)
        BY <2>7, <3>2 DEF HostPolls
      <4> QED
        BY <1>2, <2>1, <3>1, <3>2, <4>1 DEF BeginsNext, GoesOn
    <3>3. CASE ~ current.data \subseteq rdataReg
      <4>1. \/ current.as = "st" /\ End("TimeoutError")
            \/ UNCHANGED <<job, todo, st, result>>
        BY <2>7, <3>3 DEF HostPolls
      <4> QED
        BY <1>3, <2>1, <3>1, <4>1 DEF BeginsNext, Continues
    <3> QED
      BY <3>2, <3>3
  <2>8. CASE HostIdle
    BY <2>1, <2>8 DEF HostIdle, Continues, hostVars
  <2> QED
    BY <1>4, <2>2, <2>3, <2>4, <2>5, <2>6, <2>7, <2>8 DEF BridgeNext
<1> QED
  BY <1>4

----------------------------------------------------------------------------
(* What one clock does to the hardware.                                    *)

LEMMA AnswerIsGiven == bresp # None
<1>1. "OKAY" # None /\ "SLVERR" # None
  BY AxiAssumption
<1> QED
  BY <1>1 DEF bresp

\* Nothing is written but by the write under way, and before it is answered.
LEMMA WriteEffects ==
  ASSUME WriteIsCurrent
  PROVE  /\ doWrite => /\ Doing({"write"}) /\ brespReg = None
                       /\ awHoldAddrReg = current.addr /\ wHoldReg.data = current.data
         /\ \A r : Writes(r) <=> doWrite /\ Selected(current.addr) = r
<1>1. doWrite => /\ Doing({"write"}) /\ brespReg = None
                 /\ awHoldAddrReg = current.addr
                 /\ wHoldReg = [data |-> current.data, strb |-> Lane]
  BY DEF doWrite, WriteIsCurrent
<1> QED
  BY <1>1 DEF Writes

LEMMA RegistersKept ==
  ASSUME WriteIsCurrent, ControlRegisters, SharedMemories
  PROVE  /\ ~ doWrite => enable' = enable
         /\ doWrite /\ current.addr # 16 => enable' = enable
         /\ doWrite /\ current.addr = 16 => enable' = (0 \in current.data)
         /\ ~ doWrite => imem' = imem
         /\ Selected(current.addr) # "imem" => imem' = imem
<1>1. ~ doWrite => enable' = enable /\ imem' = imem
  BY DEF ControlRegisters, SharedMemories, Writes, hostWritesImem
<1>2. doWrite /\ current.addr # 16 => enable' = enable
  BY WriteEffects, Selections DEF ControlRegisters
<1>3. doWrite /\ current.addr = 16 => enable' = (0 \in current.data)
  BY WriteEffects, Selections DEF ControlRegisters
<1>4. Selected(current.addr) # "imem" => imem' = imem
  BY WriteEffects DEF SharedMemories, hostWritesImem
<1> QED
  BY <1>1, <1>2, <1>3, <1>4

\* The cycle counter stands still while the core is disabled.
LEMMA CountStops ==
  ASSUME Clock, ~ enable, ~ softReset
  PROVE  cycleReg' = cycleReg
<1>1. IdleCycle
  BY DEF Clock, BubbleCycle, StallCycle, ExecuteCycle, RedirectCycle, HaltCycle, HaltedCycle,
         SoftResetCycle, Advance, active
<1> QED
  BY <1>1 DEF IdleCycle

LEMMA WriteIsCurrentStep ==
  ASSUME TodoIsTheRest, WriteIsCurrent, AxiClock(AddressOffered, BeatOffered),
         Continues \/ (working /\ GoesOn) \/ (working /\ BeginsNext)
  PROVE  /\ WriteIsCurrent'
         /\ Answered => brespReg' = None /\ ~ doWrite
         /\ doWrite => brespReg' # None
<1>1. WritePath(AddressOffered, BeatOffered)
  BY DEF AxiClock
<1>2. doWrite => /\ awHoldAddrReg' = None /\ wHoldReg' = None /\ brespReg' # None
                 /\ Doing({"write"}) /\ brespReg = None
  BY <1>1, AnswerIsGiven, WriteEffects DEF WritePath
<1>3. ASSUME ~ Doing({"write"})
      PROVE  awHoldAddrReg' = None /\ wHoldReg' = None /\ brespReg' = None /\ ~ doWrite
  <2>1. ~ doWrite /\ AddressOffered = {} /\ BeatOffered = {}
    BY <1>2, <1>3 DEF AddressOffered, BeatOffered
  <2> QED
    BY <1>1, <1>3, <2>1 DEF WritePath, WriteIsCurrent
<1>4. ASSUME Doing({"write"}), brespReg # None
      PROVE  awHoldAddrReg' = None /\ wHoldReg' = None /\ brespReg' \in {brespReg, None} /\ ~ doWrite
  BY <1>1, <1>4 DEF WritePath, WriteIsCurrent, doWrite
<1>5. ASSUME Doing({"write"}), brespReg = None, ~ doWrite
      PROVE  /\ awHoldAddrReg' \in {None, current.addr}
             /\ wHoldReg' \in {None, [data |-> current.data, strb |-> Lane]}
             /\ brespReg' = None
  <2>1. /\ AddressOffered \subseteq {current.addr}
        /\ BeatOffered \subseteq {[data |-> current.data, strb |-> Lane]}
    BY DEF AddressOffered, BeatOffered
  <2> QED
    BY <1>1, <1>5, <2>1 DEF WritePath, WriteIsCurrent
<1>6. ASSUME Answered
      PROVE  awHoldAddrReg' = None /\ wHoldReg' = None /\ brespReg' = None /\ ~ doWrite
  <2>1. CASE Doing({"write"})
    <3>1. ~ Asking
      BY <2>1 DEF Asking, Doing
    <3> QED
      BY <1>4, <1>6, <2>1, <3>1 DEF Answered
  <2> QED
    BY <1>3, <2>1
<1>7. ASSUME Continues PROVE WriteIsCurrent'
  <2>1. (Doing({"write"}) <=> Doing({"write"})') /\ current' = current
    BY <1>7 DEF Continues, Doing, working, current
  <2> QED
    BY <1>2, <1>3, <1>4, <1>5, <2>1 DEF WriteIsCurrent
<1>8. ASSUME Answered PROVE WriteIsCurrent'
  BY <1>6, <1>8 DEF WriteIsCurrent
<1> QED
  BY <1>2, <1>6, <1>7, <1>8 DEF GoesOn, BeginsNext

LEMMA ResetIsAwaitedStep ==
  ASSUME HostInv, AxiClock(AddressOffered, BeatOffered),
         Continues \/ (working /\ GoesOn) \/ (working /\ BeginsNext)
  PROVE  /\ ResetIsAwaited'
         /\ ~ doWrite /\ ~ softReset /\ resetCounterReg = 0 => ~ softReset' /\ resetCounterReg' = 0
<1> USE DEF HostInv
<1>1. SoftResetFsm
  BY DEF AxiClock
<1>2. /\ Writes("soft_reset") => doWrite /\ working /\ Doing({"write"}) /\ current.addr = 0
      /\ doWrite => brespReg' # None /\ Continues
  BY WriteEffects, Selections, WriteIsCurrentStep DEF Doing, GoesOn, BeginsNext
<1>3. resetCounterReg' \in Nat
  BY <1>1, AxiAssumption DEF SoftResetFsm, ResetIsAwaited
<1>4. softResetDoneReg' => ~ softReset' /\ resetCounterReg' = 0
  <2>1. CASE Writes("soft_reset")
    BY <1>1, <2>1 DEF SoftResetFsm
  <2>2. CASE ~ Writes("soft_reset") /\ resetCounterReg > 0
    <3>1. softResetDoneReg' = softResetDoneReg
      BY <1>1, <2>2 DEF SoftResetFsm
    <3>2. ~ softResetDoneReg
      BY <2>2 DEF ResetIsAwaited
    <3> QED
      BY <3>1, <3>2
  <2>3. CASE ~ Writes("soft_reset") /\ ~ resetCounterReg > 0
    <3>1. softReset' = FALSE /\ resetCounterReg' = resetCounterReg
      BY <1>1, <2>3 DEF SoftResetFsm
    <3>2. resetCounterReg = 0
      BY <2>3 DEF ResetIsAwaited
    <3> QED
      BY <3>1, <3>2
  <2> QED
    BY <2>1, <2>2, <2>3
<1>5. ~ Writes("soft_reset") /\ (softReset' \/ resetCounterReg' > 0) =>
        softReset \/ resetCounterReg > 0
  BY <1>1, <1>3 DEF SoftResetFsm, ResetIsAwaited
<1>6. ~ Writes("soft_reset") /\ ~ softReset /\ resetCounterReg = 0 =>
        ~ softReset' /\ resetCounterReg' = 0
  BY <1>1 DEF SoftResetFsm
<1>7. ASSUME softReset' \/ resetCounterReg' > 0
      PROVE  working' /\ current'.addr = 0 /\ (Doing({"write"})' => brespReg' # None)
  <2>1. working /\ current.addr = 0 /\ (Doing({"write"}) => brespReg # None \/ doWrite)
    BY <1>2, <1>5, <1>7 DEF ResetIsAwaited
  <2>2. CASE Continues
    <3>1. working' /\ current' = current /\ (Doing({"write"})' <=> Doing({"write"}))
      BY <2>1, <2>2 DEF Continues, working, current, Doing
    <3>2. Doing({"write"}) => brespReg' # None
      BY <1>2, <2>1, <2>2 DEF Continues, Asking, Doing
    <3> QED
      BY <2>1, <3>1, <3>2
  <2>3. CASE GoesOn
    <3>1. ~ Writes("soft_reset") /\ (softReset \/ resetCounterReg > 0)
      <4>1. ~ doWrite
        BY <2>3, WriteIsCurrentStep DEF GoesOn
      <4> QED
        BY <1>2, <1>5, <1>7, <4>1
    <3>2. Left > 2 * Size + 11
          /\ \/ current.op = "await" /\ current.data = One
             \/ current.op = "write" /\ AccessAt(job, Left - 1) = awaitBits(0, One, "none")
      BY <2>1, Place
    <3>3. CASE current.op = "await" /\ current.data = One
      <4>1. ReadTaken /\ 0 \in rdataReg
        BY <2>3, <3>3 DEF GoesOn, Answered, Doing, One
      <4> QED
        BY <2>1, <3>1, <4>1 DEF ReadIsCurrent, ReadTaken, ResetIsAwaited
    <3>4. CASE current.op = "write" /\ AccessAt(job, Left - 1) = awaitBits(0, One, "none")
      <4>1. working' /\ current' = awaitBits(0, One, "none")
        BY <2>1, <2>3, <3>4, Following DEF GoesOn
      <4> QED
        BY <4>1 DEF awaitBits, Doing
    <3> QED
      BY <3>2, <3>3, <3>4
  <2>4. CASE BeginsNext
    <3>1. Left > 1 /\ current.as = "none" /\ current.op # "expect"
      BY <2>1, Place
    <3> QED
      BY <2>4, <3>1 DEF BeginsNext
  <2> QED
    BY <2>2, <2>3, <2>4
<1>8. ~ doWrite => ~ Writes("soft_reset")
  BY <1>2
<1> QED
  BY <1>3, <1>4, <1>6, <1>7, <1>8 DEF ResetIsAwaited

\* Where the invariant says so, the core stays disabled and its count as it is.
LEMMA CoreIsDisabledStep ==
  ASSUME HostInv, AxiClock(AddressOffered, BeatOffered),
         Continues \/ (working /\ GoesOn) \/ (working /\ BeginsNext)
  PROVE  /\ CoreIsDisabled'
         /\ working /\ Left <= 5 => cycleReg' = cycleReg /\ ~ doWrite
<1> USE DEF HostInv
<1>1. ControlRegisters /\ SharedMemories /\ Clock
  BY DEF AxiClock
<1>2. doWrite => Continues /\ brespReg = None /\ working
  BY WriteIsCurrentStep, WriteEffects DEF Doing, GoesOn, BeginsNext
<1>3. ASSUME Continues PROVE CoreIsDisabled'
  <2>1. (working' <=> working) /\ Left' = Left /\ Size' = Size
    BY <1>3 DEF Continues, working, Left, Size
  <2>2. ASSUME working, Left <= 5 \/ Left \in 9 .. 2 * Size + 10 PROVE ~ enable'
    <3>1. ~ enable /\ (doWrite => current.addr # 16)
      BY <2>2, Place, WriteEffects DEF CoreIsDisabled, Doing
    <3> QED
      BY <1>1, <3>1, RegistersKept
  <2>3. ASSUME working, Left \in {6, 2 * Size + 11}, brespReg' # None PROVE ~ enable'
    <3>1. current.op = "write" /\ current.addr = 16 /\ current.data = {}
      BY <2>3, Place
    <3>2. CASE doWrite
      BY <1>1, <3>1, <3>2, RegistersKept
    <3>3. CASE ~ doWrite
      <4>1. brespReg # None
        BY <1>1, <2>3, <3>3 DEF AxiClock, WritePath
      <4> QED
        BY <1>1, <2>3, <3>3, <4>1, RegistersKept DEF CoreIsDisabled
    <3> QED
      BY <3>2, <3>3
  <2> QED
    BY <2>1, <2>2, <2>3 DEF CoreIsDisabled
<1>4. ASSUME working, GoesOn PROVE CoreIsDisabled'
  <2>1. /\ working' /\ Left' = Left - 1 /\ Size' = Size
    BY <1>4, Following DEF GoesOn
  <2>2. ~ doWrite /\ brespReg' = None
    BY <1>4, WriteIsCurrentStep DEF GoesOn
  <2>3. ASSUME Left - 1 <= 5 \/ Left - 1 \in 9 .. 2 * Size + 10 PROVE ~ enable
    <3>1. Size \in Nat /\ Left \in Nat
      BY <1>4, Place
    <3>2. \/ Left <= 5 \/ Left \in 9 .. 2 * Size + 10
          \/ Left \in {6, 2 * Size + 11}
      BY <2>3, <3>1
    <3>3. Left \in {6, 2 * Size + 11} => brespReg # None
      BY <1>4, Place DEF GoesOn, Answered, Asking, Doing
    <3> QED
      BY <1>4, <3>2, <3>3 DEF CoreIsDisabled
  <2> QED
    BY <1>1, <2>1, <2>2, <2>3, RegistersKept DEF CoreIsDisabled
<1>5. ASSUME working, BeginsNext PROVE CoreIsDisabled'
  <2>1. working' => Size' \in Nat /\ Left' \in Nat /\ Left' >= 2 * Size' + 11
    BY <1>5, NextJob DEF BeginsNext
  <2>2. brespReg' = None
    BY <1>5, WriteIsCurrentStep DEF BeginsNext
  <2> QED
    BY <2>1, <2>2 DEF CoreIsDisabled
<1>6. ASSUME working, Left <= 5 PROVE cycleReg' = cycleReg /\ ~ doWrite
  <2>1. ~ enable /\ current.op = "read" /\ current.addr # 0
    <3>1. Left > 2 * Size + 11 => ~ Left <= 5
      BY <1>6, Place
    <3> QED
      BY <1>6, <3>1, Place DEF CoreIsDisabled
  <2>2. ~ softReset
    BY <2>1 DEF ResetIsAwaited
  <2>3. ~ doWrite
    BY <2>1, WriteEffects DEF Doing
  <2> QED
    BY <1>1, <2>1, <2>2, <2>3, CountStops
<1> QED
  BY <1>3, <1>4, <1>5, <1>6

\* The slot of imem that a word of a program is written to and read back from.
LEMMA WordAddress ==
  ASSUME NEW j \in DOMAIN Jobs, NEW i \in DOMAIN Jobs[j].prog, NEW w
  PROVE  /\ verifyInst(i - 1, w).op = "expect" /\ verifyInst(i - 1, w).data = w
         /\ Selected(verifyInst(i - 1, w).addr) = "imem"
         /\ ImemSlot(verifyInst(i - 1, w).addr) = FromInt(i - 1, IMEMW)
<1>1. i \in Nat
  BY JobType, SequenceLen
<1>2. verifyInst(i - 1, w).addr = imem_base_rw + (i - 1) * 16
  BY DEF verifyInst, expectWord
<1>3. Selected(imem_base_rw + (i - 1) * 16) = "imem"
  BY BridgeAssumption DEF Fits
<1>4. ((imem_base_rw + (i - 1) * 16) - imem_base_rw) \div 16 = i - 1
  BY <1>1 DEF imem_base_rw
<1> QED
  BY <1>2, <1>3, <1>4 DEF ImemSlot, verifyInst, expectWord

LEMMA VerifiedIsLoadedStep ==
  ASSUME HostInv, AxiClock(AddressOffered, BeatOffered),
         Continues \/ (working /\ GoesOn) \/ (working /\ BeginsNext)
  PROVE  VerifiedIsLoaded'
<1> USE DEF HostInv
<1>1. ControlRegisters /\ SharedMemories
  BY DEF AxiClock
<1>2. CASE Continues
  <2>1. (working' <=> working) /\ Left' = Left /\ Size' = Size /\ job' = job
    BY <1>2 DEF Continues, working, Left, Size
  <2>2. ASSUME working, NEW i \in 1 .. Size, i + Left < Size + 11
        PROVE  imem' = imem
    <3>1. Left <= Size + 10
      BY <2>2, Place
    <3>2. CASE doWrite
      <4>1. current.addr \in {16, 32, 48}
        BY <2>2, <3>1, <3>2, Place, WriteEffects DEF Doing
      <4>2. Selected(current.addr) # "imem"
        BY <4>1, Selections
      <4> QED
        BY <1>1, <4>2, RegistersKept
    <3> QED
      BY <1>1, <3>2, RegistersKept
  <2> QED
    BY <2>1, <2>2 DEF VerifiedIsLoaded
<1>3. CASE working /\ GoesOn
  <2>1. working' /\ Left' = Left - 1 /\ Size' = Size /\ job' = job
    BY <1>3, Following DEF GoesOn
  <2>2. imem' = imem
    BY <1>1, <1>3, WriteIsCurrentStep, RegistersKept DEF GoesOn
  <2>3. ASSUME NEW i \in 1 .. Size, i + (Left - 1) < Size + 11
        PROVE  imem[FromInt(i - 1, IMEMW)] = Jobs[job].prog[i]
    <3>1. i + Left < Size + 11 \/ Left = Size + 11 - i
      BY <1>3, <2>3, Place
    <3>2. CASE i + Left < Size + 11
      BY <1>3, <3>2 DEF VerifiedIsLoaded
    <3>3. CASE Left = Size + 11 - i
      <4> DEFINE w == Jobs[job].prog[i]
      <4>1. current = verifyInst(i - 1, w)
        BY <1>3, <3>3, Place
      <4>2. job \in DOMAIN Jobs /\ i \in DOMAIN Jobs[job].prog
        BY <1>3, JobType, SequenceLen DEF working, Size
      <4> HIDE DEF w
      <4>3. /\ current.op = "expect" /\ current.data = w
            /\ Selected(current.addr) = "imem"
            /\ ImemSlot(current.addr) = FromInt(i - 1, IMEMW)
        BY <4>1, <4>2, WordAddress
      <4>4. rdataReg = w /\ rstateReg = "COMPLETED"
        BY <1>3, <4>3 DEF GoesOn, Answered, Doing, ReadTaken
      <4>5. rdataReg = imem[FromInt(i - 1, IMEMW)]
        BY <4>3, <4>4 DEF ReadIsCurrent
      <4> QED
        BY <4>4, <4>5 DEF w
    <3> QED
      BY <3>1, <3>2, <3>3
  <2> QED
    BY <2>1, <2>2, <2>3 DEF VerifiedIsLoaded
<1>4. CASE working /\ BeginsNext
  <2>1. working' => Size' \in Nat /\ Left' \in Nat /\ Left' >= 2 * Size' + 11
    BY <1>4, NextJob DEF BeginsNext
  <2>2. working' => \A i \in 1 .. Size' : ~ i + Left' < Size' + 11
    BY <2>1
  <2> QED
    BY <2>2 DEF VerifiedIsLoaded
<1> QED
  BY <1>2, <1>3, <1>4

LEMMA CountIsKeptStep ==
  ASSUME HostInv, AxiClock(AddressOffered, BeatOffered),
         Continues \/ (working /\ GoesOn) \/ (working /\ BeginsNext)
  PROVE  CountIsKept'
<1> USE DEF HostInv
<1> DEFINE lo == FromInt(cycleReg % CycleLo, 32)
           hi == FromInt(cycleReg \div CycleLo, 32)
           names == {"lo", "hi", "reg", "pc", "dmem"}
<1>1. working /\ Left <= 5 => lo' = lo /\ hi' = hi
  BY CoreIsDisabledStep
<1>2. working /\ Left <= 4 => result["lo"] = lo
  BY DEF CountIsKept
<1>3. working /\ Left <= 3 => result["hi"] = hi
  BY DEF CountIsKept
<1>4. working => result = [n \in names |-> result[n]]
  BY DEF CountIsKept
<1>5. working => Left \in Nat
  BY Place
<1> HIDE DEF lo, hi
<1>6. ASSUME Continues
      PROVE  working' => /\ result' = [n \in names |-> result'[n]]
                         /\ Left' <= 4 => result'["lo"] = lo'
                         /\ Left' <= 3 => result'["hi"] = hi'
  <2>1. (working' <=> working) /\ Left' = Left /\ result' = result
    BY <1>6 DEF Continues, working, Left
  <2> QED
    BY <1>1, <1>2, <1>3, <1>4, <1>5, <2>1
<1>7. ASSUME working, GoesOn
      PROVE  /\ result' = [n \in names |-> result'[n]]
             /\ Left' <= 4 => result'["lo"] = lo'
             /\ Left' <= 3 => result'["hi"] = hi'
  <2>1. Left' = Left - 1 /\ Left \in Nat
    BY <1>7, Place, Following DEF GoesOn
  <2>2. result' = [n \in names |-> result'[n]]
    BY <1>4, <1>7 DEF GoesOn
  <2>3. ASSUME Left <= 5
        PROVE  /\ result' = [result EXCEPT ![current.as] = rdataReg]
               /\ rstateReg = "COMPLETED" /\ lo' = lo /\ hi' = hi
    <3>1. current.op = "read"
      BY <1>7, <2>3, Place
    <3> QED
      BY <1>1, <1>7, <2>3, <3>1 DEF GoesOn, Answered, Doing, ReadTaken
  <2>4. ASSUME Left = 5
        PROVE  result'["lo"] = lo'
    <3>1. current.as = "lo" /\ rdataReg = lo
      BY <1>7, <2>3, <2>4, Place DEF readWord, ReadIsCurrent, lo
    <3> QED
      BY <1>4, <1>7, <2>3, <2>4, <3>1
  <2>5. ASSUME Left = 4
        PROVE  result'["lo"] = lo' /\ result'["hi"] = hi'
    <3>1. current.as = "hi" /\ rdataReg = hi
      BY <1>7, <2>3, <2>5, Place DEF readWord, ReadIsCurrent, hi
    <3> QED
      BY <1>2, <1>4, <1>7, <2>3, <2>5, <3>1
  <2>6. ASSUME Left <= 3
        PROVE  result'["lo"] = lo' /\ result'["hi"] = hi'
    <3>1. current.as \in {"reg", "pc", "dmem"} /\ Left <= 4 /\ Left <= 5
      BY <1>7, <2>1, <2>6, Place
    <3> QED
      BY <1>2, <1>3, <1>4, <1>7, <2>3, <2>6, <3>1
  <2>7. /\ Left - 1 <= 4 => Left = 5 \/ Left = 4 \/ Left <= 3
        /\ Left - 1 <= 3 => Left = 4 \/ Left <= 3
    BY <2>1
  <2> QED
    BY <2>1, <2>2, <2>4, <2>5, <2>6, <2>7
<1>8. ASSUME working, BeginsNext
      PROVE  working' => /\ result' = [n \in names |-> result'[n]]
                         /\ ~ Left' <= 4 /\ ~ Left' <= 3
  <2>1. working' => Size' \in Nat /\ Left' \in Nat /\ Left' >= 2 * Size' + 11
    BY <1>8, NextJob DEF BeginsNext
  <2>2. result' = NoResult
    BY <1>8 DEF BeginsNext
  <2> QED
    BY <2>1, <2>2 DEF NoResult
<1>9. working' => /\ result' = [n \in names |-> result'[n]]
                  /\ Left' <= 4 => result'["lo"] = lo'
                  /\ Left' <= 3 => result'["hi"] = hi'
  BY <1>6, <1>7, <1>8
<1> QED
  BY <1>9 DEF CountIsKept, lo, hi

LEMMA ReadIsCurrentStep ==
  ASSUME HostInv, AxiClock(AddressOffered, BeatOffered),
         Continues \/ (working /\ GoesOn) \/ (working /\ BeginsNext)
  PROVE  ReadIsCurrent'
<1> USE DEF HostInv
<1>1. ControlRegisters /\ SharedMemories
  BY DEF AxiClock
<1>2. ASSUME rstateReg' = "READY2READ" PROVE ReadIsCurrent'
  BY <1>2 DEF ReadIsCurrent, RState
<1>3. GoesOn \/ BeginsNext => rstateReg' = "READY2READ"
  BY DEF GoesOn, BeginsNext, Answered, ReadIdle, ReadTaken
<1>4. ASSUME Continues, rstateReg' # "READY2READ"
      PROVE  ReadIsCurrent'
  <2>1. /\ Asking /\ working /\ ~ Doing({"write"})
        /\ \/ ReadRegister(current.addr) \/ ReadImem(current.addr)
           \/ ReadDmem(current.addr) \/ ReadCapture \/ ReadHeld
    BY <1>4 DEF Continues, ReadIdle, ReadTaken, Asking, Doing
  <2>2. Asking' /\ current' = current /\ Left' = Left
    BY <1>4, <2>1 DEF Continues, Asking, Doing, working, current, Left
  <2>3. ~ doWrite /\ imem' = imem
    BY <1>1, <2>1, WriteEffects, RegistersKept
  <2>4. Left = 5 \/ Left = 4 => cycleReg' = cycleReg
    BY <2>1, CoreIsDisabledStep, Place
  <2>5. ~ softReset /\ resetCounterReg = 0 => ~ softReset' /\ resetCounterReg' = 0
    BY <2>3, ResetIsAwaitedStep
  <2> DEFINE lo == FromInt(cycleReg % CycleLo, 32)
             hi == FromInt(cycleReg \div CycleLo, 32)
  <2>6. /\ Left = 5 => lo' = lo /\ current.addr = 96
        /\ Left = 4 => hi' = hi /\ current.addr = 112
    BY <2>1, <2>4, Place DEF readWord
  <2> DEFINE Fresh ==
               /\ Selected(current.addr) = "imem" => rdataReg' = imem[ImemSlot(current.addr)]
               /\ Left = 5 => rdataReg' = lo
               /\ Left = 4 => rdataReg' = hi
               /\ current.addr = 0 /\ 0 \in rdataReg' => ~ softReset /\ resetCounterReg = 0
  <2>7. ASSUME rstateReg' = "COMPLETED", Fresh
        PROVE  ReadIsCurrent'
    <3>1. Selected(current.addr) = "imem" => rdataReg' = imem'[ImemSlot(current.addr)]
      BY <2>3, <2>7
    <3>2. (Left = 5 => rdataReg' = lo') /\ (Left = 4 => rdataReg' = hi')
      BY <2>6, <2>7
    <3>3. current.addr = 0 /\ 0 \in rdataReg' => ~ softReset' /\ resetCounterReg' = 0
      BY <2>5, <2>7
    <3> HIDE DEF lo, hi, Fresh
    <3> QED
      BY <2>2, <2>7, <3>1, <3>2, <3>3 DEF ReadIsCurrent, RState, lo, hi
  <2>8. CASE ReadRegister(current.addr)
    <3>1. rstateReg' = "COMPLETED" /\ rdataReg' = RegisterRead(current.addr)
          /\ Selected(current.addr) # "imem"
      BY <2>8 DEF ReadRegister
    <3>2. RegisterRead(96) = lo /\ RegisterRead(112) = hi
          /\ RegisterRead(0) = Flag(softResetDoneReg)
      BY Selections DEF RegisterRead
    <3>3. 0 \in Flag(softResetDoneReg) => softResetDoneReg
      BY DEF Flag
    <3>4. softResetDoneReg => ~ softReset /\ resetCounterReg = 0
      BY DEF ResetIsAwaited
    <3>5. Fresh
      BY <2>6, <3>1, <3>2, <3>3, <3>4
    <3> QED
      BY <2>7, <3>1, <3>5
  <2>9. CASE ReadImem(current.addr)
    <3>1. /\ rstateReg' = "WAIT_MEM" /\ Selected(current.addr) = "imem"
          /\ pendingImem' /\ hostImemRdVec' = imem'[ImemSlot(current.addr)]
      BY <2>3, <2>9 DEF ReadImem
    <3>2. ImemSlot(current.addr)' = ImemSlot(current.addr)
      BY <2>2 DEF ImemSlot
    <3> QED
      BY <2>2, <3>1, <3>2 DEF ReadIsCurrent, RState
  <2>10. CASE ReadDmem(current.addr)
    <3>1. rstateReg' = "WAIT_MEM" /\ Selected(current.addr) = "dmem"
      BY <2>10 DEF ReadDmem
    <3> QED
      BY <2>2, <3>1 DEF ReadIsCurrent, RState
  <2>11. CASE ReadCapture
    <3>1. /\ rstateReg' = "COMPLETED" /\ rstateReg = "WAIT_MEM"
          /\ pendingImem => rdataReg' = hostImemRdVec
      BY <2>11 DEF ReadCapture
    <3>2. /\ Selected(current.addr) \in {"imem", "dmem"}
          /\ Selected(current.addr) = "imem" => rdataReg' = imem[ImemSlot(current.addr)]
      BY <3>1 DEF ReadIsCurrent
    <3>3. current.addr # 96 /\ current.addr # 112 /\ current.addr # 0
      BY <3>2, Selections
    <3> QED
      BY <2>6, <2>7, <3>1, <3>2, <3>3
  <2>12. CASE ReadHeld
    <3>1. rstateReg' = "COMPLETED" /\ rstateReg = "COMPLETED" /\ rdataReg' = rdataReg
      BY <2>12 DEF ReadHeld
    <3>2. Fresh
      BY <3>1 DEF ReadIsCurrent
    <3> QED
      BY <2>7, <3>1, <3>2
  <2> QED
    BY <2>1, <2>8, <2>9, <2>10, <2>11, <2>12
<1> QED
  BY <1>2, <1>3, <1>4

----------------------------------------------------------------------------

LEMMA HostInvInit == BridgeInit => HostInv
<1> SUFFICES ASSUME BridgeInit PROVE HostInv
  OBVIOUS
<1>1. Jobs \in Seq(Job) /\ Len(Jobs) \in Nat /\ DOMAIN Jobs = 1 .. Len(Jobs)
  BY BridgeAssumption, LenProperties
<1>2. /\ job = 1 /\ todo = Access(1) /\ result = NoResult
      /\ ~ softReset /\ ~ softResetDoneReg /\ resetCounterReg = 0
      /\ awHoldAddrReg = None /\ wHoldReg = None /\ brespReg = None
      /\ rstateReg = "READY2READ"
  BY DEF BridgeInit, AxiInit
<1>3. ASSUME working
      PROVE  /\ Size \in Nat /\ Left \in Nat /\ Left >= 2 * Size + 11
             /\ IsSequence(todo, Left) /\ Left = Len(Access(job))
  <2>1. job \in DOMAIN Jobs /\ todo = Access(job)
    BY <1>2, <1>3 DEF working
  <2> DEFINE n == Len(Jobs[job].prog)
  <2>2. n \in Nat /\ IsSequence(Access(job), Len(Access(job))) /\ Len(Access(job)) >= 2 * n + 11
    BY <2>1, AccessShape
  <2> QED
    BY <2>1, <2>2 DEF Size, Left, IsSequence
<1>4. TodoIsTheRest
  <2>1. job \in 1 .. Len(Jobs) + 1
    BY <1>1, <1>2
  <2>2. ASSUME working
        PROVE  Left \in 1 .. Len(Access(job)) /\ \A i \in 1 .. Left : todo[i] = AccessAt(job, Left + 1 - i)
    <3>1. todo = Access(job) /\ Left = Len(Access(job)) /\ Left \in 1 .. Len(Access(job))
      BY <1>2, <1>3, <2>2
    <3>2. \A i \in 1 .. Left : Left + 1 - (Left + 1 - i) = i
      BY <1>3, <2>2
    <3> QED
      BY <3>1, <3>2 DEF AccessAt
  <2> QED
    BY <1>3, <2>1, <2>2 DEF TodoIsTheRest
<1>5. WriteIsCurrent /\ ReadIsCurrent /\ ResetIsAwaited
  BY <1>2 DEF WriteIsCurrent, ReadIsCurrent, RState, ResetIsAwaited
<1>6. CoreIsDisabled /\ VerifiedIsLoaded
  <2>1. working =>
          /\ ~ Left <= 5 /\ ~ Left \in 9 .. 2 * Size + 10
          /\ \A i \in 1 .. Size : ~ i + Left < Size + 11
    BY <1>3
  <2> QED
    BY <1>2, <2>1 DEF CoreIsDisabled, VerifiedIsLoaded
<1>7. CountIsKept
  <2>1. working => ~ Left <= 4 /\ ~ Left <= 3
    BY <1>3
  <2> QED
    BY <1>2, <2>1 DEF CountIsKept, NoResult
<1> QED
  BY <1>4, <1>5, <1>6, <1>7 DEF HostInv

LEMMA HostInvStep == HostInv /\ [BridgeNext]_bridgeVars => HostInv'
<1> SUFFICES ASSUME HostInv, [BridgeNext]_bridgeVars PROVE HostInv'
  OBVIOUS
<1>1. ASSUME UNCHANGED bridgeVars PROVE HostInv'
  BY <1>1 DEF HostInv, bridgeVars, hostVars, axiVars, controlVars, coreVars, memVars,
     resetVars, writeVars, readVars, pcVars, statusVars, loadVars,
     TodoIsTheRest, WriteIsCurrent, ReadIsCurrent, ResetIsAwaited, CoreIsDisabled,
     VerifiedIsLoaded, CountIsKept, working, current, Doing, Asking, Left, Size
<1>2. ASSUME AxiClock(AddressOffered, BeatOffered),
             Continues \/ (working /\ GoesOn) \/ (working /\ BeginsNext)
      PROVE  HostInv'
  <2>1. TodoIsTheRest'
    <3>1. ASSUME Continues PROVE TodoIsTheRest'
      BY <3>1 DEF Continues, HostInv, TodoIsTheRest, working, Left
    <3>2. ASSUME working, GoesOn PROVE TodoIsTheRest'
      BY <3>2, Following DEF GoesOn, HostInv
    <3>3. ASSUME working, BeginsNext PROVE TodoIsTheRest'
      BY <3>3, NextJob DEF BeginsNext, HostInv
    <3> QED
      BY <1>2, <3>1, <3>2, <3>3
  <2>2. WriteIsCurrent'
    BY <1>2, WriteIsCurrentStep DEF HostInv
  <2>3. ReadIsCurrent' /\ ResetIsAwaited' /\ CoreIsDisabled' /\ VerifiedIsLoaded' /\ CountIsKept'
    BY <1>2, ReadIsCurrentStep, ResetIsAwaitedStep, CoreIsDisabledStep, VerifiedIsLoadedStep,
       CountIsKeptStep
  <2> QED
    BY <2>1, <2>2, <2>3 DEF HostInv
<1> QED
  BY <1>1, <1>2, HostStep DEF HostInv

LEMMA HostInvariant == Spec => []HostInv
BY HostInvInit, HostInvStep, PTL DEF Spec

----------------------------------------------------------------------------
(* What the testbench looks at.                                            *)

\* The core that the testbench looks at is stopped, with nothing under way.
BoardIsStill == working /\ Left <= 5 => bubbleReg /\ ~ loadPendReg

\* The status that waitForHalt returned is still that of the core, and its
\* assertions are behind the host when it looks.
StatusIsKept ==
  working => /\ Left <= 6 => haltedReg /\ st = StatusWord
             /\ Left <= 5 /\ Jobs[job].check_halt => CleanHalt(st)

\* What the read channel carries of the status and of the board is still true.
LookIsCurrent ==
  working =>
    /\ rstateReg = "WAIT_MEM" /\ Left <= 5 /\ Selected(current.addr) = "dmem" =>
         ~ pendingImem /\ pendingDmem /\ hostDmemRdVec = dmem[DmemSlot(current.addr)]
    /\ rstateReg = "COMPLETED" =>
         /\ Left = 7 /\ ST_HALTED \subseteq rdataReg => haltedReg /\ rdataReg = StatusWord
         /\ Left = 3 => rdataReg = RegRead(Jobs[job].reg)
         /\ Left = 2 => rdataReg = pcExReg
         /\ Left <= 5 /\ Selected(current.addr) = "dmem" =>
              rdataReg = dmem[DmemSlot(current.addr)]

\* What the testbench has looked at is still true.
LookIsKept ==
  working => /\ Left <= 2 => result["reg"] = RegRead(Jobs[job].reg)
             /\ Left <= 1 => result["pc"] = pcExReg

LookInv == BoardIsStill /\ StatusIsKept /\ LookIsCurrent /\ LookIsKept

\* Where the host is behind the poll, and what it may not do there.
LEMMA BehindThePoll ==
  ASSUME TodoIsTheRest, working, Left <= 7
  PROVE  /\ Left \in 1 .. 7 /\ current.addr # 0
         /\ Left = 7 => current = waitForHalt
         /\ Left = 6 => current = lastAccess(Jobs[job].check_halt)
         /\ Left <= 5 => current.op = "read" /\ current.as # "st"
         /\ Left = 5 => current = readWord(96, "lo")
         /\ Left = 4 => current = readWord(112, "hi")
         /\ Left = 3 => current = readReg(Jobs[job].reg)
         /\ Left = 2 => current = readPC
         /\ Left = 1 => current = readData(Jobs[job].addr)
<1>1. Left \in 1 .. 7 /\ Size \in Nat
  BY CurrentShape
<1>2. current.addr # 0
  <2>1. current.addr = 0 => Left > 2 * Size + 11
    BY Place
  <2> QED
    BY <1>1, <2>1
<1>3. /\ Left = 7 => current = waitForHalt
      /\ Left = 6 => current = lastAccess(Jobs[job].check_halt)
      /\ Left = 5 => current = readWord(96, "lo")
      /\ Left = 4 => current = readWord(112, "hi")
      /\ Left = 3 => current = readReg(Jobs[job].reg)
      /\ Left = 2 => current = readPC
      /\ Left = 1 => current = readData(Jobs[job].addr)
  BY CurrentShape
<1>4. ASSUME Left <= 5 PROVE current.op = "read" /\ current.as # "st"
  <2>1. Left = 5 \/ Left = 4 \/ Left <= 3
    BY <1>1, <1>4
  <2>2. current.op = "read"
    BY <1>4, Place
  <2>3. Left <= 3 => current.as \in {"reg", "pc", "dmem"}
    BY Place
  <2>4. Left = 5 \/ Left = 4 => current.as # "st"
    BY <1>3 DEF readWord
  <2> QED
    BY <2>1, <2>2, <2>3, <2>4
<1> QED
  BY <1>1, <1>2, <1>3, <1>4

LEMMA StatusBits ==
  /\ 1 \in StatusWord <=> haltedReg
  /\ 2 \in StatusWord <=> illegalReg
  /\ 3 \in StatusWord <=> ecallReg
BY DEF StatusWord

\* A core that has halted keeps its status, enabled or not.
LEMMA StatusStands ==
  ASSUME Clock, haltedReg, ~ softReset
  PROVE  haltedReg' /\ StatusWord' = StatusWord
<1>1. HaltedCycle \/ IdleCycle
  BY DEF Clock, BubbleCycle, StallCycle, ExecuteCycle, RedirectCycle, HaltCycle,
         SoftResetCycle, Advance, active
<1>2. UNCHANGED statusVars
  BY <1>1 DEF HaltedCycle, IdleCycle
<1>3. /\ haltedReg' /\ (illegalReg' <=> illegalReg) /\ (ecallReg' <=> ecallReg)
      /\ ~ active /\ ~ active'
  BY <1>2 DEF statusVars, active
<1>4. \A i \in 0 .. 3 : i \in StatusWord' <=> i \in StatusWord
  <2>1. /\ 0 \in StatusWord <=> active
        /\ 1 \in StatusWord <=> haltedReg
        /\ 2 \in StatusWord <=> illegalReg
        /\ 3 \in StatusWord <=> ecallReg
    BY DEF StatusWord
  <2>2. /\ 0 \in StatusWord' <=> active'
        /\ 1 \in StatusWord' <=> haltedReg'
        /\ 2 \in StatusWord' <=> illegalReg'
        /\ 3 \in StatusWord' <=> ecallReg'
    BY DEF StatusWord
  <2> QED
    BY <1>3, <2>1, <2>2
<1>5. StatusWord \subseteq 0 .. 3 /\ StatusWord' \subseteq 0 .. 3
  BY DEF StatusWord
<1> QED
  BY <1>3, <1>4, <1>5

\* A disabled core without an instruction or a load changes nothing that can be read.
LEMMA BoardStands ==
  ASSUME Clock, SharedMemories, ~ enable, ~ softReset, ~ doWrite
  PROVE  /\ bubbleReg' /\ ~ loadPendReg' /\ pcExReg' = pcExReg
         /\ bubbleReg /\ ~ loadPendReg => regs' = regs /\ dmem' = dmem
<1>1. IdleCycle
  BY DEF Clock, BubbleCycle, StallCycle, ExecuteCycle, RedirectCycle, HaltCycle, HaltedCycle,
         SoftResetCycle, Advance, active
<1>2. bubbleReg' /\ ~ loadPendReg' /\ pcExReg' = pcExReg /\ RegFileClock
  BY <1>1 DEF IdleCycle
<1>3. ASSUME bubbleReg, ~ loadPendReg PROVE regs' = regs /\ dmem' = dmem
  <2>1. ~ wen /\ ~ wenLoad /\ ~ dmem_wen /\ ~ hostWritesDmem
    BY <1>3 DEF wen, wenLoad, dmem_wen, instrValid, hostWritesDmem, Writes
  <2>2. regs' = regs
    BY <1>2, <2>1 DEF RegFileClock, RegsAfterLoad
  <2>3. dmem' = dmem
    BY <2>1 DEF SharedMemories, HostStore, CoreStore
  <2> QED
    BY <2>2, <2>3
<1> QED
  BY <1>2, <1>3

\* What a clock behind the poll leaves alone.
LEMMA ClockBehindThePoll ==
  ASSUME HostInv, LookInv, AxiClock(AddressOffered, BeatOffered),
         Continues \/ (working /\ GoesOn) \/ (working /\ BeginsNext), working
  PROVE  /\ Left <= 7 /\ haltedReg => haltedReg' /\ StatusWord' = StatusWord
         /\ Left <= 5 \/ (Left = 6 /\ brespReg # None) =>
              bubbleReg' /\ ~ loadPendReg' /\ pcExReg' = pcExReg
         /\ Left <= 5 => regs' = regs /\ dmem' = dmem
<1>1. Clock /\ SharedMemories /\ TodoIsTheRest
  BY DEF AxiClock, HostInv
<1>2. Left <= 7 => ~ softReset
  BY <1>1, BehindThePoll DEF HostInv, ResetIsAwaited
<1>3. Left <= 7 /\ haltedReg => haltedReg' /\ StatusWord' = StatusWord
  BY <1>1, <1>2, StatusStands
<1>4. Left \in Nat
  BY <1>1, Place
<1>5. ASSUME Left <= 5 \/ (Left = 6 /\ brespReg # None) PROVE ~ enable /\ ~ doWrite /\ ~ softReset
  <2>1. ~ enable
    BY <1>5 DEF HostInv, CoreIsDisabled
  <2>2. Left <= 7
    BY <1>4, <1>5
  <2>3. ~ doWrite
    <3>1. Left <= 5 => current.op = "read"
      BY <1>1, Place
    <3> QED
      BY <1>5, <3>1, WriteEffects DEF HostInv, Doing
  <2> QED
    BY <1>2, <2>1, <2>2, <2>3
<1> QED
  BY <1>1, <1>3, <1>5, BoardStands DEF LookInv, BoardIsStill

\* How far from the end of its job each kind of clock leaves the host.
LEMMA PlaceAfter ==
  ASSUME HostInv, AxiClock(AddressOffered, BeatOffered)
  PROVE  /\ Continues => /\ working' <=> working
                         /\ Left' = Left /\ current' = current /\ job' = job
                         /\ st' = st /\ result' = result
         /\ working /\ GoesOn =>
              /\ working' /\ Left' = Left - 1 /\ job' = job /\ Left \in Nat
              /\ rstateReg' = "READY2READ" /\ Answered
              /\ Left = 6 => brespReg # None
         /\ working /\ BeginsNext =>
              /\ rstateReg' = "READY2READ"
              /\ working' => ~ Left' <= 7
<1>1. TodoIsTheRest
  BY DEF HostInv
<1>2. Continues => /\ working' <=> working
                   /\ Left' = Left /\ current' = current /\ job' = job
                   /\ st' = st /\ result' = result
  BY DEF Continues, working, Left, current
<1>3. ASSUME working, GoesOn
      PROVE  /\ working' /\ Left' = Left - 1 /\ job' = job /\ Left \in Nat
             /\ rstateReg' = "READY2READ" /\ Answered
             /\ Left = 6 => brespReg # None
  <2>1. working' /\ Left' = Left - 1 /\ job' = job /\ Left \in Nat /\ Answered
    BY <1>1, <1>3, Following, Place DEF GoesOn
  <2>2. rstateReg' = "READY2READ"
    BY <2>1 DEF Answered, ReadIdle, ReadTaken
  <2>3. ASSUME Left = 6 PROVE brespReg # None
    <3>1. current.op = "write"
      BY <1>1, <1>3, <2>3, Place
    <3> QED
      BY <2>1, <3>1 DEF Answered, Asking, Doing
  <2> QED
    BY <2>1, <2>2, <2>3
<1>4. ASSUME working, BeginsNext
      PROVE  rstateReg' = "READY2READ" /\ (working' => ~ Left' <= 7)
  <2>1. working' => Size' \in Nat /\ Left' \in Nat /\ Left' >= 2 * Size' + 11
    BY <1>1, <1>4, NextJob DEF BeginsNext
  <2>2. rstateReg' = "READY2READ"
    BY <1>4 DEF BeginsNext, Answered, ReadIdle, ReadTaken
  <2> QED
    BY <2>1, <2>2
<1> QED
  BY <1>2, <1>3, <1>4

LEMMA BoardIsStillStep ==
  ASSUME HostInv, LookInv, AxiClock(AddressOffered, BeatOffered),
         Continues \/ (working /\ GoesOn) \/ (working /\ BeginsNext)
  PROVE  BoardIsStill'
<1>1. ASSUME Continues PROVE BoardIsStill'
  BY <1>1, PlaceAfter, ClockBehindThePoll DEF BoardIsStill
<1>2. ASSUME working, GoesOn PROVE BoardIsStill'
  <2>1. Left' = Left - 1 /\ Left \in Nat /\ (Left = 6 => brespReg # None)
    BY <1>2, PlaceAfter
  <2>2. Left - 1 <= 5 => Left <= 5 \/ (Left = 6 /\ brespReg # None)
    BY <2>1
  <2> QED
    BY <1>2, <2>1, <2>2, ClockBehindThePoll DEF BoardIsStill
<1>3. ASSUME working, BeginsNext PROVE BoardIsStill'
  <2>1. working' => ~ Left' <= 7
    BY <1>3, PlaceAfter
  <2>2. working' => Left' \in Nat
    BY <1>3, NextJob DEF BeginsNext, HostInv
  <2> QED
    BY <2>1, <2>2 DEF BoardIsStill
<1> QED
  BY <1>1, <1>2, <1>3

LEMMA StatusIsKeptStep ==
  ASSUME HostInv, LookInv, AxiClock(AddressOffered, BeatOffered),
         Continues \/ (working /\ GoesOn) \/ (working /\ BeginsNext)
  PROVE  StatusIsKept'
<1>1. TodoIsTheRest /\ StatusIsKept /\ LookIsCurrent
  BY DEF HostInv, LookInv
<1>2. working => Left \in Nat
  BY <1>1, Place
<1>3. ASSUME Continues PROVE StatusIsKept'
  <2>1. ASSUME working, Left <= 6 PROVE haltedReg' /\ st' = StatusWord'
    <3>1. haltedReg /\ st = StatusWord /\ Left <= 7
      BY <1>1, <1>2, <2>1 DEF StatusIsKept
    <3> QED
      BY <1>3, <2>1, <3>1, PlaceAfter, ClockBehindThePoll
  <2>2. ASSUME working, Left <= 5, Jobs[job].check_halt PROVE CleanHalt(st')
    BY <1>1, <1>3, <2>2, PlaceAfter DEF StatusIsKept
  <2> QED
    BY <1>3, <2>1, <2>2, PlaceAfter DEF StatusIsKept, CleanHalt
<1>4. ASSUME working, GoesOn PROVE StatusIsKept'
  <2>1. Left' = Left - 1 /\ Left \in Nat /\ job' = job /\ Answered /\ TodoIsTheRest
    BY <1>1, <1>4, PlaceAfter
  <2>2. ASSUME Left <= 6 PROVE st' = st /\ haltedReg' /\ st' = StatusWord'
    <3>1. haltedReg /\ st = StatusWord /\ Left <= 7
      BY <1>1, <1>4, <2>1, <2>2 DEF StatusIsKept
    <3>2. Left <= 5 \/ Left = 6
      BY <2>1, <2>2
    <3>3. ~ (current.op = "await" /\ current.as = "st")
      BY <1>4, <2>1, <3>1, <3>2, BehindThePoll DEF lastAccess
    <3>4. st' = st
      BY <1>4, <3>3 DEF GoesOn
    <3> QED
      BY <1>4, <3>1, <3>4, ClockBehindThePoll
  <2>3. ASSUME Left = 7 PROVE haltedReg' /\ st' = StatusWord'
    <3>1. current = waitForHalt /\ Left <= 7
      BY <1>4, <2>1, <2>3, BehindThePoll
    <3>2. current.op = "await" /\ current.as = "st" /\ current.data = ST_HALTED
      BY <3>1 DEF waitForHalt, awaitBits
    <3>3. st' = rdataReg /\ ST_HALTED \subseteq rdataReg
      BY <1>4, <3>2 DEF GoesOn
    <3>4. rstateReg = "COMPLETED"
      BY <2>1, <3>2 DEF Answered, Doing, ReadTaken
    <3>5. haltedReg /\ rdataReg = StatusWord
      BY <1>1, <1>4, <2>3, <3>3, <3>4 DEF LookIsCurrent
    <3> QED
      BY <1>4, <3>1, <3>3, <3>5, ClockBehindThePoll
  <2>4. ASSUME Left - 1 <= 5, Jobs[job].check_halt PROVE CleanHalt(st')
    <3>1. CASE Left <= 5
      <4>1. Left <= 6
        BY <2>1, <3>1
      <4> QED
        BY <1>1, <1>4, <2>2, <2>4, <3>1, <4>1 DEF StatusIsKept
    <3>2. CASE Left = 6
      <4>1. Left <= 7 /\ Left <= 6
        BY <3>2
      <4>2. current.as = "check" /\ current.op = "write"
        BY <1>4, <2>1, <2>4, <3>2, <4>1, BehindThePoll DEF lastAccess
      <4> QED
        BY <1>4, <2>2, <4>1, <4>2 DEF GoesOn
    <3> QED
      BY <2>1, <2>4, <3>1, <3>2
  <2>5. Left - 1 <= 6 => Left <= 6 \/ Left = 7
    BY <2>1
  <2> QED
    BY <2>1, <2>2, <2>3, <2>4, <2>5 DEF StatusIsKept, CleanHalt
<1>5. ASSUME working, BeginsNext PROVE StatusIsKept'
  <2>1. working' => ~ Left' <= 7 /\ Left' \in Nat
    BY <1>5, PlaceAfter, NextJob DEF BeginsNext, HostInv
  <2>2. working' => ~ Left' <= 6 /\ ~ Left' <= 5
    BY <2>1
  <2> QED
    BY <2>2 DEF StatusIsKept
<1> QED
  BY <1>3, <1>4, <1>5

\* The registers that the testbench looks at, by address.
LEMMA LookSelections ==
  /\ Selected(64) = "status" /\ RegisterRead(64) = StatusWord
  /\ Selected(80) = "debug_pc" /\ RegisterRead(80) = pcExReg
  /\ \A i \in RegIdx : /\ Selected(debug_regs_base_r + i * 16) = "debug_regs"
                       /\ RegisterRead(debug_regs_base_r + i * 16) = RegRead(i)
<1>1. Selected(64) = "status" /\ RegisterRead(64) = StatusWord
  BY Selections DEF RegisterRead
<1>2. Selected(80) = "debug_pc"
  BY DEF Selected, InWindow, debug_regs_base_r, imem_base_rw, dmem_base_rw
<1>3. RegisterRead(80) = pcExReg
  BY <1>2 DEF RegisterRead
<1>4. ASSUME NEW i \in RegIdx
      PROVE  /\ Selected(debug_regs_base_r + i * 16) = "debug_regs"
             /\ RegisterRead(debug_regs_base_r + i * 16) = RegRead(i)
  <2> DEFINE a == debug_regs_base_r + i * 16
  <2>1. i \in Int /\ 0 <= i /\ i <= 31
    BY DEF RegIdx
  <2>2. a \in Int /\ a = 512 + i * 16 /\ 512 <= a /\ a < 512 + 32 * 16
    BY <2>1 DEF debug_regs_base_r
  <2> HIDE DEF a
  <2>3. /\ InWindow(a, debug_regs_base_r, 32)
        /\ ~ InWindow(a, imem_base_rw, imem_depth) /\ ~ InWindow(a, dmem_base_rw, dmem_depth)
    BY <2>2 DEF InWindow, debug_regs_base_r, imem_base_rw, dmem_base_rw
  <2>4. Selected(a) = "debug_regs"
    BY <2>2, <2>3 DEF Selected
  <2>5. RegSlot(a) = i
    BY <2>1, <2>2 DEF RegSlot, debug_regs_base_r
  <2>6. RegisterRead(a) = RegRead(i)
    BY <2>4, <2>5 DEF RegisterRead
  <2> QED
    BY <2>4, <2>6 DEF a
<1> QED
  BY <1>1, <1>2, <1>3, <1>4

\* What the read channel answers is what the board holds behind the clock.
LookAnswered ==
  /\ Left = 7 /\ ST_HALTED \subseteq rdataReg' => haltedReg /\ rdataReg' = StatusWord
  /\ Left = 3 => rdataReg' = RegRead(Jobs[job].reg)
  /\ Left = 2 => rdataReg' = pcExReg
  /\ Left <= 5 /\ Selected(current.addr) = "dmem" => rdataReg' = dmem[DmemSlot(current.addr)]

LEMMA LookIsCurrentStep ==
  ASSUME HostInv, LookInv, AxiClock(AddressOffered, BeatOffered),
         Continues \/ (working /\ GoesOn) \/ (working /\ BeginsNext)
  PROVE  LookIsCurrent'
<1>1. TodoIsTheRest /\ ReadIsCurrent /\ LookIsCurrent
  BY DEF HostInv, LookInv
<1>2. ASSUME rstateReg' = "READY2READ" PROVE LookIsCurrent'
  BY <1>2 DEF LookIsCurrent
<1>3. (working /\ GoesOn) \/ (working /\ BeginsNext) => rstateReg' = "READY2READ"
  BY PlaceAfter
<1>4. ASSUME Continues, rstateReg' # "READY2READ"
      PROVE  LookIsCurrent'
  <2>1. /\ working
        /\ \/ ReadRegister(current.addr) \/ ReadImem(current.addr)
           \/ ReadDmem(current.addr) \/ ReadCapture \/ ReadHeld
    BY <1>4 DEF Continues, ReadIdle, ReadTaken, Asking, Doing
  <2>2. working' /\ Left' = Left /\ current' = current /\ job' = job /\ Left \in Nat
    BY <1>1, <1>4, <2>1, PlaceAfter, Place
  <2>3. /\ Left = 7 => current.addr = 64
        /\ Left = 3 => current.addr = debug_regs_base_r + Jobs[job].reg * 16
        /\ Left = 2 => current.addr = 80
    <3>1. Left \in {7, 3, 2} => Left <= 7
      OBVIOUS
    <3>2. /\ Left = 7 => current = waitForHalt
          /\ Left = 3 => current = readReg(Jobs[job].reg)
          /\ Left = 2 => current = readPC
      BY <1>1, <2>1, <3>1, BehindThePoll
    <3> QED
      BY <3>2 DEF waitForHalt, awaitBits, readReg, readPC, readWord
  <2>4. Jobs[job].reg \in RegIdx
    BY <2>1, JobType DEF working
  <2>5. Left \in {7, 3, 2} => Selected(current.addr) \notin {"imem", "dmem"}
    BY <2>3, <2>4, LookSelections
  <2>6. /\ Left = 7 /\ haltedReg => haltedReg' /\ StatusWord' = StatusWord
        /\ Left <= 5 => pcExReg' = pcExReg /\ regs' = regs /\ dmem' = dmem
    BY <2>1, <2>2, ClockBehindThePoll
  <2>7. ASSUME rstateReg' = "COMPLETED", LookAnswered
        PROVE  LookIsCurrent'
    <3>1. Left = 7 /\ ST_HALTED \subseteq rdataReg' => haltedReg' /\ rdataReg' = StatusWord'
      BY <2>6, <2>7 DEF LookAnswered
    <3>2. Left = 3 => rdataReg' = RegRead(Jobs[job].reg)'
      BY <2>2, <2>6, <2>7 DEF LookAnswered, RegRead
    <3>3. Left = 2 => rdataReg' = pcExReg'
      BY <2>6, <2>7 DEF LookAnswered
    <3>4. Left <= 5 /\ Selected(current.addr) = "dmem" =>
            rdataReg' = dmem'[DmemSlot(current.addr)]
      BY <2>6, <2>7 DEF LookAnswered
    <3> QED
      BY <2>2, <2>7, <3>1, <3>2, <3>3, <3>4 DEF LookIsCurrent, ST_HALTED
  <2>8. CASE ReadRegister(current.addr)
    <3>1. rstateReg' = "COMPLETED" /\ rdataReg' = RegisterRead(current.addr)
          /\ Selected(current.addr) # "dmem"
      BY <2>8 DEF ReadRegister
    <3>2. ST_HALTED \subseteq StatusWord => haltedReg
      BY StatusBits DEF ST_HALTED
    <3>3. LookAnswered
      BY <2>3, <2>4, <3>1, <3>2, LookSelections DEF LookAnswered
    <3> QED
      BY <2>7, <3>1, <3>3
  <2>9. CASE ReadImem(current.addr)
    <3>1. rstateReg' = "WAIT_MEM" /\ Selected(current.addr) = "imem"
      BY <2>9 DEF ReadImem
    <3> QED
      BY <2>2, <3>1 DEF LookIsCurrent
  <2>10. CASE ReadDmem(current.addr)
    <3>1. /\ rstateReg' = "WAIT_MEM" /\ ~ pendingImem' /\ pendingDmem'
          /\ hostDmemRdVec' \in {dmem[DmemSlot(current.addr)], dmem'[DmemSlot(current.addr)]}
      BY <2>10 DEF ReadDmem
    <3>2. Left <= 5 => hostDmemRdVec' = dmem'[DmemSlot(current.addr)]
      BY <2>6, <3>1
    <3> QED
      BY <2>2, <3>1, <3>2 DEF LookIsCurrent
  <2>11. CASE ReadCapture
    <3>1. /\ rstateReg' = "COMPLETED" /\ rstateReg = "WAIT_MEM"
          /\ ~ pendingImem /\ pendingDmem => rdataReg' = hostDmemRdVec
      BY <2>11 DEF ReadCapture
    <3>2. Left \notin {7, 3, 2}
      BY <1>1, <2>5, <3>1 DEF ReadIsCurrent
    <3>3. LookAnswered
      BY <1>1, <2>1, <3>1, <3>2 DEF LookAnswered, LookIsCurrent
    <3> QED
      BY <2>7, <3>1, <3>3
  <2>12. CASE ReadHeld
    <3>1. rstateReg' = "COMPLETED" /\ rstateReg = "COMPLETED" /\ rdataReg' = rdataReg
      BY <2>12 DEF ReadHeld
    <3>2. LookAnswered
      BY <1>1, <2>1, <3>1 DEF LookAnswered, LookIsCurrent
    <3> QED
      BY <2>7, <3>1, <3>2
  <2> QED
    BY <2>1, <2>8, <2>9, <2>10, <2>11, <2>12
<1> QED
  BY <1>2, <1>3, <1>4

LEMMA LookIsKeptStep ==
  ASSUME HostInv, LookInv, AxiClock(AddressOffered, BeatOffered),
         Continues \/ (working /\ GoesOn) \/ (working /\ BeginsNext)
  PROVE  LookIsKept'
<1>1. TodoIsTheRest /\ LookIsCurrent /\ LookIsKept /\ CountIsKept
  BY DEF HostInv, LookInv
<1>2. working => Left \in Nat
  BY <1>1, Place
<1>3. ASSUME working, Left <= 5
      PROVE  pcExReg' = pcExReg /\ (job' = job => RegRead(Jobs[job].reg)' = RegRead(Jobs[job].reg))
  BY <1>3, ClockBehindThePoll DEF RegRead
<1>4. ASSUME Continues PROVE LookIsKept'
  <2>1. /\ working' <=> working
        /\ Left' = Left /\ job' = job /\ result' = result
    BY <1>4, PlaceAfter
  <2>2. working /\ Left <= 2 => Left <= 5
    BY <1>2
  <2>3. working /\ Left <= 1 => Left <= 5
    BY <1>2
  <2> QED
    BY <1>1, <1>3, <2>1, <2>2, <2>3 DEF LookIsKept
<1>5. ASSUME working, GoesOn PROVE LookIsKept'
  <2>1. Left' = Left - 1 /\ Left \in Nat /\ job' = job /\ Answered
    BY <1>5, PlaceAfter
  <2>2. ASSUME Left <= 3
        PROVE  /\ rstateReg = "COMPLETED" /\ Left <= 5
               /\ result' = [result EXCEPT ![current.as] = rdataReg]
               /\ result = [n \in {"lo", "hi", "reg", "pc", "dmem"} |-> result[n]]
    <3>1. current.op = "read" /\ Left <= 5
      BY <1>1, <1>5, <2>1, <2>2, Place
    <3> QED
      BY <1>1, <1>5, <2>1, <3>1 DEF GoesOn, Answered, Doing, ReadTaken, CountIsKept
  <2>3. ASSUME Left = 3 PROVE result'["reg"] = RegRead(Jobs[job].reg)
    <3>1. current.as = "reg"
      BY <1>1, <1>5, <2>3, BehindThePoll DEF readReg, readWord
    <3>2. rdataReg = RegRead(Jobs[job].reg)
      BY <1>1, <1>5, <2>2, <2>3 DEF LookIsCurrent
    <3> QED
      BY <2>2, <2>3, <3>1, <3>2
  <2>4. ASSUME Left = 2
        PROVE  result'["reg"] = RegRead(Jobs[job].reg) /\ result'["pc"] = pcExReg
    <3>1. current.as = "pc"
      BY <1>1, <1>5, <2>4, BehindThePoll DEF readPC, readWord
    <3>2. rdataReg = pcExReg /\ result["reg"] = RegRead(Jobs[job].reg)
      BY <1>1, <1>5, <2>2, <2>4 DEF LookIsCurrent, LookIsKept
    <3> QED
      BY <2>2, <2>4, <3>1, <3>2
  <2>5. Left > 1
    BY <1>5 DEF GoesOn
  <2>6. /\ Left - 1 <= 2 => Left = 3 \/ Left = 2
        /\ Left - 1 <= 1 => Left = 2
        /\ Left = 3 \/ Left = 2 => Left <= 5
    BY <2>1, <2>5
  <2> QED
    BY <1>3, <1>5, <2>1, <2>3, <2>4, <2>6 DEF LookIsKept
<1>6. ASSUME working, BeginsNext PROVE LookIsKept'
  <2>1. working' => ~ Left' <= 7 /\ Left' \in Nat
    BY <1>6, PlaceAfter, NextJob DEF BeginsNext, HostInv
  <2>2. working' => ~ Left' <= 2 /\ ~ Left' <= 1
    BY <2>1
  <2> QED
    BY <2>2 DEF LookIsKept
<1> QED
  BY <1>4, <1>5, <1>6

LEMMA LookInvInit == BridgeInit => LookInv
<1> SUFFICES ASSUME BridgeInit PROVE LookInv
  OBVIOUS
<1>1. Jobs \in Seq(Job) /\ rstateReg = "READY2READ" /\ job = 1 /\ todo = Access(1)
  BY BridgeAssumption DEF BridgeInit, AxiInit
<1>2. working => Left \in Nat /\ ~ Left <= 7
  <2> SUFFICES ASSUME working PROVE Left \in Nat /\ ~ Left <= 7
    OBVIOUS
  <2> DEFINE n == Len(Jobs[1].prog)
  <2>1. 1 \in DOMAIN Jobs /\ Left = Len(Access(1))
    BY <1>1 DEF working, Left
  <2>2. n \in Nat /\ IsSequence(Access(1), Len(Access(1))) /\ Len(Access(1)) >= 2 * n + 11
    BY <2>1, AccessShape
  <2> QED
    BY <2>1, <2>2 DEF IsSequence
<1>3. working => ~ Left <= 6 /\ ~ Left <= 5 /\ ~ Left <= 2 /\ ~ Left <= 1
  BY <1>2
<1> QED
  BY <1>1, <1>3 DEF LookInv, BoardIsStill, StatusIsKept, LookIsCurrent, LookIsKept

LEMMA LookInvStep == HostInv /\ LookInv /\ [BridgeNext]_bridgeVars => LookInv'
<1> SUFFICES ASSUME HostInv, LookInv, [BridgeNext]_bridgeVars PROVE LookInv'
  OBVIOUS
<1>1. ASSUME UNCHANGED bridgeVars PROVE LookInv'
  <2>1. /\ UNCHANGED <<job, todo, st, result, bubbleReg, loadPendReg, haltedReg, pcExReg, dmem>>
        /\ UNCHANGED <<rstateReg, rdataReg, pendingImem, pendingDmem, hostDmemRdVec>>
        /\ UNCHANGED <<regs, enable, illegalReg, ecallReg>>
    BY <1>1 DEF bridgeVars, hostVars, axiVars, controlVars, coreVars, memVars,
       readVars, pcVars, statusVars, loadVars
  <2>2. StatusWord' = StatusWord
    BY <2>1 DEF StatusWord, active
  <2>3. Left' = Left /\ (working' <=> working) /\ current' = current
    BY <2>1 DEF Left, working, current
  <2>4. BoardIsStill' /\ StatusIsKept'
    BY <2>1, <2>2, <2>3 DEF LookInv, BoardIsStill, StatusIsKept, CleanHalt
  <2>5. LookIsCurrent' /\ LookIsKept'
    BY <2>1, <2>2, <2>3 DEF LookInv, LookIsCurrent, LookIsKept, RegRead
  <2> QED
    BY <2>4, <2>5 DEF LookInv
<1>2. ASSUME AxiClock(AddressOffered, BeatOffered),
             Continues \/ (working /\ GoesOn) \/ (working /\ BeginsNext)
      PROVE  LookInv'
  BY <1>2, BoardIsStillStep, StatusIsKeptStep, LookIsCurrentStep, LookIsKeptStep DEF LookInv
<1> QED
  BY <1>1, <1>2, HostStep DEF HostInv

LEMMA LookInvariant == Spec => []LookInv
BY HostInvariant, LookInvInit, LookInvStep, PTL DEF Spec

----------------------------------------------------------------------------
(* The core under the host: the types of what it holds, the entry address  *)
(* it is started at, and the pipeline while a run is under way.            *)

BoardTypeOK == PartsTypeOK /\ entryAddr \in Data

BoardInv == BoardTypeOK /\ HaltReport /\ NothingPending

\* The entry address has been written, and then taken by the core still disabled.
EntryIsLatched ==
  working =>
    /\ Left \in {8, 9} \/ (Left = 10 /\ brespReg # None) => entryAddr = Jobs[job].entry
    /\ Left = 9 /\ brespReg # None => entryAddr_we \/ pcFetchReg = Jobs[job].entry

\* A core about to be enabled is empty and fetches from the entry address.
StartIsReady ==
  working /\ Left = 8 /\ ~ enable => bubbleReg /\ pcFetchReg = Jobs[job].entry

\* From the enabling of the core to its disabling the pipeline is what the steps of the
\* sequential machine need, but for the clock in which it is emptied.
RunIsInStep ==
  working /\ Left \in {6, 7, 8} /\ IsPrepared(imem) =>
    /\ LabelTracksInst /\ InStep /\ Stopped
    /\ EmptyWhileIdle \/ (Left = 6 /\ brespReg # None)

RunInv == BoardInv /\ EntryIsLatched /\ StartIsReady /\ RunIsInStep

\* Where the host is while it starts the core and waits for it.
LEMMA RunPlace ==
  ASSUME TodoIsTheRest, working, Left \in 6 .. 10
  PROVE  /\ Left = 6 => current.op = "write" /\ current.addr = 16 /\ current.data = {}
         /\ Left = 7 => current.op = "await" /\ current.addr = 64
         /\ Left = 8 => current.op = "write" /\ current.addr = 16 /\ current.data = One
         /\ Left = 9 => current.op = "write" /\ current.addr = 48 /\ current.data = One
         /\ Left = 10 => /\ current.op = "write" /\ current.addr = 32
                         /\ current.data = Jobs[job].entry
         /\ Selected(current.addr) \notin {"imem", "dmem"}
<1>1. /\ Left = 6 => current = lastAccess(Jobs[job].check_halt)
      /\ Left = 7 => current = waitForHalt
      /\ Left = 8 => current = setEnable(TRUE)
      /\ Left = 9 => current = writeWord(48, One)
      /\ Left = 10 => current = writeWord(32, Jobs[job].entry)
  BY CurrentShape
<1>2. /\ Left = 6 => current.op = "write" /\ current.addr = 16 /\ current.data = {}
      /\ Left = 7 => current.op = "await" /\ current.addr = 64
  BY <1>1 DEF lastAccess, waitForHalt, awaitBits
<1>3. /\ Left = 8 => current.op = "write" /\ current.addr = 16 /\ current.data = One
      /\ Left = 9 => current.op = "write" /\ current.addr = 48 /\ current.data = One
      /\ Left = 10 => /\ current.op = "write" /\ current.addr = 32
                      /\ current.data = Jobs[job].entry
  BY <1>1 DEF setEnable, writeWord, Flag, One
<1>4. current.addr \in {16, 32, 48, 64}
  BY <1>2, <1>3
<1> QED
  BY <1>2, <1>3, <1>4, Selections

\* A reset is over long before.
LEMMA NoReset ==
  ASSUME HostInv, working, Left <= 2 * Size + 11
  PROVE  ~ softReset
<1>1. current.addr = 0 => Left > 2 * Size + 11
  BY Place DEF HostInv
<1>2. Left \in Nat /\ Size \in Nat
  BY Place DEF HostInv
<1> QED
  BY <1>1, <1>2 DEF HostInv, ResetIsAwaited

\* What the host writes is a word: to imem one of its program, elsewhere bits.
LEMMA WrittenWord ==
  ASSUME TodoIsTheRest, working, current.op = "write"
  PROVE  /\ current.data \in SUBSET Nat
         /\ Selected(current.addr) = "imem" => current.data \in InstWord
<1>1. Size \in Nat /\ Left \in Nat \ {0} /\ job \in DOMAIN Jobs
  BY CurrentShape DEF working
<1>2. Data \subseteq SUBSET Nat
  BY DEF Data, Word, Bits
<1>3. CASE Left <= 5
  BY <1>3, Place
<1>4. CASE Left \in 6 .. 10
  <2>1. Jobs[job].entry \in SUBSET Nat
    BY <1>1, <1>2, JobType
  <2> QED
    BY <1>1, <1>4, <2>1, RunPlace DEF One
<1>5. CASE Left \in 11 .. Size + 10
  <2>1. PICK i \in 1 .. Size : Left = Size + 11 - i
    <3>1. Size + 11 - Left \in 1 .. Size /\ Left = Size + 11 - (Size + 11 - Left)
      BY <1>1, <1>5
    <3> QED
      BY <3>1
  <2> QED
    BY <2>1, Place DEF verifyInst, expectWord
<1>6. CASE Left \in Size + 11 .. 2 * Size + 10
  <2>1. PICK i \in 1 .. Size : Left = 2 * Size + 11 - i
    <3>1. /\ 2 * Size + 11 - Left \in 1 .. Size
          /\ Left = 2 * Size + 11 - (2 * Size + 11 - Left)
      BY <1>1, <1>6
    <3> QED
      BY <3>1
  <2>2. current.data = Jobs[job].prog[i]
    BY <2>1, CurrentShape DEF writeInst, writeWord
  <2>3. i \in DOMAIN Jobs[job].prog
    BY <1>1, JobType, SequenceLen DEF Size
  <2> QED
    BY <1>1, <2>2, <2>3, JobType, WordsAreNat
<1>7. CASE Left = 2 * Size + 11
  BY <1>7, Place, Selections
<1>8. CASE Left > 2 * Size + 11
  <2>1. StoresWord(current) \/ current = writeWord(0, One)
    BY <1>8, CurrentShape DEF awaitBits
  <2>2. CASE StoresWord(current)
    <3>1. current.addr \in Nat /\ current.addr >= dmem_base_rw /\ current.data \in Data
      BY <2>2 DEF StoresWord
    <3>2. ~ InWindow(current.addr, imem_base_rw, imem_depth)
      <4>1. imem_depth \in Int
        BY MemoryAssumption DEF imem_depth
      <4> QED
        BY <3>1, <4>1, BridgeAssumption DEF InWindow, imem_base_rw, dmem_base_rw
    <3>3. Selected(current.addr) # "imem"
      BY <3>2 DEF Selected
    <3> QED
      BY <1>2, <3>1, <3>3
  <2>3. CASE current = writeWord(0, One)
    BY <2>3, Selections DEF writeWord, One
  <2> QED
    BY <2>1, <2>2, <2>3
<1> QED
  BY <1>1, <1>3, <1>4, <1>5, <1>6, <1>7, <1>8

\* The words that the host and the core write keep the memories in their types.
LEMMA BoardTypeStep ==
  ASSUME HostInv, BoardTypeOK, AxiClock(AddressOffered, BeatOffered)
  PROVE  BoardTypeOK'
<1>1. /\ Clock /\ ControlRegisters /\ SharedMemories /\ PartsTypeOK
      /\ TodoIsTheRest /\ WriteIsCurrent
  BY DEF AxiClock, HostInv, BoardTypeOK
<1>2. ASSUME NEW r, Writes(r)
      PROVE  /\ Truncate(wHoldReg.data, XLEN) \in Data
             /\ r = "imem" => wHoldReg.data \in InstWord
  <2>1. /\ Doing({"write"}) /\ Selected(current.addr) = r
        /\ wHoldReg.data = current.data
    BY <1>1, <1>2, WriteEffects
  <2>2. wHoldReg.data \in SUBSET Nat /\ (r = "imem" => wHoldReg.data \in InstWord)
    BY <1>1, <2>1, WrittenWord DEF Doing
  <2> QED
    BY <2>2, TruncateType
<1>3. \A a : ImemSlot(a) \in ImemIndex /\ DmemSlot(a) \in DmemIndex
  BY DEF ImemSlot, DmemSlot, ImemIndex, DmemIndex, FromInt, Word
<1>4. ImemWordAddr(imem_addr) \in ImemIndex /\ DmemWordAddr(dmem_addr) \in DmemIndex
  BY <1>1, AddressType, IndexType DEF imem_addr, PartsTypeOK, CoreTypeOK
<1>5. imem' \in [ImemIndex -> InstWord]
  BY <1>1, <1>2, <1>3 DEF SharedMemories, hostWritesImem, PartsTypeOK, MemoryTypeOK
<1>6. dmem' \in [DmemIndex -> Data]
  <2>1. \A m \in [DmemIndex -> Data] : CoreStore(m) \in [DmemIndex -> Data]
    BY <1>1, StoredType DEF CoreStore
  <2>2. \A m \in [DmemIndex -> Data] : HostStore(m) \in [DmemIndex -> Data]
    BY <1>2, <1>3 DEF HostStore, hostWritesDmem
  <2> QED
    BY <1>1, <2>1, <2>2 DEF SharedMemories, PartsTypeOK, MemoryTypeOK
<1>7. inst' \in InstWord
  BY <1>1, <1>4, <1>5 DEF SharedMemories, PartsTypeOK, MemoryTypeOK
<1>8. rdata' \in Data
  BY <1>1, <1>4, <1>6, MemoryAssumption DEF SharedMemories, PartsTypeOK, MemoryTypeOK
<1>9. entryAddr' \in Data
  BY <1>1, <1>2 DEF ControlRegisters, BoardTypeOK
<1>10. CoreTypeOK'
  BY <1>1, ClockType DEF BoardTypeOK
<1> QED
  BY <1>5, <1>6, <1>7, <1>8, <1>9, <1>10 DEF BoardTypeOK, PartsTypeOK, MemoryTypeOK

\* Without a write of the host to them the memories are the core's own.
LEMMA QuietMemory ==
  ASSUME WriteIsCurrent, SharedMemories,
         ~ doWrite \/ Selected(current.addr) \notin {"imem", "dmem"}
  PROVE  MemoryClock
<1>1. ~ hostWritesImem /\ ~ hostWritesDmem
  BY WriteEffects DEF hostWritesImem, hostWritesDmem
<1>2. imem' = imem /\ dmem' = DmemAfterCore
  BY <1>1 DEF SharedMemories, HostStore, CoreStore, DmemAfterCore
<1>3. FetchPort
  BY <1>2 DEF SharedMemories, FetchPort
<1>4. LoadPort
  BY <1>2 DEF SharedMemories, LoadPort, DmemAfterCore
<1> QED
  BY <1>2, <1>3, <1>4 DEF MemoryClock

\* A disabled core is emptied, and takes an entry address.
LEMMA DisabledClock ==
  ASSUME Clock, ~ enable, ~ softReset
  PROVE  /\ bubbleReg' /\ ~ loadPendReg'
         /\ pcFetchReg' = IF entryAddr_we THEN entryAddr ELSE pcFetchReg
         /\ UNCHANGED <<pcExReg, haltedReg>> /\ RegFileClock
<1>1. IdleCycle
  BY DEF Clock, BubbleCycle, StallCycle, ExecuteCycle, RedirectCycle, HaltCycle, HaltedCycle,
         SoftResetCycle, Advance, active
<1> QED
  BY <1>1 DEF IdleCycle, statusVars

\* What a clock does between the writing of the entry address and the end of run().
LEMMA ClockOfRun ==
  ASSUME HostInv, AxiClock(AddressOffered, BeatOffered), working, Left \in 6 .. 10
  PROVE  /\ Clock /\ MemoryClock /\ ~ softReset
         /\ Left \in {9, 10} => ~ enable
         /\ Left = 6 /\ brespReg # None => ~ enable /\ ~ doWrite
         /\ ~ doWrite => UNCHANGED <<enable, entryAddr>> /\ (brespReg' # None => brespReg # None)
         /\ doWrite => /\ Left # 7 /\ brespReg' # None
                       /\ Left = 6 => ~ enable' /\ entryAddr' = entryAddr
                       /\ Left = 8 => enable' /\ entryAddr' = entryAddr
                       /\ Left = 9 => /\ entryAddr' = entryAddr /\ entryAddr_we'
                                      /\ enable' = enable
                       /\ Left = 10 => entryAddr' = Jobs[job].entry /\ enable' = enable
<1>1. /\ Clock /\ ControlRegisters /\ SharedMemories
      /\ WritePath(AddressOffered, BeatOffered)
      /\ TodoIsTheRest /\ WriteIsCurrent /\ CoreIsDisabled
  BY DEF AxiClock, HostInv
<1>2. MemoryClock
  BY <1>1, QuietMemory, RunPlace
<1>3. Size \in Nat /\ job \in DOMAIN Jobs
  BY <1>1, CurrentShape DEF working
<1>4. ~ softReset
  BY <1>3, NoReset
<1>5. Left \in {9, 10} => ~ enable
  <2>1. Left \in {9, 10} => Left <= 5 \/ Left \in 9 .. 2 * Size + 10 \/ Left \in {9, 10}
    OBVIOUS
  <2>2. Left = 9 => ~ enable
    BY <1>1, <1>3 DEF CoreIsDisabled
  <2>3. Left = 10 => ~ enable
    BY <1>1, <1>3 DEF CoreIsDisabled
  <2> QED
    BY <2>2, <2>3
<1>6. Left = 6 /\ brespReg # None => ~ enable /\ ~ doWrite
  BY <1>1 DEF CoreIsDisabled, doWrite
<1>7. ~ doWrite => UNCHANGED <<enable, entryAddr>> /\ (brespReg' # None => brespReg # None)
  BY <1>1 DEF ControlRegisters, Writes, WritePath
<1>8. doWrite => brespReg' # None /\ current.op = "write" /\ wHoldReg.data = current.data
  BY <1>1, AnswerIsGiven, WriteEffects DEF WritePath, Doing
<1>9. Truncate(Jobs[job].entry, XLEN) = Jobs[job].entry
  <2>1. Jobs[job].entry \in Data
    BY <1>3, JobType
  <2>2. \A i \in Jobs[job].entry : i < XLEN
    BY <2>1, Widths, DataIsSubset
  <2> QED
    BY <2>2 DEF Truncate
<1>10. ASSUME doWrite, NEW r, r = Selected(current.addr)
       PROVE  /\ r = "enable" => (enable' <=> 0 \in current.data)
              /\ r # "enable" => enable' = enable
              /\ r = "entry_addr" => entryAddr' = Truncate(current.data, XLEN)
              /\ r # "entry_addr" => entryAddr' = entryAddr
              /\ r = "entry_addr_we" => (entryAddr_we' <=> 0 \in current.data)
  <2>1. \A q : Writes(q) <=> q = r
    BY <1>1, <1>10, WriteEffects
  <2> QED
    BY <1>1, <1>8, <1>10, <2>1 DEF ControlRegisters
<1>11. ASSUME doWrite
       PROVE  /\ Left # 7
              /\ Left = 6 => ~ enable' /\ entryAddr' = entryAddr
              /\ Left = 8 => enable' /\ entryAddr' = entryAddr
              /\ Left = 9 => entryAddr' = entryAddr /\ entryAddr_we' /\ enable' = enable
              /\ Left = 10 => entryAddr' = Jobs[job].entry /\ enable' = enable
  <2>1. Left # 7
    BY <1>1, <1>8, <1>11, RunPlace
  <2>2. CASE Left = 6
    <3>1. current.data = {} /\ Selected(current.addr) = "enable"
      BY <1>1, <2>2, RunPlace, Selections
    <3> QED
      BY <1>10, <1>11, <2>2, <3>1
  <2>3. CASE Left = 8
    <3>1. 0 \in current.data /\ Selected(current.addr) = "enable"
      BY <1>1, <2>3, RunPlace, Selections DEF One
    <3> QED
      BY <1>10, <1>11, <2>3, <3>1
  <2>4. CASE Left = 9
    <3>1. 0 \in current.data /\ Selected(current.addr) = "entry_addr_we"
      BY <1>1, <2>4, RunPlace, Selections DEF One
    <3> QED
      BY <1>10, <1>11, <2>4, <3>1
  <2>5. CASE Left = 10
    <3>1. current.data = Jobs[job].entry /\ Selected(current.addr) = "entry_addr"
      BY <1>1, <2>5, RunPlace, Selections
    <3> QED
      BY <1>9, <1>10, <1>11, <2>5, <3>1
  <2> QED
    BY <2>1, <2>2, <2>3, <2>4, <2>5
<1> QED
  BY <1>1, <1>2, <1>4, <1>5, <1>6, <1>7, <1>8, <1>11

\* Where the host is in its run before a clock that leaves it there.
LEMMA RunBefore ==
  ASSUME HostInv, AxiClock(AddressOffered, BeatOffered),
         Continues \/ (working /\ GoesOn) \/ (working /\ BeginsNext),
         working', Left' \in 6 .. 10
  PROVE  /\ working /\ job' = job /\ Left \in Nat
         /\ \/ Left' = Left
            \/ Left' = Left - 1 /\ ~ doWrite /\ brespReg' = None
               /\ (Left \in {6, 8, 9, 10} => brespReg # None)
<1>1. TodoIsTheRest /\ WriteIsCurrent
  BY DEF HostInv
<1>2. CASE Continues
  BY <1>1, <1>2, PlaceAfter, Place
<1>3. CASE working /\ GoesOn
  <2>1. Left' = Left - 1 /\ job' = job /\ Left \in Nat /\ Answered
    BY <1>3, PlaceAfter
  <2>2. ~ doWrite /\ brespReg' = None
    BY <1>1, <2>1, <1>3, WriteIsCurrentStep
  <2>3. ASSUME Left \in {6, 8, 9, 10} PROVE brespReg # None
    <3>1. Left \in 6 .. 10
      BY <2>3
    <3>2. current.op = "write"
      BY <1>1, <1>3, <2>3, <3>1, RunPlace
    <3> QED
      BY <2>1, <3>2 DEF Answered, Asking, Doing
  <2> QED
    BY <1>3, <2>1, <2>2, <2>3
<1>4. CASE working /\ BeginsNext
  <2>1. Size' \in Nat /\ Left' \in Nat /\ Left' >= 2 * Size' + 11
    BY <1>1, <1>4, NextJob DEF BeginsNext
  <2>2. \A n, l \in Nat : l >= 2 * n + 11 => l \notin 6 .. 10
    OBVIOUS
  <2> QED
    BY <2>1, <2>2
<1> QED
  BY <1>2, <1>3, <1>4

LEMMA EntryIsLatchedStep ==
  ASSUME HostInv, RunInv, AxiClock(AddressOffered, BeatOffered),
         Continues \/ (working /\ GoesOn) \/ (working /\ BeginsNext)
  PROVE  EntryIsLatched'
<1>1. ASSUME working', Left' \in {8, 9} \/ (Left' = 10 /\ brespReg' # None)
      PROVE  entryAddr' = Jobs[job'].entry
  <2>1. Left' \in 6 .. 10
    BY <1>1
  <2>2. /\ working /\ job' = job /\ Left \in Nat
        /\ \/ Left' = Left
           \/ Left' = Left - 1 /\ ~ doWrite /\ brespReg' = None
              /\ (Left \in {6, 8, 9, 10} => brespReg # None)
    BY <1>1, <2>1, RunBefore
  <2>3. Left \in 6 .. 10
    BY <1>1, <2>2
  <2>4. CASE doWrite
    BY <1>1, <2>2, <2>3, <2>4, ClockOfRun DEF RunInv, EntryIsLatched
  <2>5. CASE ~ doWrite
    <3>1. entryAddr' = entryAddr /\ (brespReg' # None => brespReg # None)
      BY <2>2, <2>3, <2>5, ClockOfRun
    <3>2. Left \in {8, 9} \/ (Left = 10 /\ brespReg # None)
      BY <1>1, <2>2, <3>1
    <3> QED
      BY <2>2, <3>1, <3>2 DEF RunInv, EntryIsLatched
  <2> QED
    BY <2>4, <2>5
<1>2. ASSUME working', Left' = 9, brespReg' # None
      PROVE  entryAddr_we' \/ pcFetchReg' = Jobs[job'].entry
  <2>1. working /\ job' = job /\ Left = 9
    BY <1>2, RunBefore
  <2>2. CASE doWrite
    BY <2>1, <2>2, ClockOfRun
  <2>3. CASE ~ doWrite
    <3>1. brespReg # None /\ ~ enable /\ ~ softReset /\ Clock
      BY <1>2, <2>1, <2>3, ClockOfRun
    <3>2. /\ entryAddr = Jobs[job].entry
          /\ entryAddr_we \/ pcFetchReg = Jobs[job].entry
      BY <2>1, <3>1 DEF RunInv, EntryIsLatched
    <3> QED
      BY <2>1, <3>1, <3>2, DisabledClock
  <2> QED
    BY <2>2, <2>3
<1> QED
  BY <1>1, <1>2 DEF EntryIsLatched

LEMMA StartIsReadyStep ==
  ASSUME HostInv, RunInv, AxiClock(AddressOffered, BeatOffered),
         Continues \/ (working /\ GoesOn) \/ (working /\ BeginsNext)
  PROVE  StartIsReady'
<1> SUFFICES ASSUME working', Left' = 8, ~ enable'
             PROVE  bubbleReg' /\ pcFetchReg' = Jobs[job'].entry
  BY DEF StartIsReady
<1>1. /\ working /\ job' = job
      /\ Left = 8 \/ (Left = 9 /\ brespReg # None /\ ~ doWrite)
  BY RunBefore
<1>2. ~ enable /\ ~ softReset /\ Clock
  BY <1>1, ClockOfRun
<1>3. /\ entryAddr = Jobs[job].entry
      /\ entryAddr_we \/ pcFetchReg = Jobs[job].entry
  BY <1>1, <1>2 DEF RunInv, EntryIsLatched, StartIsReady
<1> QED
  BY <1>1, <1>2, <1>3, DisabledClock

\* The pipeline of a prepared program is what the core's own invariant says.
LEMMA PipeOfRun ==
  ASSUME RunInv, working, Left \in {6, 7, 8}, IsPrepared(imem), EmptyWhileIdle
  PROVE  PipeInv
BY DEF RunInv, BoardInv, BoardTypeOK, RunIsInStep, PipeInv, CoreInv

LEMMA RunIsInStepStep ==
  ASSUME HostInv, RunInv, AxiClock(AddressOffered, BeatOffered),
         Continues \/ (working /\ GoesOn) \/ (working /\ BeginsNext)
  PROVE  RunIsInStep'
<1> SUFFICES ASSUME working', Left' \in {6, 7, 8}, IsPrepared(imem)'
             PROVE  /\ LabelTracksInst' /\ InStep' /\ Stopped'
                    /\ EmptyWhileIdle' \/ (Left' = 6 /\ brespReg' # None)
  BY DEF RunIsInStep
<1>1. Left' \in 6 .. 10
  OBVIOUS
<1>2. /\ working /\ Left \in Nat
      /\ \/ Left' = Left
         \/ Left' = Left - 1 /\ ~ doWrite
  BY <1>1, RunBefore
<1>3. Left \in 6 .. 10 /\ (Left = 9 \/ Left \in {6, 7, 8})
  BY <1>2
<1>4. Clock /\ MemoryClock /\ ~ softReset
  BY <1>2, <1>3, ClockOfRun
<1>5. IsPrepared(imem)
  BY <1>4 DEF MemoryClock, IsPrepared, StallPadded, HaltPadded, At
<1>6. CASE ~ enable
  <2>1. bubbleReg'
    BY <1>4, <1>6, DisabledClock
  <2> QED
    BY <2>1 DEF LabelTracksInst, InStep, Stopped, EmptyWhileIdle
<1>7. CASE enable
  <2>1. Left \in {6, 7, 8} /\ EmptyWhileIdle
    BY <1>2, <1>3, <1>7, ClockOfRun DEF EmptyWhileIdle
  <2>2. PipeInv /\ entryAddr \in Data
    BY <1>2, <1>5, <2>1, PipeOfRun DEF RunInv, BoardInv, BoardTypeOK
  <2>3. CoreInv' /\ InStep' /\ Stopped' /\ (enable' => PipeInv')
    BY <1>4, <1>7, <2>2, PipeInvClock
  <2>4. ~ enable' => Left' = 6 /\ brespReg' # None
    <3>1. ~ enable' => doWrite /\ Left = 6 /\ brespReg' # None
      BY <1>2, <1>3, <1>7, <2>1, ClockOfRun
    <3> QED
      BY <1>2, <3>1
  <2> QED
    BY <2>3, <2>4 DEF CoreInv, PipeInv
<1> QED
  BY <1>6, <1>7

LEMMA RunInvInit == BridgeInit => RunInv
<1> SUFFICES ASSUME BridgeInit PROVE RunInv
  OBVIOUS
<1>1. /\ PowerUpCore /\ imem \in Programs /\ entryAddr = {}
      /\ job = 1 /\ todo = Access(1)
  BY DEF BridgeInit, AxiInit
<1>2. BoardInv
  BY <1>1, PowerUpType, WordZero DEF BoardInv, BoardTypeOK, PowerUpCore, HaltReport, NothingPending
<1>3. ASSUME working PROVE Left \in Nat /\ Left >= 11
  <2> DEFINE n == Len(Jobs[1].prog)
  <2>1. 1 \in DOMAIN Jobs /\ Left = Len(Access(1))
    BY <1>1, <1>3 DEF working, Left
  <2>2. n \in Nat /\ IsSequence(Access(1), Len(Access(1))) /\ Len(Access(1)) >= 2 * n + 11
    BY <2>1, AccessShape
  <2> QED
    BY <2>1, <2>2 DEF IsSequence
<1>4. working => Left \notin {6, 7, 8, 9, 10}
  BY <1>3
<1> QED
  BY <1>2, <1>4 DEF RunInv, EntryIsLatched, StartIsReady, RunIsInStep

LEMMA RunInvStep == HostInv /\ RunInv /\ [BridgeNext]_bridgeVars => RunInv'
<1> SUFFICES ASSUME HostInv, RunInv, [BridgeNext]_bridgeVars PROVE RunInv'
  OBVIOUS
<1>1. ASSUME UNCHANGED bridgeVars PROVE RunInv'
  <2>1. /\ UNCHANGED <<enable, softReset, entryAddr, entryAddr_we, inst, rdata, imem, dmem>>
        /\ UNCHANGED <<pcFetchReg, pcExReg, bubbleReg, cycleReg, regs>>
        /\ UNCHANGED <<loadPendReg, loadPendRdReg, loadPendF3Reg>>
        /\ UNCHANGED <<haltedReg, illegalReg, ecallReg, ebreakReg>>
        /\ UNCHANGED <<job, todo, brespReg>>
    BY <1>1 DEF bridgeVars, hostVars, axiVars, controlVars, coreVars, memVars, writeVars,
       pcVars, statusVars, loadVars
  <2>2. Left' = Left /\ (working' <=> working) /\ (active' <=> active) /\ dec' = dec
    BY <2>1 DEF Left, working, active, dec
  <2>3. BoardInv'
    BY <2>1 DEF RunInv, BoardInv, BoardTypeOK, PartsTypeOK, CoreTypeOK, MemoryTypeOK,
       HaltReport, NothingPending
  <2>4. EntryIsLatched' /\ StartIsReady'
    BY <2>1, <2>2 DEF RunInv, EntryIsLatched, StartIsReady
  <2>5. IsPrepared(imem)' <=> IsPrepared(imem)
    BY <2>1 DEF IsPrepared, StallPadded, HaltPadded, At
  <2>6. RunIsInStep'
    BY <2>1, <2>2, <2>5
       DEF RunInv, RunIsInStep, LabelTracksInst, InStep, inStep, Replay, Stopped, EmptyWhileIdle, At
  <2> QED
    BY <2>3, <2>4, <2>6 DEF RunInv
<1>2. ASSUME AxiClock(AddressOffered, BeatOffered),
             Continues \/ (working /\ GoesOn) \/ (working /\ BeginsNext)
      PROVE  RunInv'
  <2>1. BoardInv'
    BY <1>2, BoardTypeStep, HaltReportClock, NothingPendingClock
       DEF RunInv, BoardInv, AxiClock
  <2> QED
    BY <1>2, <2>1, EntryIsLatchedStep, StartIsReadyStep, RunIsInStepStep DEF RunInv
<1> QED
  BY <1>1, <1>2, HostStep DEF HostInv

LEMMA RunInvariant == Spec => []RunInv
BY HostInvariant, RunInvInit, RunInvStep, PTL DEF Spec

----------------------------------------------------------------------------

\* A program is never replaced under a core that may be executing it, and the core is
\* never enabled before the host has read back the whole program: whatever earlier jobs
\* have left running, however long the program and the delays of the bus
\* (srv32i_bridge.py:83-87).
THEOREM ProgramIsWholeCorrect == Spec => []ProgramIsWhole
<1>1. HostInv => ProgramIsWhole
  <2> SUFFICES ASSUME HostInv, InRun, active PROVE ProgramIsWhole
    BY DEF ProgramIsWhole
  <2>1. working /\ TodoIsTheRest /\ enable
    BY DEF InRun, active, HostInv
  <2>2. Size \in Nat /\ Left \in Nat
    BY <2>1, Place
  <2>3. job \in DOMAIN Jobs /\ IsSequence(Jobs[job].prog, Size)
    BY <2>1, JobType DEF working, Size
  <2>4. Len(run(Jobs[job].prog, Jobs[job].entry, Jobs[job].check_halt)) = 2 * Size + 6
    <3>1. IsRun(run(Jobs[job].prog, Jobs[job].entry, Jobs[job].check_halt),
                Jobs[job].prog, Size, Jobs[job].entry, Jobs[job].check_halt)
      BY <2>3, RunShape, Zenon
    <3> QED
      BY <3>1, SequenceLen DEF IsRun
  <2>5. 5 < Left /\ Left < (2 * Size + 6) + 5
    BY <2>4 DEF InRun, Left, Looks
  <2>6. Left \in {6, 7, 8}
    BY <2>1, <2>2, <2>5 DEF HostInv, CoreIsDisabled
  <2>7. \A i \in 1 .. Size : i + Left < Size + 11
    BY <2>2, <2>6
  <2>8. DOMAIN Jobs[job].prog = 1 .. Size
    BY <2>3, SequenceLen
  <2> QED
    BY <2>1, <2>7, <2>8 DEF HostInv, VerifiedIsLoaded, ProgramIsWhole
<1> QED
  BY <1>1, HostInvariant, PTL

\* The halves of the cycle counter that a testbench reads belong together and are those
\* of the completed run, at every width of the counter and of its halves: nothing
\* between the end of run() and the last look counts on (srv32i_bridge.py:76-79).
THEOREM CyclesBelongTogetherCorrect == Spec => []CyclesBelongTogether
<1>1. HostInv => CyclesBelongTogether
  <2> SUFFICES ASSUME HostInv, Returned, Len(todo) <= 3
               PROVE  /\ result["lo"] = FromInt(cycleReg % CycleLo, 32)
                      /\ result["hi"] = FromInt(cycleReg \div CycleLo, 32)
    BY DEF CyclesBelongTogether, Looks
  <2>1. working /\ Left \in Nat /\ Left <= 3
    BY Place DEF Returned, HostInv, Left
  <2>2. Left <= 4
    BY <2>1
  <2> QED
    BY <2>1, <2>2 DEF HostInv, CountIsKept
<1> QED
  BY <1>1, HostInvariant, PTL

\* What a testbench gets of a run in six accesses is one state of the board, whatever
\* words lie behind the halting one and however long each access takes: the status
\* polled before the core is disabled is still true of it, what check_halt has asserted
\* as well, and the register, the PC and the word of dmem are those the board holds
\* (srv32i_bridge.py:88-101).
THEOREM ResultsAreOneStateCorrect == Spec => []ResultsAreOneState
<1>1. HostInv /\ LookInv => ResultsAreOneState
  <2> SUFFICES ASSUME HostInv, LookInv, Returned PROVE ResultsAreOneState
    BY DEF ResultsAreOneState
  <2>1. working /\ TodoIsTheRest /\ Left = Len(todo) /\ Left \in Nat /\ Left <= 5
    BY Place DEF Returned, HostInv, Left, Looks
  <2>2. Left <= 6
    BY <2>1
  <2>3. haltedReg /\ st = StatusWord
    BY <2>1, <2>2 DEF LookInv, StatusIsKept
  <2>4. Jobs[job].check_halt => ecallReg /\ ~ illegalReg
    <3>1. Jobs[job].check_halt => CleanHalt(StatusWord)
      BY <2>1, <2>3 DEF LookInv, StatusIsKept
    <3>2. CleanHalt(StatusWord) => 3 \in StatusWord /\ 2 \notin StatusWord
      BY DEF CleanHalt, ST_ECALL, ST_ILLEGAL
    <3> QED
      BY <3>1, <3>2, StatusBits
  <2>5. /\ Left <= 2 => result["reg"] = RegRead(Jobs[job].reg)
        /\ Left <= 1 => result["pc"] = pcExReg
    BY <2>1 DEF LookInv, LookIsKept
  <2>6. Selected(current.addr) = "dmem" /\ rstateReg = "COMPLETED" =>
          rdataReg = dmem[DmemSlot(current.addr)]
    BY <2>1 DEF LookInv, LookIsCurrent
  <2> QED
    BY <2>1, <2>3, <2>4, <2>5, <2>6 DEF ResultsAreOneState
<1> QED
  BY <1>1, HostInvariant, LookInvariant, PTL

\* A run starts at its entry address on the registers, the program and the data that
\* the host has left on the board, is executed by the steps of the sequential machine
\* (loads and stores off the lanes of a word made at the word) as long as the core is
\* enabled, and stays as its halt has left it while the host polls, disables the core and
\* looks: for every program prepared for the pipeline, whatever earlier jobs have left in
\* imem behind it, and however long the bus delays each access (srv32i_bridge.py:83-101,
\* SRV32I.scala:475-485).
THEOREM RunsAreSequentialCorrect == Spec => RunsAreSequential
<1> DEFINE Promise ==
             working /\ Len(todo) <= Looks + 3 =>
               /\ ~ enable /\ enable' =>
                    /\ UNCHANGED <<archRegs, imem, dmem>>
                    /\ ~ haltedReg => archPc' = Jobs[job].entry
               /\ enable /\ enable' =>
                    [SequentialStep]_(Sequential!vars) \/ ~ IsPrepared(imem)
               /\ haltedReg =>
                    UNCHANGED <<archPc, archRegs, imem, dmem>> \/ ~ IsPrepared(imem)
<1>1. ASSUME HostInv, LookInv, RunInv, working, Left <= 8,
             AxiClock(AddressOffered, BeatOffered)
      PROVE  Promise
  <2>1. Left \in 1 .. 8 /\ Size \in Nat
    BY <1>1, CurrentShape DEF HostInv
  <2>2. CASE Left <= 5
    <3>1. /\ ~ enable /\ bubbleReg /\ ~ loadPendReg /\ haltedReg
      <4>1. Left <= 6
        BY <2>1, <2>2
      <4> QED
        BY <1>1, <2>2, <4>1
           DEF HostInv, CoreIsDisabled, LookInv, BoardIsStill, StatusIsKept
    <3>2. Clock /\ ControlRegisters /\ SharedMemories /\ ~ softReset
      <4>1. Left <= 2 * Size + 11
        BY <2>1, <2>2
      <4> QED
        BY <1>1, <4>1, NoReset DEF AxiClock
    <3>3. ~ doWrite
      <4>1. current.op = "read"
        BY <1>1, <2>2, Place DEF HostInv
      <4> QED
        BY <1>1, <4>1, WriteEffects DEF HostInv, Doing
    <3>4. /\ ~ enable' /\ imem' = imem /\ regs' = regs /\ dmem' = dmem
          /\ bubbleReg' /\ ~ loadPendReg' /\ pcExReg' = pcExReg /\ haltedReg' = haltedReg
      <4>1. /\ bubbleReg' /\ ~ loadPendReg' /\ UNCHANGED <<pcExReg, haltedReg>>
            /\ regs' = regs /\ dmem' = dmem
        BY <3>1, <3>2, <3>3, BoardStands, DisabledClock
      <4>2. enable' = enable /\ imem' = imem
        BY <1>1, <3>2, <3>3, RegistersKept DEF HostInv
      <4> QED
        BY <3>1, <4>1, <4>2
    <3>5. UNCHANGED <<archPc, archRegs, imem, dmem>>
      BY <3>1, <3>4 DEF archPc, archRegs, RegsAfterLoad, wenLoad
    <3> QED
      BY <3>1, <3>5
  <2>3. CASE Left \in {6, 7, 8}
    <3>1. Left \in 6 .. 10
      BY <2>3
    <3>2. Clock /\ MemoryClock /\ ~ softReset
      BY <1>1, <3>1, ClockOfRun
    <3>3. ASSUME ~ enable, enable'
          PROVE  /\ UNCHANGED <<archRegs, imem, dmem>>
                 /\ ~ haltedReg => archPc' = Jobs[job].entry
      <4>1. Left = 8
        BY <1>1, <2>3, <3>1, <3>3, ClockOfRun
      <4>2. /\ bubbleReg /\ ~ loadPendReg /\ pcFetchReg = Jobs[job].entry
            /\ entryAddr = Jobs[job].entry
        BY <1>1, <3>3, <4>1
           DEF RunInv, StartIsReady, EntryIsLatched, BoardInv, NothingPending
      <4>3. /\ bubbleReg' /\ ~ loadPendReg' /\ pcFetchReg' = Jobs[job].entry
            /\ haltedReg' = haltedReg /\ RegFileClock
        BY <3>2, <3>3, <4>2, DisabledClock
      <4>4. ~ wen /\ ~ wenLoad /\ ~ dmem_wen
        BY <4>2 DEF wen, wenLoad, dmem_wen, instrValid
      <4>5. regs' = regs /\ dmem' = dmem /\ imem' = imem
        BY <3>2, <4>3, <4>4
           DEF RegFileClock, RegsAfterLoad, MemoryClock, DmemAfterCore
      <4> QED
        BY <4>2, <4>3, <4>5 DEF archRegs, RegsAfterLoad, wenLoad, archPc
    <3>4. ASSUME enable, enable', IsPrepared(imem)
          PROVE  [SequentialStep]_(Sequential!vars)
      <4>1. EmptyWhileIdle
        BY <3>4 DEF EmptyWhileIdle
      <4> QED
        BY <1>1, <2>3, <3>2, <3>4, <4>1, PipeOfRun, ClockRefines
    <3>5. ASSUME haltedReg, IsPrepared(imem)
          PROVE  UNCHANGED <<archPc, archRegs, imem, dmem>>
      BY <1>1, <2>3, <3>2, <3>5, HaltedIsStill DEF RunInv, BoardInv, RunIsInStep
    <3> QED
      BY <3>3, <3>4, <3>5
  <2> QED
    BY <2>1, <2>2, <2>3
<1>2. ASSUME HostInv, LookInv, RunInv, [BridgeNext]_bridgeVars
      PROVE  [Promise]_bridgeVars
  <2>1. CASE UNCHANGED bridgeVars
    BY <2>1
  <2>2. CASE AxiClock(AddressOffered, BeatOffered)
    <3>1. working /\ Len(todo) <= Looks + 3 => Left <= 8
      BY DEF Left, Looks
    <3> QED
      BY <1>1, <1>2, <2>2, <3>1
  <2> QED
    BY <1>2, <2>1, <2>2, HostStep DEF HostInv
<1>3. [][Promise]_bridgeVars => RunsAreSequential
  BY DEF RunsAreSequential
<1> QED
  BY <1>2, <1>3, HostInvariant, LookInvariant, RunInvariant, PTL DEF Spec

==============================================================================
