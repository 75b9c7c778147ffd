----------------------------- MODULE UnitProofs -----------------------------
(***************************************************************************)
(* Proofs about a unit of the test environment.                            *)
(*                                                                         *)
(* The interrupt test of the core, for any implemented interrupts, words   *)
(* and masks: its verdict is the behaviour of the controller.              *)
(***************************************************************************)
EXTENDS IrqTest, FiniteSetTheorems, SequenceTheorems, WellFoundedInduction,
        TLAPS

\* Min of a set of naturals that is not empty is its least element.
LEMMA MinNat ==
    ASSUME NEW S \in SUBSET Nat, S # {}
    PROVE  Min(S) \in S /\ \A y \in S : Min(S) <= y
<1>1. PICK x \in S : \A y \in S : ~(<<y, x>> \in OpToRel(<, Nat))
  BY NatLessThanWellFounded, WFMin
<1>2. ASSUME NEW y \in S
      PROVE  x <= y
  <2>1. ~(y < x)
    <3> SUFFICES ASSUME y < x
                 PROVE  FALSE
      OBVIOUS
    <3>1. <<y, x>> \in OpToRel(<, Nat)
      BY DEF OpToRel
    <3> QED
      BY <1>1, <3>1
  <2> QED
    BY <2>1
<1> QED
  BY <1>2 DEF Min

-----------------------------------------------------------------------------
(* The interrupt test: the order of the interrupts.                          *)

\* The i-th interrupt of the order, and those before it.
Prio(i) == IRQ_ID_PRIORITY[i]
Before(i) == {Prio(j) : j \in 1 .. i - 1}

\* The order in numbers: 31 down to 16, then 11, 3 and 7.
LEMMA PrioValues ==
    \A i \in 1 .. IRQ_NUM :
        Prio(i) = IF i <= 16 THEN 32 - i
                  ELSE IF i = 17 THEN 11 ELSE IF i = 18 THEN 3 ELSE 7
<1> DEFINE fast == [i \in 1 .. 16 |-> FAST[16 - i]]
<1> DEFINE rest == <<11, 3, 7>>
<1>1. fast \in Seq(Int) /\ Len(fast) = 16 /\ \A i \in 1 .. 16 : fast[i] = 32 - i
  <2>1. \A i \in 1 .. 16 : FAST[16 - i] = 32 - i
    BY DEF FAST
  <2>2. fast \in [1 .. 16 -> Int] /\ \A i \in 1 .. 16 : fast[i] = 32 - i
    BY <2>1
  <2> QED
    BY <2>2
<1>2. rest \in Seq(Int) /\ Len(rest) = 3 /\ rest[1] = 11 /\ rest[2] = 3 /\ rest[3] = 7
  OBVIOUS
<1>3. IRQ_ID_PRIORITY = fast \o rest
  BY DEF IRQ_ID_PRIORITY, EXTERNAL_IRQ_ID, SOFTWARE_IRQ_ID, TIMER_IRQ_ID
<1> HIDE DEF fast, rest
<1>4. \A i \in 1 .. Len(fast) + Len(rest) :
          (fast \o rest)[i] = IF i <= Len(fast) THEN fast[i] ELSE rest[i - Len(fast)]
  BY <1>1, <1>2, ConcatProperties
<1>5. Len(fast) + Len(rest) = 19
  BY <1>1, <1>2
<1>6. \A i \in 1 .. 19 : Prio(i) = IF i <= 16 THEN fast[i] ELSE rest[i - 16]
  BY ONLY <1>1, <1>3, <1>4, <1>5 DEF Prio
<1>7. ASSUME NEW i \in 1 .. 16 PROVE Prio(i) = 32 - i
  <2>1. i \in 1 .. 19 /\ i <= 16
    OBVIOUS
  <2>2. Prio(i) = fast[i]
    BY <1>6, <2>1
  <2> QED
    BY <1>1, <2>2
<1>8. Prio(17) = 11 /\ Prio(18) = 3 /\ Prio(19) = 7
  <2>1. /\ Prio(17) = rest[17 - 16] /\ Prio(18) = rest[18 - 16]
        /\ Prio(19) = rest[19 - 16]
    BY <1>6
  <2> QED
    BY <1>2, <2>1
<1> QED
  BY <1>7, <1>8 DEF IRQ_NUM

\* An implemented interrupt is in the order exactly once.
LEMMA PrioFacts ==
    /\ \A i \in 1 .. IRQ_NUM : Prio(i) \in STD_IRQ_MASK
    /\ \A i, j \in 1 .. IRQ_NUM : Prio(i) = Prio(j) => i = j
    /\ \A id \in Irqs : \E i \in 1 .. IRQ_NUM : Prio(i) = id
    /\ Irqs \subseteq Nat
<1>1. STD_IRQ_MASK = {3, 7, 11} \cup (16 .. 31)
  BY DEF STD_IRQ_MASK, FAST, SOFTWARE_IRQ_ID, TIMER_IRQ_ID, EXTERNAL_IRQ_ID
<1>2. \A i \in 1 .. IRQ_NUM : Prio(i) \in STD_IRQ_MASK
  BY <1>1, PrioValues DEF IRQ_NUM
<1>3. \A i, j \in 1 .. IRQ_NUM : Prio(i) = Prio(j) => i = j
  BY PrioValues DEF IRQ_NUM
<1>4. ASSUME NEW id \in STD_IRQ_MASK
      PROVE  \E i \in 1 .. IRQ_NUM : Prio(i) = id
  <2>1. CASE id \in 16 .. 31
    <3>1. 32 - id \in 1 .. IRQ_NUM /\ Prio(32 - id) = id
      BY <2>1, PrioValues DEF IRQ_NUM
    <3> QED
      BY <3>1
  <2>2. CASE id \in {3, 7, 11}
    <3>1. /\ 17 \in 1 .. IRQ_NUM /\ 18 \in 1 .. IRQ_NUM /\ 19 \in 1 .. IRQ_NUM
          /\ Prio(17) = 11 /\ Prio(18) = 3 /\ Prio(19) = 7
      BY PrioValues DEF IRQ_NUM
    <3> QED
      BY <2>2, <3>1
  <2> QED
    BY <1>1, <2>1, <2>2
<1>5. Irqs \subseteq STD_IRQ_MASK
  BY IrqAssumption
<1>6. Irqs \subseteq Nat
  BY <1>1, <1>5
<1> QED
  BY <1>2, <1>3, <1>4, <1>5, <1>6

\* The interrupts before the i-th one.
LEMMA BeforeFacts ==
    /\ Before(1) = {}
    /\ Irqs \subseteq Before(IRQ_NUM + 1)
    /\ \A i \in 1 .. IRQ_NUM :
          Before(i + 1) = Before(i) \cup {Prio(i)} /\ Prio(i) \notin Before(i)
    /\ \A i \in 1 .. IRQ_NUM + 1 : \A id \in Irqs \ Before(i) :
          \E m \in i .. IRQ_NUM : Prio(m) = id
    /\ \A i \in 1 .. IRQ_NUM : \A m \in 1 .. IRQ_NUM :
          Prio(m) \in Before(i) <=> m < i
<1> USE DEF Before, IRQ_NUM
<1>1. Before(1) = {}
  OBVIOUS
<1>2. Irqs \subseteq Before(IRQ_NUM + 1)
  BY PrioFacts
<1>3. ASSUME NEW i \in 1 .. IRQ_NUM
      PROVE  Before(i + 1) = Before(i) \cup {Prio(i)} /\ Prio(i) \notin Before(i)
  <2>1. Prio(i) \notin Before(i)
    BY PrioFacts
  <2>2. Before(i + 1) = Before(i) \cup {Prio(i)}
    OBVIOUS
  <2> QED
    BY <2>1, <2>2
<1>4. ASSUME NEW i \in 1 .. IRQ_NUM + 1, NEW id \in Irqs \ Before(i)
      PROVE  \E m \in i .. IRQ_NUM : Prio(m) = id
  <2>1. PICK m \in 1 .. IRQ_NUM : Prio(m) = id
    BY PrioFacts
  <2>2. ~(m < i)
    BY <2>1
  <2> QED
    BY <2>1, <2>2
<1>5. ASSUME NEW i \in 1 .. IRQ_NUM, NEW m \in 1 .. IRQ_NUM
      PROVE  Prio(m) \in Before(i) <=> m < i
  BY PrioFacts
<1> QED
  BY <1>1, <1>2, <1>3, <1>4, <1>5

\* The greatest of some interrupts.
LEMMA MaxIrq ==
    ASSUME NEW S \in SUBSET Irqs, S # {}
    PROVE  Max(S) \in S /\ \A y \in S : y <= Max(S)
<1> DEFINE T == {n \in 0 .. 31 : 31 - n \in S}
<1>1. S \subseteq 0 .. 31
  BY IrqAssumption DEF STD_IRQ_MASK, FAST, SOFTWARE_IRQ_ID, TIMER_IRQ_ID, EXTERNAL_IRQ_ID
<1>2. T \in SUBSET Nat /\ T # {}
  <2>1. PICK y \in S : y \in 0 .. 31
    BY <1>1
  <2>2. 31 - y \in 0 .. 31 /\ 31 - (31 - y) = y
    BY <2>1
  <2>3. 31 - y \in T
    BY <2>1, <2>2
  <2> QED
    BY <2>3
<1>3. Min(T) \in T /\ \A y \in T : Min(T) <= y
  BY <1>2, MinNat
<1>4. PICK x \in S : Min(T) = 31 - x
  <2>1. Min(T) \in 0 .. 31 /\ 31 - Min(T) \in S
    BY <1>3
  <2>2. Min(T) = 31 - (31 - Min(T))
    BY <2>1
  <2> QED
    BY <2>1, <2>2
<1>5. ASSUME NEW y \in S PROVE y <= x
  <2>1. y \in 0 .. 31 /\ x \in 0 .. 31 /\ 31 - (31 - y) = y
    BY <1>1
  <2>2. 31 - y \in T
    BY <2>1
  <2>3. Min(T) <= 31 - y
    BY <1>3, <2>2
  <2> QED
    BY <1>4, <2>1, <2>3
<1>6. \E g \in S : \A y \in S : g >= y
  BY <1>1, <1>5
<1>7. Max(S) \in S /\ \A y \in S : Max(S) >= y
  BY <1>6 DEF Max
<1> QED
  BY <1>1, <1>7

\* The interrupt controller of the core and the test agree on the order: the
\* interrupt that is taken is the first one of the order that may be taken.
LEMMA HighestFirst ==
    ASSUME irq_local_qual \in SUBSET Irqs, irq_local_qual # {}
    PROVE  \E k \in 1 .. IRQ_NUM :
              /\ irq_id_ctrl = Prio(k) /\ Prio(k) \in irq_local_qual
              /\ \A j \in 1 .. k - 1 : Prio(j) \notin irq_local_qual
<1> SUFFICES ASSUME NEW S, S = irq_local_qual, S \in SUBSET Irqs, S # {},
                    NEW x, x = irq_id_ctrl
             PROVE  \E k \in 1 .. IRQ_NUM :
                       /\ x = Prio(k) /\ Prio(k) \in S
                       /\ \A j \in 1 .. k - 1 : Prio(j) \notin S
  OBVIOUS
<1>1. x = IF \E id \in S : id >= 12 THEN Max(S)
          ELSE IF 11 \in S THEN 11 ELSE IF 3 \in S THEN 3 ELSE 7
  BY DEF irq_id_ctrl
<1>2. S \subseteq {3, 7, 11} \cup (16 .. 31)
  BY IrqAssumption
     DEF STD_IRQ_MASK, FAST, SOFTWARE_IRQ_ID, TIMER_IRQ_ID, EXTERNAL_IRQ_ID
<1>3. CASE \E id \in S : id >= 12
  <2>1. x \in S /\ \A y \in S : y <= x
    BY <1>1, <1>3, MaxIrq
  <2>2. x \in 16 .. 31
    BY <1>2, <1>3, <2>1
  <2>3. 32 - x \in 1 .. IRQ_NUM /\ Prio(32 - x) = x
    BY <2>2, PrioValues DEF IRQ_NUM
  <2>4. ASSUME NEW j \in 1 .. (32 - x) - 1 PROVE Prio(j) \notin S
    <3>1. Prio(j) = 32 - j /\ 32 - j > x
      BY <2>2, PrioValues DEF IRQ_NUM
    <3> QED
      BY <2>1, <2>2, <3>1
  <2> QED
    BY <2>1, <2>3, <2>4
<1>4. CASE ~\E id \in S : id >= 12
  <2>1. S \subseteq {3, 7, 11}
    BY <1>2, <1>4
  <2>2. /\ Prio(17) = 11 /\ Prio(18) = 3 /\ Prio(19) = 7
        /\ \A j \in 1 .. 16 : Prio(j) \in 16 .. 31
    BY PrioValues DEF IRQ_NUM
  <2>3. \A j \in 1 .. 16 : Prio(j) \notin S
    BY <2>1, <2>2
  <2>4. CASE 11 \in S
    <3>1. x = 11
      BY <1>1, <1>4, <2>4
    <3>2. 17 \in 1 .. IRQ_NUM /\ 17 - 1 = 16
      BY DEF IRQ_NUM
    <3> QED
      BY <2>2, <2>3, <2>4, <3>1, <3>2
  <2>5. CASE 11 \notin S /\ 3 \in S
    <3>1. x = 3
      BY <1>1, <1>4, <2>5
    <3>2. 18 \in 1 .. IRQ_NUM /\ \A j \in 1 .. 18 - 1 : j \in 1 .. 16 \/ j = 17
      BY DEF IRQ_NUM
    <3> QED
      BY <2>2, <2>3, <2>5, <3>1, <3>2
  <2>6. CASE 11 \notin S /\ 3 \notin S
    <3>1. x = 7 /\ 7 \in S
      BY <1>1, <1>4, <2>1, <2>6
    <3>2. 19 \in 1 .. IRQ_NUM /\ \A j \in 1 .. 19 - 1 : j \in 1 .. 16 \/ j = 17 \/ j = 18
      BY DEF IRQ_NUM
    <3> QED
      BY <2>2, <2>3, <2>6, <3>1, <3>2
  <2> QED
    BY <2>4, <2>5, <2>6
<1> QED
  BY <1>3, <1>4

-----------------------------------------------------------------------------
(* The interrupt test: its state.                                            *)

\* Registers, lines and globals.
FwFields == {"pc", "test", "i", "row", "status", "pending", "prev", "first", "ie",
             "toTest", "id", "mode", "mmstatus"}
IrqTypeOK ==
    /\ DOMAIN fw = FwFields
    /\ fw.test \in {1, 2, 3, 5} /\ fw.i \in Nat /\ fw.row \in Nat
    /\ fw.pending \in SUBSET (Irqs \cup Reserved) /\ fw.first \in SUBSET Irqs
    /\ fw.ie \in SUBSET Irqs /\ fw.toTest \in SUBSET Irqs
    /\ fw.mode \in {"off", "RND"}
    /\ fw.mmstatus \in [mie : BOOLEAN, mpie : BOOLEAN]
    /\ core \in [mstatus : [mie : BOOLEAN, mpie : BOOLEAN], mie : SUBSET Irqs,
                 handler : [id : Int, served : BOOLEAN]]
    /\ gen \in [mode : {"off", "SD", "RND"}, word : SUBSET (Irqs \cup Reserved),
                sd : SUBSET Irqs, rnd : SUBSET Irqs, lines : SUBSET Irqs, left : Nat]

\* In TEST 2 and TEST 3: the interrupts that main waits for, the word it has
\* written, the mask, and what is left of the word before the i-th interrupt.
Wanted == IF fw.test = 2 THEN Irqs ELSE fw.toTest
Raised  == IF fw.test = 2 THEN Irqs \cup Reserved ELSE fw.first
Mask   == IF fw.test = 2 THEN Irqs ELSE fw.ie
Left(i) == Raised \ (Before(i) \cap Wanted)

\* Until TEST 5 the generator has the word of the program.  The lines are the
\* word unless they have not followed it since a test began, or it is zero.
SoftwareDefined ==
    /\ fw.mode = "off" /\ gen.mode \in {"off", "SD"}
    /\ gen.word = fw.pending /\ gen.sd = gen.lines
    /\ gen.mode = "off" => gen.word = {} /\ gen.lines = {}
    /\ core.handler = NoIrq =>
          gen.lines = {} \/ gen.word = {} \/ gen.lines = gen.word \cap Irqs

Quiet == core.handler = NoIrq /\ ~core.mstatus.mie

\* Before TEST 2, and before TEST 3.
Started ==
    /\ fw.pc \in {"test1", "test2"} /\ fw.test = 1
    /\ Quiet /\ gen.lines = {} /\ fw.pending = {}
    /\ fw.pc = "test2" => gen.mode = "SD"
Between == /\ fw.pc = "test3" /\ fw.test = 2
           /\ Quiet /\ gen.lines = {} /\ fw.pending \cap Irqs = {} /\ gen.mode = "SD"

\* main waits for the i-th interrupt: it may not have been taken, be in its
\* handler, or have been served.
Ahead ==
    /\ fw.pending = Left(fw.i)
    /\ \/ fw.pc = "loop" /\ Quiet
       \/ fw.pc = "enable" /\ Quiet /\ fw.prev = fw.pending
       \/ fw.pc = "enableW" /\ Quiet /\ fw.prev = fw.pending /\ fw.mmstatus.mie
       \/ /\ fw.pc = "wait" /\ fw.prev = fw.pending
          /\ core.handler = NoIrq /\ core.mstatus.mie
       \/ /\ fw.pc = "wait" /\ fw.prev = fw.pending /\ ~core.mstatus.mie
          /\ core.handler.id = Prio(fw.i) /\ ~core.handler.served
Served ==
    /\ fw.pc = "wait" /\ fw.pending = Left(fw.i + 1) /\ Prio(fw.i) \in fw.prev
    /\ fw.id = Prio(fw.i) /\ ~core.mstatus.mie
    /\ core.handler = NoIrq \/ (core.handler.served /\ ~core.mstatus.mpie)

InLoop ==
    /\ fw.pc \in {"loop", "enable", "enableW", "wait"} /\ fw.test \in {2, 3}
    /\ core.mie = Mask /\ gen.mode = "SD"
    /\ fw.test = 3 => fw.toTest = fw.first \cap fw.ie
    /\ fw.i \in 1 .. IRQ_NUM + 1
    /\ fw.pc # "loop" => fw.i <= IRQ_NUM /\ Prio(fw.i) \in Wanted
    /\ Ahead \/ Served

\* TEST 5: the rows of the matrix are counted.
LastTest ==
    /\ fw.test = 5
    /\ fw.pc \in {"test5", "enable", "enableW", "mult", "disable", "disableW", "result"}
    /\ fw.row <= Rows
    /\ fw.pc \in {"disable", "disableW", "result"} => fw.row = Rows

\* While the core behaves.
Behaves ==
    \/ fw.pc = "done" /\ fw.status = 0 /\ fw.test = 5
    \/ SoftwareDefined /\ fw.row = 0 /\ (Started \/ Between \/ InLoop)
    \/ LastTest

\* After the core has taken a pending interrupt out of turn: the wrong one is
\* on its way to the check of main; or main waits for the last one again, which
\* does not change the word; or the one it will wait for has been served.
WrongOne ==
    /\ fw.pc = "wait" /\ ~core.mstatus.mie /\ fw.i \in 1 .. IRQ_NUM
    /\ \/ core.handler = NoIrq /\ fw.id # Prio(fw.i)
       \/ core.handler.served /\ ~core.mstatus.mpie /\ fw.id # Prio(fw.i)
       \/ /\ core.handler # NoIrq /\ ~core.handler.served
          /\ core.handler.id # Prio(fw.i)
NothingLeft == fw.pc = "wait" /\ fw.pending = {} /\ fw.prev = {}
MissedOne(m) ==
    /\ fw.i \in 1 .. m /\ Prio(m) \in Wanted
    /\ Prio(m) \notin fw.pending \ {core.handler.id}
    /\ \A j \in fw.i .. m - 1 : Prio(j) \notin Wanted
    /\ \/ /\ fw.pc = "loop" /\ ~core.mstatus.mie
          /\ core.handler.served => ~core.mstatus.mpie /\ Prio(m) \notin fw.pending
       \/ /\ fw.pc \in {"enable", "enableW"} /\ fw.i = m
          /\ Quiet /\ fw.prev = fw.pending
       \/ /\ fw.pc = "wait" /\ fw.i = m
          /\ core.handler = NoIrq /\ fw.prev = fw.pending

Fails ==
    \/ fw.pc = "done" /\ fw.status # 0
    \/ /\ fw.test \in {2, 3} /\ SoftwareDefined /\ gen.mode = "SD"
       /\ WrongOne \/ NothingLeft \/ \E m \in 1 .. IRQ_NUM : MissedOne(m)

\* The inductive invariant of the interrupt test.
IrqInv ==
    /\ IrqTypeOK
    /\ fault.kind = "none" => Behaves
    /\ fault.due /\ fault.test \in {2, 3} => Fails

-----------------------------------------------------------------------------
(* The interrupt test: every step keeps the invariant.                       *)

\* Lines are implemented interrupts.
LEMMA LinesAreIrqs ==
    ASSUME IrqTypeOK
    PROVE  /\ SdLines \in SUBSET Irqs /\ Lines \in SUBSET Irqs
           /\ irq_local_qual \in SUBSET Irqs
<1>1. SdLines \in SUBSET Irqs
  BY DEF IrqTypeOK, SdLines
<1>2. Lines \in SUBSET Irqs
  <2>1. CASE gen.mode = "SD"
    BY <1>1, <2>1, Zenon DEF Lines
  <2>2. CASE gen.mode = "RND"
    <3>1. Lines = gen.rnd
      BY <2>2 DEF Lines
    <3> QED
      BY <3>1 DEF IrqTypeOK
  <2>3. CASE gen.mode # "SD" /\ gen.mode # "RND"
    <3>1. Lines = {}
      BY <2>3 DEF Lines
    <3> QED
      BY <3>1
  <2> QED
    BY <2>1, <2>2, <2>3
<1> QED
  BY <1>1, <1>2 DEF irq_local_qual, IrqTypeOK

\* The interrupt taken is a line.
LEMMA TakenIsIrq ==
    ASSUME IrqTypeOK, irq_local_qual # {}
    PROVE  irq_id_ctrl \in irq_local_qual /\ irq_id_ctrl \in Irqs
  BY LinesAreIrqs, HighestFirst

\* mstatus with one bit changed.
LEMMA MstatusType ==
    ASSUME NEW m \in [mie : BOOLEAN, mpie : BOOLEAN]
    PROVE  /\ [m EXCEPT !.mie = TRUE] \in [mie : BOOLEAN, mpie : BOOLEAN]
           /\ [m EXCEPT !.mie = FALSE] \in [mie : BOOLEAN, mpie : BOOLEAN]
           /\ [m EXCEPT !.mpie = FALSE] \in [mie : BOOLEAN, mpie : BOOLEAN]
  OBVIOUS

\* Types: the steps of main that read and write mstatus and the words.
LEMMA MainTypes == IrqTypeOK /\ Main => IrqTypeOK'
<1> SUFFICES ASSUME IrqTypeOK, Main PROVE IrqTypeOK'
  OBVIOUS
<1> USE DEF IrqTypeOK, FwFields
<1>1. CASE Test1
  BY <1>1 DEF Test1
<1>2. CASE Test2
  BY <1>2 DEF Test2
<1>3. CASE Test3
  <2>1. PICK ie \in RandomWords, first \in RandomWords :
          /\ core' = [core EXCEPT !.mie = ie, !.mstatus.mie = FALSE]
          /\ gen' = [gen EXCEPT !.word = first]
          /\ fw' = [fw EXCEPT !.pc = "loop", !.test = 3, !.i = 1, !.id = 0, !.ie = ie,
                              !.pending = first, !.first = first,
                              !.toTest = ToTest(first, ie)]
    BY <1>3 DEF Test3
  <2>2. ie \in SUBSET Irqs /\ first \in SUBSET Irqs /\ ToTest(first, ie) \in SUBSET Irqs
    BY DEF RandomWords, ToTest
  <2> HIDE DEF ToTest
  <2> QED
    BY <2>1, <2>2
<1>4. CASE Sample
  BY <1>4 DEF Sample
<1>5. CASE mstatus_enable
  <2>1. CASE fw' = [fw EXCEPT !.mmstatus = [core.mstatus EXCEPT !.mie = TRUE],
                              !.pc = "enableW"] /\ UNCHANGED <<core, gen>>
    BY <2>1, MstatusType
  <2>2. CASE /\ core' = [core EXCEPT !.mstatus = fw.mmstatus]
             /\ fw' = [fw EXCEPT !.pc = IF fw.test = 5 THEN "mult" ELSE "wait"]
             /\ UNCHANGED gen
    BY <2>2
  <2> QED
    BY <1>5, <2>1, <2>2 DEF mstatus_enable
<1>6. CASE Check
  <2>1. CASE fw' = [fw EXCEPT !.i = @ + 1, !.pc = "loop"] /\ UNCHANGED <<core, gen>>
    BY <2>1
  <2>2. CASE Return(fw.test)
    BY <2>2 DEF Return
  <2> QED
    BY <1>6, <2>1, <2>2 DEF Check
<1>7. CASE LoopEnd
  <2>1. CASE fw' = [fw EXCEPT !.pc = "test3"] /\ UNCHANGED <<core, gen>>
    BY <2>1
  <2>2. CASE Return(3)
    BY <2>2 DEF Return
  <2>3. CASE /\ fw' = [fw EXCEPT !.pc = "test5", !.test = 5, !.first = {}, !.ie = {},
                                 !.toTest = {}, !.prev = {}]
             /\ UNCHANGED <<core, gen>>
    BY <2>3
  <2> QED
    BY <1>7, <2>1, <2>2, <2>3 DEF LoopEnd
<1>8. CASE Test5
  BY <1>8 DEF Test5
<1>9. CASE mat_mult
  BY <1>9 DEF mat_mult
<1>10. CASE mstatus_disable
  <2>1. CASE fw' = [fw EXCEPT !.mmstatus = [core.mstatus EXCEPT !.mie = FALSE],
                              !.pc = "disableW"] /\ UNCHANGED <<core, gen>>
    BY <2>1, MstatusType
  <2>2. CASE /\ core' = [core EXCEPT !.mstatus = fw.mmstatus]
             /\ fw' = [fw EXCEPT !.pc = "result"] /\ UNCHANGED gen
    BY <2>2
  <2> QED
    BY <1>10, <2>1, <2>2 DEF mstatus_disable
<1>11. CASE Result
  BY <1>11 DEF Result, Return
<1> QED
  BY <1>1, <1>2, <1>3, <1>4, <1>5, <1>6, <1>7, <1>8, <1>9, <1>10, <1>11 DEF Main

\* Types: every step.
LEMMA IrqTypesStep ==
    ASSUME IrqTypeOK, [IrqStep \/ CoreFault]_irqVars
    PROVE  IrqTypeOK'
<1>0. irq_local_qual # {} => irq_id_ctrl \in Int
  <2>1. irq_local_qual # {} => irq_id_ctrl \in Irqs
    BY TakenIsIrq, Zenon
  <2>2. \A id \in Irqs : id \in Int
    BY PrioFacts
  <2> QED
    BY <2>1, <2>2, Zenon
<1> USE DEF IrqTypeOK, FwFields
<1>1. CASE GenLines
  BY <1>1, LinesAreIrqs DEF GenLines
<1>2. CASE GenRandom
  <2>1. PICK w \in (SUBSET Irqs) \ {{}} : gen' = [gen EXCEPT !.rnd = w, !.left = @ - 1]
    BY <1>2 DEF GenRandom
  <2>2. gen.left - 1 \in Nat /\ UNCHANGED <<fw, core>>
    BY <1>2 DEF GenRandom
  <2> QED
    BY <2>1, <2>2
<1>3. CASE CoreIrq
  <2>1. irq_id_ctrl \in Int
    BY <1>0, <1>3 DEF CoreIrq, irq_req_ctrl
  <2> QED
    BY <1>3, <2>1 DEF CoreIrq, TakeIrq
<1>4. CASE CoreFault
  <2>1. PICK id \in gen.lines : TakeIrq(id)
    BY <1>4 DEF CoreFault
  <2>2. gen.lines \subseteq Irqs
    OBVIOUS
  <2>3. id \in Irqs
    BY ONLY <2>1, <2>2
  <2>4. id \in Int
    BY ONLY <2>3, PrioFacts
  <2> QED
    BY <1>4, <2>1, <2>4 DEF CoreFault, TakeIrq
<1>5. CASE Mret
  <2>1. NoIrq \in [id : Int, served : BOOLEAN]
    BY DEF NoIrq
  <2>2. [mie |-> core.mstatus.mpie, mpie |-> TRUE] \in [mie : BOOLEAN, mpie : BOOLEAN]
    OBVIOUS
  <2> QED
    BY <1>5, <2>1, <2>2 DEF Mret
<1>6. CASE Handler
  <2> DEFINE id == core.handler.id
  <2> DEFINE left == (IF fw.mode = "RND" THEN gen.lines ELSE fw.pending) \ {id}
  <2> DEFINE off == [core.mstatus EXCEPT !.mpie = FALSE]
  <2>1. /\ fw' = [fw EXCEPT !.id = id, !.pending = left,
                            !.mmstatus = IF fw.mode = "RND" THEN @ ELSE off]
        /\ gen' = [gen EXCEPT !.word = left, !.rnd = IF fw.mode = "RND" THEN {} ELSE @]
        /\ core' = [core EXCEPT !.handler.served = TRUE,
                                !.mstatus = IF fw.mode = "RND" THEN @ ELSE off]
    BY <1>6 DEF Handler, FAST_IRQ_GENERIC
  <2>2. /\ left \in SUBSET (Irqs \cup Reserved) /\ id \in Int
        /\ off \in [mie : BOOLEAN, mpie : BOOLEAN]
    OBVIOUS
  <2> HIDE DEF left, off, id
  <2> QED
    BY <2>1, <2>2
<1>7. CASE Main
  BY <1>7, MainTypes
<1>8. CASE UNCHANGED irqVars
  BY <1>8 DEF irqVars
<1> QED
  BY <1>1, <1>2, <1>3, <1>4, <1>5, <1>6, <1>7, <1>8 DEF IrqStep

\* What an interrupt entry changes.
LEMMA TakeIrqFields ==
    ASSUME IrqTypeOK, NEW id \in Irqs, TakeIrq(id)
    PROVE  /\ core'.handler.id = id /\ ~core'.handler.served
           /\ core'.handler # NoIrq
           /\ ~core'.mstatus.mie /\ core'.mie = core.mie
<1>1. /\ core'.handler.id = id /\ ~core'.handler.served
      /\ ~core'.mstatus.mie /\ core'.mie = core.mie
  BY DEF TakeIrq, IrqTypeOK
<1>2. id # -1
  BY PrioFacts
<1>3. core'.handler # NoIrq
  BY <1>1, <1>2 DEF NoIrq
<1> QED
  BY <1>1, <1>3

\* The lines follow the word.
LEMMA GenLinesFields ==
    ASSUME IrqTypeOK, SoftwareDefined, GenLines
    PROVE  /\ SoftwareDefined' /\ fw' = fw /\ core' = core /\ gen'.mode = gen.mode
           /\ gen.lines = {} /\ fw.pending \cap Irqs = {} => gen'.lines = {}
<1>1. /\ fw' = fw /\ core' = core /\ gen'.mode = gen.mode /\ gen'.word = gen.word
      /\ gen'.sd = SdLines /\ gen'.lines = Lines
  BY DEF GenLines, IrqTypeOK
<1>2. SdLines = Lines
  <2>1. CASE gen.mode = "SD"
    BY <2>1, Zenon DEF Lines
  <2>2. CASE gen.mode = "off"
    <3>1. Lines = {}
      BY <2>2 DEF Lines
    <3>2. SdLines = gen.sd
      BY <2>2 DEF SdLines
    <3> QED
      BY <2>2, <3>1, <3>2 DEF SoftwareDefined
  <2> QED
    BY <2>1, <2>2 DEF SoftwareDefined
<1>3. gen.mode = "off" => SdLines = {}
  BY DEF SdLines, SoftwareDefined
<1>4. gen.mode = "SD" => SdLines = gen.word \cap Irqs
  BY DEF SdLines, SoftwareDefined
<1>5. SoftwareDefined'
  BY <1>1, <1>2, <1>3, <1>4 DEF SoftwareDefined
<1>6. gen.lines = {} /\ fw.pending \cap Irqs = {} => gen'.lines = {}
  BY <1>1, <1>2, <1>3, <1>4 DEF SoftwareDefined
<1> QED
  BY <1>1, <1>5, <1>6

\* The end of a handler: the lines have followed the word.
LEMMA MretFields ==
    ASSUME IrqTypeOK, Mret
    PROVE  /\ core.handler.served /\ fw' = fw /\ gen' = gen
           /\ core'.handler = NoIrq /\ core'.mie = core.mie
           /\ core'.mstatus.mie = core.mstatus.mpie
           /\ SoftwareDefined /\ gen.mode = "SD" => SoftwareDefined'
<1>1. /\ core.handler.served /\ fw' = fw /\ gen' = gen
      /\ core'.handler = NoIrq /\ core'.mie = core.mie
      /\ core'.mstatus.mie = core.mstatus.mpie
  BY DEF Mret, IrqTypeOK
<1>2. ASSUME SoftwareDefined, gen.mode = "SD" PROVE SoftwareDefined'
  <2>1. gen.sd = SdLines
    BY DEF Mret, Settled
  <2>2. gen.word = {} \/ gen.lines = gen.word \cap Irqs
    BY <1>2, <2>1 DEF SdLines, SoftwareDefined
  <2> QED
    BY <1>1, <1>2, <2>2 DEF SoftwareDefined
<1> QED
  BY <1>1, <1>2

\* A handler leaves main where it is.
LEMMA HandlerKeepsMain ==
    ASSUME IrqTypeOK, Handler
    PROVE  /\ fw'.pc = fw.pc /\ fw'.test = fw.test /\ fw'.row = fw.row
           /\ fw'.status = fw.status
  BY DEF Handler, FAST_IRQ_GENERIC, IrqTypeOK, FwFields

\* What a handler does until TEST 5.
LEMMA HandlerFields ==
    ASSUME IrqTypeOK, SoftwareDefined, Handler
    PROVE  /\ core.handler # NoIrq /\ ~core.handler.served
           /\ fw'.id = core.handler.id
           /\ fw'.pending = fw.pending \ {core.handler.id}
           /\ fw'.i = fw.i /\ fw'.prev = fw.prev /\ fw'.first = fw.first
           /\ fw'.ie = fw.ie /\ fw'.toTest = fw.toTest
           /\ core'.handler.served /\ core'.handler.id = core.handler.id
           /\ core'.handler # NoIrq
           /\ core'.mstatus.mie = core.mstatus.mie /\ ~core'.mstatus.mpie
           /\ core'.mie = core.mie /\ gen'.mode = gen.mode /\ gen'.lines = gen.lines
           /\ SoftwareDefined'
<1> DEFINE id == core.handler.id
<1> DEFINE off == [core.mstatus EXCEPT !.mpie = FALSE]
<1>1. fw.mode = "off"
  BY DEF SoftwareDefined
<1>2. /\ fw' = [fw EXCEPT !.id = id, !.pending = fw.pending \ {id}, !.mmstatus = off]
      /\ gen' = [gen EXCEPT !.word = fw.pending \ {id}, !.rnd = gen.rnd]
      /\ core' = [core EXCEPT !.handler.served = TRUE, !.mstatus = off]
      /\ id \in Irqs /\ ~core.handler.served
  BY <1>1 DEF Handler, FAST_IRQ_GENERIC
<1>3. off.mie = core.mstatus.mie /\ ~off.mpie
  BY DEF IrqTypeOK
<1> HIDE DEF id, off
<1>4. /\ fw'.id = id /\ fw'.pending = fw.pending \ {id}
      /\ fw'.i = fw.i /\ fw'.prev = fw.prev /\ fw'.first = fw.first
      /\ fw'.ie = fw.ie /\ fw'.toTest = fw.toTest /\ fw'.mode = fw.mode
  BY <1>2 DEF IrqTypeOK, FwFields
<1>5. /\ gen'.word = fw.pending \ {id} /\ gen'.mode = gen.mode
      /\ gen'.lines = gen.lines /\ gen'.sd = gen.sd
  BY <1>2 DEF IrqTypeOK
<1>6. core'.handler.served /\ core'.handler.id = core.handler.id /\ core'.mie = core.mie
  BY <1>2 DEF IrqTypeOK
<1>7. core'.mstatus = off
  BY <1>2 DEF IrqTypeOK
<1>8. id # -1
  BY <1>2, PrioFacts
<1>9. core.handler # NoIrq /\ core'.handler # NoIrq
  BY <1>6, <1>8 DEF NoIrq, id
<1>10. SoftwareDefined'
  BY <1>4, <1>5, <1>9 DEF SoftwareDefined
<1> QED
  BY <1>2, <1>3, <1>4, <1>5, <1>6, <1>7, <1>9, <1>10 DEF id

\* What is left of the word after the i-th interrupt.
LEMMA LeftStep ==
    ASSUME NEW i \in 1 .. IRQ_NUM
    PROVE  /\ Prio(i) \in Wanted => Left(i + 1) = Left(i) \ {Prio(i)}
           /\ Prio(i) \notin Wanted => Left(i + 1) = Left(i)
<1>1. Before(i + 1) = Before(i) \cup {Prio(i)}
  BY BeforeFacts
<1> QED
  BY <1>1 DEF Left

\* The words main keeps while it waits.
LEMMA WordsKept ==
    ASSUME fw'.test = fw.test, fw'.first = fw.first, fw'.ie = fw.ie,
           fw'.toTest = fw.toTest
    PROVE  Wanted' = Wanted /\ Raised' = Raised /\ Mask' = Mask
  BY DEF Wanted, Raised, Mask

\* While main has not seen the i-th interrupt, the core takes the first of the
\* order that is wanted from there on.
LEMMA NextTaken ==
    ASSUME IrqTypeOK, SoftwareDefined, InLoop, core.handler = NoIrq,
           fw.pending = Left(fw.i), gen.word # {}, irq_local_qual # {}
    PROVE  \E k \in 1 .. IRQ_NUM :
              /\ k >= fw.i /\ irq_id_ctrl = Prio(k) /\ Prio(k) \in Wanted
              /\ \A j \in fw.i .. k - 1 : Prio(j) \notin Wanted
<1>1. gen.lines = gen.word \cap Irqs
  BY DEF SoftwareDefined, irq_local_qual
<1>2. irq_local_qual = (Left(fw.i) \cap Irqs) \cap Mask
  BY <1>1 DEF irq_local_qual, SoftwareDefined, InLoop
<1>3. PICK k \in 1 .. IRQ_NUM :
          /\ irq_id_ctrl = Prio(k) /\ Prio(k) \in irq_local_qual
          /\ \A j \in 1 .. k - 1 : Prio(j) \notin irq_local_qual
  BY HighestFirst, LinesAreIrqs, Zenon
<1>4. Wanted \subseteq Raised /\ Wanted \subseteq Irqs /\ Wanted \subseteq Mask
      /\ (Raised \cap Irqs) \cap Mask \subseteq Wanted
  BY DEF InLoop, IrqTypeOK, Wanted, Raised, Mask
<1>5. Prio(k) \in Wanted /\ Prio(k) \notin Before(fw.i)
  BY <1>2, <1>3, <1>4 DEF Left
<1>6. k >= fw.i
  <2> SUFFICES ASSUME k < fw.i PROVE FALSE
    BY DEF InLoop
  <2>1. k \in 1 .. fw.i - 1
    BY DEF InLoop, IRQ_NUM
  <2> QED
    BY <1>5, <2>1 DEF Before
<1>7. ASSUME NEW j \in fw.i .. k - 1, Prio(j) \in Wanted PROVE FALSE
  <2>1. j \in 1 .. k - 1 /\ j \in 1 .. IRQ_NUM /\ fw.i \in 1 .. IRQ_NUM /\ ~(j < fw.i)
    BY <1>6 DEF InLoop, IRQ_NUM
  <2>2. Prio(j) \notin Before(fw.i)
    BY <2>1, BeforeFacts
  <2>3. Prio(j) \in irq_local_qual
    BY <1>2, <1>4, <1>7, <2>2 DEF Left
  <2> QED
    BY <1>3, <2>1, <2>3
<1> QED
  BY <1>3, <1>5, <1>6, <1>7

\* A core that behaves keeps main on its way: before TEST 2 and TEST 3.
LEMMA StartStep ==
    ASSUME IrqTypeOK, SoftwareDefined, fw.row = 0, Started \/ Between, IrqStep
    PROVE  Behaves'
<1> USE DEF Behaves
<1>1. core.handler = NoIrq /\ ~core.mstatus.mie /\ gen.lines = {}
  BY DEF Started, Between, Quiet
<1>2. CASE GenLines
  <2>1. /\ SoftwareDefined' /\ fw' = fw /\ core' = core /\ gen'.mode = gen.mode
        /\ gen'.lines = {}
    BY <1>1, <1>2, GenLinesFields DEF Started, Between
  <2> QED
    BY <2>1 DEF Started, Between, Quiet
<1>3. CASE GenRandom
  BY <1>3 DEF GenRandom, SoftwareDefined
<1>4. CASE CoreIrq
  BY <1>1, <1>4 DEF CoreIrq, irq_req_ctrl
<1>5. CASE Mret
  BY <1>1, <1>5 DEF Mret, NoIrq
<1>6. CASE Handler
  BY <1>1, <1>6, HandlerFields
<1>7. CASE Main /\ Test1
  <2>1. /\ fw'.pc = "test2" /\ fw'.test = fw.test /\ fw'.row = fw.row
        /\ fw'.pending = fw.pending /\ fw'.mode = fw.mode
    BY <1>7 DEF Test1, IrqTypeOK, FwFields
  <2>2. /\ core'.handler = core.handler /\ ~core'.mstatus.mie
        /\ gen'.mode = "SD" /\ gen'.word = gen.word /\ gen'.lines = gen.lines
        /\ gen'.sd = gen.sd
    BY <1>7 DEF Test1, IrqTypeOK
  <2>3. fw.pc = "test1" /\ Started
    BY <1>7 DEF Test1, At, Started, Between
  <2> QED
    BY <1>1, <2>1, <2>2, <2>3 DEF Started, Quiet, SoftwareDefined
<1>8. CASE Main /\ Test2
  <2>1. /\ fw'.pc = "loop" /\ fw'.test = 2 /\ fw'.row = fw.row /\ fw'.i = 1
        /\ fw'.pending = Irqs \cup Reserved /\ fw'.mode = fw.mode
    BY <1>8 DEF Test2, IrqTypeOK, FwFields
  <2>2. /\ core'.handler = core.handler /\ ~core'.mstatus.mie /\ core'.mie = Irqs
        /\ gen'.mode = gen.mode /\ gen'.word = Irqs \cup Reserved
        /\ gen'.lines = gen.lines /\ gen'.sd = gen.sd
    BY <1>8 DEF Test2, IrqTypeOK
  <2>3. gen.mode = "SD"
    BY <1>8 DEF Test2, At, Started, Between
  <2>4. Wanted' = Irqs /\ Raised' = Irqs \cup Reserved /\ Mask' = Irqs
    BY <2>1 DEF Wanted, Raised, Mask
  <2>5. Left(fw.i)' = Irqs \cup Reserved
    BY <2>1, <2>4, BeforeFacts DEF Left
  <2>6. Ahead'
    BY <1>1, <2>1, <2>2, <2>5 DEF Ahead, Quiet
  <2>7. InLoop'
    BY <2>1, <2>2, <2>3, <2>4, <2>6 DEF InLoop, IRQ_NUM
  <2> QED
    BY <1>1, <2>1, <2>2, <2>3, <2>7 DEF SoftwareDefined
<1>9. CASE Main /\ Test3
  <2>1. PICK ie \in RandomWords, first \in RandomWords :
          /\ core' = [core EXCEPT !.mie = ie, !.mstatus.mie = FALSE]
          /\ gen' = [gen EXCEPT !.word = first]
          /\ fw' = [fw EXCEPT !.pc = "loop", !.test = 3, !.i = 1, !.id = 0, !.ie = ie,
                              !.pending = first, !.first = first,
                              !.toTest = ToTest(first, ie)]
    BY <1>9 DEF Test3
  <2>2. /\ fw'.pc = "loop" /\ fw'.test = 3 /\ fw'.row = fw.row /\ fw'.i = 1
        /\ fw'.pending = first /\ fw'.mode = fw.mode /\ fw'.ie = ie
        /\ fw'.first = first /\ fw'.toTest = ToTest(first, ie)
    BY <2>1 DEF IrqTypeOK, FwFields
  <2>3. /\ core'.handler = core.handler /\ ~core'.mstatus.mie /\ core'.mie = ie
        /\ gen'.mode = gen.mode /\ gen'.word = first
        /\ gen'.lines = gen.lines /\ gen'.sd = gen.sd
    BY <2>1 DEF IrqTypeOK
  <2>4. gen.mode = "SD"
    BY <1>9 DEF Test3, At, Started, Between
  <2>5. Wanted' = ToTest(first, ie) /\ Raised' = first /\ Mask' = ie
    BY <2>2 DEF Wanted, Raised, Mask
  <2>6. Left(fw.i)' = first
    BY <2>2, <2>5, BeforeFacts DEF Left
  <2>7. Ahead'
    BY <1>1, <2>2, <2>3, <2>6 DEF Ahead, Quiet
  <2>8. InLoop'
    BY <2>2, <2>3, <2>4, <2>5, <2>7 DEF InLoop, IRQ_NUM, ToTest
  <2> QED
    BY <1>1, <2>2, <2>3, <2>4, <2>8 DEF SoftwareDefined
<1>10. CASE Main /\ ~Test1 /\ ~Test2 /\ ~Test3
  <2>1. fw.pc \in {"test1", "test2", "test3"}
    BY DEF Started, Between
  <2> QED
    BY <1>10, <2>1 DEF Main, Sample, mstatus_enable, mstatus_disable, Check, LoopEnd,
                       Test5, mat_mult, Result, At
<1> QED
  BY <1>2, <1>3, <1>4, <1>5, <1>6, <1>7, <1>8, <1>9, <1>10 DEF IrqStep

\* In TEST 5 and at the end: main counts its rows.
LEMMA LastStep ==
    ASSUME IrqTypeOK, LastTest \/ (fw.pc = "done" /\ fw.status = 0 /\ fw.test = 5), IrqStep
    PROVE  Behaves'
<1> USE DEF Behaves
<1>1. ASSUME fw'.pc = fw.pc, fw'.test = fw.test, fw'.row = fw.row, fw'.status = fw.status
      PROVE  Behaves'
  BY <1>1 DEF LastTest
<1>2. CASE GenLines \/ GenRandom \/ CoreIrq \/ Mret
  <2>1. fw' = fw
    BY <1>2 DEF GenLines, GenRandom, CoreIrq, Mret
  <2> QED
    BY <1>1, <2>1
<1>3. CASE Handler
  BY <1>1, <1>3, HandlerKeepsMain
<1>4. CASE Main
  <2>1. fw.pc # "done" /\ LastTest
    BY <1>4 DEF Main, Test1, Test2, Test3, Sample, mstatus_enable, mstatus_disable, Check,
                LoopEnd, Test5, mat_mult, Result, At
  <2>2. fw.pc \in {"test5", "enable", "enableW", "mult", "disable", "disableW", "result"}
    BY <2>1 DEF LastTest
  <2>3. Test5 \/ mstatus_enable \/ mat_mult \/ mstatus_disable \/ Result
    BY <1>4, <2>2 DEF Main, Test1, Test2, Test3, Sample, Check, LoopEnd, At
  <2>4. CASE Test5
    <3>1. fw'.pc = "enable" /\ fw'.test = fw.test /\ fw'.row = fw.row
      BY <2>4 DEF Test5, IrqTypeOK, FwFields
    <3> QED
      BY <2>1, <3>1 DEF LastTest
  <2>5. CASE mstatus_enable
    <3>1. fw'.pc \in {"enableW", "mult"} /\ fw'.test = fw.test /\ fw'.row = fw.row
      BY <2>1, <2>5 DEF mstatus_enable, IrqTypeOK, FwFields, LastTest
    <3> QED
      BY <2>1, <3>1 DEF LastTest
  <2>6. CASE mat_mult
    <3>1. CASE fw.row < Rows
      <4>1. fw'.pc = "mult" /\ fw'.test = fw.test /\ fw'.row = fw.row + 1
        BY <2>6, <3>1 DEF mat_mult, At, IrqTypeOK, FwFields
      <4>2. fw.row + 1 <= Rows
        BY <3>1, IrqAssumption DEF IrqTypeOK
      <4> QED
        BY <2>1, <4>1, <4>2 DEF LastTest
    <3>2. CASE ~(fw.row < Rows)
      <4>1. fw'.pc = "disable" /\ fw'.test = fw.test /\ fw'.row = fw.row
        BY <2>6, <3>2 DEF mat_mult, At, IrqTypeOK, FwFields
      <4>2. fw.row = Rows
        BY <2>1, <3>2, IrqAssumption DEF IrqTypeOK, LastTest
      <4> QED
        BY <2>1, <4>1, <4>2 DEF LastTest
    <3> QED
      BY <3>1, <3>2
  <2>7. CASE mstatus_disable
    <3>1. /\ fw'.pc \in {"disableW", "result"} /\ fw'.test = fw.test /\ fw'.row = fw.row
          /\ fw.pc \in {"disable", "disableW"}
      BY <2>7 DEF mstatus_disable, At, IrqTypeOK, FwFields
    <3> QED
      BY <2>1, <3>1 DEF LastTest
  <2>8. CASE Result
    <3>1. fw.row = Rows
      BY <2>1, <2>8 DEF Result, At, LastTest
    <3>2. fw'.pc = "done" /\ fw'.status = 0 /\ fw'.test = fw.test
      BY <2>8, <3>1 DEF Result, Return, IrqTypeOK, FwFields
    <3> QED
      BY <2>1, <3>2 DEF LastTest
  <2> QED
    BY <2>3, <2>4, <2>5, <2>6, <2>7, <2>8
<1> QED
  BY <1>2, <1>3, <1>4 DEF IrqStep

\* A core that behaves serves the interrupts in the order main waits for.
LEMMA LoopStep ==
    ASSUME IrqTypeOK, SoftwareDefined, fw.row = 0, InLoop, IrqStep
    PROVE  Behaves'
<1> SUFFICES ASSUME ~Behaves' PROVE FALSE
  OBVIOUS
<1>1. /\ fw.pc \in {"loop", "enable", "enableW", "wait"} /\ fw.test \in {2, 3}
      /\ core.mie = Mask /\ gen.mode = "SD"
      /\ fw.test = 3 => fw.toTest = fw.first \cap fw.ie
      /\ fw.i \in 1 .. IRQ_NUM + 1
      /\ fw.pc # "loop" => fw.i \in 1 .. IRQ_NUM /\ Prio(fw.i) \in Wanted
      /\ Ahead \/ Served
  BY DEF InLoop, IRQ_NUM
<1>2. ASSUME SoftwareDefined', fw'.row = fw.row, fw'.test = fw.test,
             fw'.first = fw.first, fw'.ie = fw.ie, fw'.toTest = fw.toTest,
             core'.mie = core.mie, gen'.mode = gen.mode,
             fw'.pc \in {"loop", "enable", "enableW", "wait"},
             fw'.i \in 1 .. IRQ_NUM + 1,
             fw'.pc # "loop" => fw'.i \in 1 .. IRQ_NUM /\ Prio(fw'.i) \in Wanted,
             Ahead' \/ Served'
      PROVE  FALSE
  <2>1. Wanted' = Wanted /\ Raised' = Raised /\ Mask' = Mask
    BY <1>2, WordsKept
  <2>2. InLoop'
    BY <1>1, <1>2, <2>1 DEF InLoop
  <2> QED
    BY <1>2, <2>2 DEF Behaves
<1>3. ASSUME fw'.test = fw.test, fw'.first = fw.first, fw'.ie = fw.ie,
             fw'.toTest = fw.toTest, NEW i, fw'.i = i
      PROVE  Left(fw.i)' = Left(i) /\ Left(fw.i + 1)' = Left(i + 1)
  <2>1. Wanted' = Wanted /\ Raised' = Raised
    BY <1>3, WordsKept
  <2> QED
    BY <1>3, <2>1 DEF Left
<1>4. CASE GenLines
  <2>1. SoftwareDefined' /\ fw' = fw /\ core' = core /\ gen'.mode = gen.mode
    BY <1>4, GenLinesFields
  <2>2. Ahead' \/ Served'
    BY <1>1, <1>3, <2>1 DEF Ahead, Served, Quiet
  <2> QED
    BY <1>1, <1>2, <2>1, <2>2
<1>5. CASE GenRandom
  BY <1>1, <1>5 DEF GenRandom
<1>6. CASE CoreIrq
  <2>1. /\ core.handler = NoIrq /\ core.mstatus.mie /\ irq_local_qual # {}
        /\ TakeIrq(irq_id_ctrl) /\ fw' = fw /\ gen' = gen
    BY <1>6 DEF CoreIrq, irq_req_ctrl
  <2>2. fw.pc = "wait" /\ fw.prev = fw.pending /\ fw.pending = Left(fw.i)
    BY <1>1, <2>1 DEF Ahead, Served, Quiet
  <2>3. Prio(fw.i) \in Wanted /\ fw.i \in 1 .. IRQ_NUM
    BY <1>1, <2>2
  <2>4. gen.word # {}
    <3>1. Wanted \subseteq Raised
      BY <1>1 DEF Wanted, Raised
    <3>2. Prio(fw.i) \in Left(fw.i)
      BY <2>3, <3>1, BeforeFacts DEF Left
    <3> QED
      BY <2>2, <3>2 DEF SoftwareDefined
  <2>5. PICK k \in 1 .. IRQ_NUM :
          /\ k >= fw.i /\ irq_id_ctrl = Prio(k)
          /\ \A j \in fw.i .. k - 1 : Prio(j) \notin Wanted
    BY <2>1, <2>2, <2>4, NextTaken
  <2>6. k = fw.i
    <3>1. ~(fw.i \in fw.i .. k - 1)
      BY <2>3, <2>5
    <3> QED
      BY <2>3, <2>5, <3>1
  <2>7. irq_id_ctrl = Prio(fw.i) /\ irq_id_ctrl \in Irqs
    BY <2>1, <2>5, <2>6, TakenIsIrq
  <2>8. /\ core'.handler.id = Prio(fw.i) /\ ~core'.handler.served
        /\ core'.handler # NoIrq /\ ~core'.mstatus.mie /\ core'.mie = core.mie
    BY <2>1, <2>7, TakeIrqFields
  <2>9. SoftwareDefined'
    BY <2>1, <2>8 DEF SoftwareDefined
  <2>10. Ahead'
    BY <1>3, <2>1, <2>2, <2>8 DEF Ahead
  <2> QED
    BY <1>1, <1>2, <2>1, <2>8, <2>9, <2>10
<1>7. CASE Mret
  <2>1. /\ core.handler.served /\ fw' = fw /\ gen' = gen
        /\ core'.handler = NoIrq /\ core'.mie = core.mie
        /\ core'.mstatus.mie = core.mstatus.mpie /\ SoftwareDefined'
    BY <1>1, <1>7, MretFields
  <2>2. Served /\ ~core.mstatus.mpie
    BY <1>1, <2>1 DEF Ahead, Served, Quiet, NoIrq
  <2>3. Served'
    BY <1>3, <2>1, <2>2 DEF Served
  <2> QED
    BY <1>1, <1>2, <2>1, <2>3
<1>8. CASE Handler
  <2>1. /\ core.handler # NoIrq /\ ~core.handler.served
        /\ fw'.id = core.handler.id
        /\ fw'.pending = fw.pending \ {core.handler.id}
        /\ fw'.i = fw.i /\ fw'.prev = fw.prev /\ fw'.first = fw.first
        /\ fw'.ie = fw.ie /\ fw'.toTest = fw.toTest
        /\ core'.handler.served /\ core'.mstatus.mie = core.mstatus.mie
        /\ ~core'.mstatus.mpie /\ core'.mie = core.mie /\ gen'.mode = gen.mode
        /\ SoftwareDefined'
    BY <1>8, HandlerFields
  <2>2. fw'.pc = fw.pc /\ fw'.test = fw.test /\ fw'.row = fw.row
    BY <1>8, HandlerKeepsMain
  <2>3. /\ fw.pc = "wait" /\ fw.prev = fw.pending /\ ~core.mstatus.mie
        /\ core.handler.id = Prio(fw.i) /\ fw.pending = Left(fw.i)
    BY <1>1, <2>1 DEF Ahead, Served, Quiet
  <2>4. fw.i \in 1 .. IRQ_NUM /\ Prio(fw.i) \in Wanted
    BY <1>1, <2>3
  <2>5. Left(fw.i + 1) = Left(fw.i) \ {Prio(fw.i)}
    BY <2>4, LeftStep
  <2>6. Prio(fw.i) \in fw.prev
    <3>1. Wanted \subseteq Raised
      BY <1>1 DEF Wanted, Raised
    <3> QED
      BY <2>3, <2>4, <3>1, BeforeFacts DEF Left
  <2>7. Left(fw.i + 1)' = Left(fw.i + 1)
    BY <1>3, <2>1, <2>2
  <2>8. Served'
    BY <2>1, <2>2, <2>3, <2>5, <2>6, <2>7 DEF Served
  <2> QED
    BY <1>1, <1>2, <2>1, <2>2, <2>8
<1>9. CASE Main /\ Sample
  <2>1. /\ fw.pc = "loop" /\ fw.i \in 1 .. IRQ_NUM /\ core' = core /\ gen' = gen
        /\ core.handler = NoIrq /\ fw.pending = Left(fw.i) /\ ~core.mstatus.mie
    BY <1>1, <1>9 DEF Sample, At, IRQ_NUM, Ahead, Served, Quiet
  <2>2. Awaited <=> Prio(fw.i) \in Wanted
    BY DEF Awaited, Wanted, Prio
  <2>3. CASE Prio(fw.i) \in Wanted
    <3>1. /\ fw'.pc = "enable" /\ fw'.prev = fw.pending /\ fw'.pending = fw.pending
          /\ fw'.row = fw.row /\ fw'.test = fw.test /\ fw'.first = fw.first
          /\ fw'.ie = fw.ie /\ fw'.toTest = fw.toTest /\ fw'.i = fw.i /\ fw'.mode = fw.mode
      BY <1>9, <2>2, <2>3 DEF Sample, IrqTypeOK, FwFields
    <3>2. SoftwareDefined'
      BY <2>1, <3>1 DEF SoftwareDefined
    <3>3. Ahead'
      BY <1>3, <2>1, <3>1 DEF Ahead, Quiet
    <3> QED
      BY <1>1, <1>2, <2>1, <2>3, <3>1, <3>2, <3>3
  <2>4. CASE Prio(fw.i) \notin Wanted
    <3>1. /\ fw'.pc = "loop" /\ fw'.pending = fw.pending
          /\ fw'.row = fw.row /\ fw'.test = fw.test /\ fw'.first = fw.first
          /\ fw'.ie = fw.ie /\ fw'.toTest = fw.toTest /\ fw'.i = fw.i + 1
          /\ fw'.mode = fw.mode
      BY <1>9, <2>1, <2>2, <2>4 DEF Sample, IrqTypeOK, FwFields
    <3>2. SoftwareDefined'
      BY <2>1, <3>1 DEF SoftwareDefined
    <3>3. Left(fw.i)' = Left(fw.i)
      <4>1. Left(fw.i)' = Left(fw.i + 1)
        BY <1>3, <3>1
      <4> QED
        BY <2>1, <2>4, <4>1, LeftStep
    <3>4. Ahead'
      BY <2>1, <3>1, <3>3 DEF Ahead, Quiet
    <3>5. fw'.i \in 1 .. IRQ_NUM + 1
      BY <2>1, <3>1 DEF IRQ_NUM
    <3> QED
      BY <1>1, <1>2, <2>1, <3>1, <3>2, <3>4, <3>5
  <2> QED
    BY <2>3, <2>4
<1>10. CASE Main /\ mstatus_enable
  <2>1. CASE fw.pc = "enable"
    <3>1. /\ core' = core /\ gen' = gen
          /\ fw' = [fw EXCEPT !.mmstatus = [core.mstatus EXCEPT !.mie = TRUE],
                              !.pc = "enableW"]
      BY <1>10, <2>1 DEF mstatus_enable, At
    <3>2. /\ fw'.pc = "enableW" /\ fw'.prev = fw.prev /\ fw'.pending = fw.pending
          /\ fw'.row = fw.row /\ fw'.test = fw.test /\ fw'.first = fw.first
          /\ fw'.ie = fw.ie /\ fw'.toTest = fw.toTest /\ fw'.i = fw.i /\ fw'.mode = fw.mode
          /\ fw'.mmstatus = [core.mstatus EXCEPT !.mie = TRUE]
      BY <3>1 DEF IrqTypeOK, FwFields
    <3>3. fw'.mmstatus.mie
      BY <3>2 DEF IrqTypeOK
    <3>4. SoftwareDefined'
      BY <3>1, <3>2 DEF SoftwareDefined
    <3>5. Quiet /\ fw.prev = fw.pending /\ fw.pending = Left(fw.i)
      BY <1>1, <2>1 DEF Ahead, Served
    <3>6. Ahead'
      BY <1>3, <3>1, <3>2, <3>3, <3>5 DEF Ahead, Quiet
    <3> QED
      BY <1>1, <1>2, <2>1, <3>1, <3>2, <3>4, <3>6
  <2>2. CASE fw.pc = "enableW"
    <3>1. /\ core' = [core EXCEPT !.mstatus = fw.mmstatus] /\ gen' = gen
          /\ fw' = [fw EXCEPT !.pc = "wait"]
      BY <1>1, <1>10, <2>2 DEF mstatus_enable, At
    <3>2. /\ fw'.pc = "wait" /\ fw'.prev = fw.prev /\ fw'.pending = fw.pending
          /\ fw'.row = fw.row /\ fw'.test = fw.test /\ fw'.first = fw.first
          /\ fw'.ie = fw.ie /\ fw'.toTest = fw.toTest /\ fw'.i = fw.i /\ fw'.mode = fw.mode
      BY <3>1 DEF IrqTypeOK, FwFields
    <3>3. /\ core'.mstatus.mie = fw.mmstatus.mie /\ core'.handler = core.handler
          /\ core'.mie = core.mie
      BY <3>1 DEF IrqTypeOK
    <3>4. SoftwareDefined'
      BY <3>1, <3>2, <3>3 DEF SoftwareDefined
    <3>5. Quiet /\ fw.prev = fw.pending /\ fw.pending = Left(fw.i) /\ fw.mmstatus.mie
      BY <1>1, <2>2 DEF Ahead, Served
    <3>6. Ahead'
      BY <1>3, <3>1, <3>2, <3>3, <3>5 DEF Ahead, Quiet
    <3> QED
      BY <1>1, <1>2, <2>2, <3>1, <3>2, <3>3, <3>4, <3>6
  <2> QED
    BY <1>10, <2>1, <2>2 DEF mstatus_enable, At
<1>11. CASE Main /\ Check
  <2>1. fw.pc = "wait" /\ core.handler = NoIrq /\ fw.prev # fw.pending
    BY <1>11 DEF Check, At
  <2>2. /\ fw.pending = Left(fw.i + 1) /\ fw.id = Prio(fw.i) /\ ~core.mstatus.mie
        /\ fw.i \in 1 .. IRQ_NUM
    BY <1>1, <2>1 DEF Ahead, Served
  <2>3. fw' = [fw EXCEPT !.i = @ + 1, !.pc = "loop"] /\ core' = core /\ gen' = gen
    BY <1>11, <2>2 DEF Check, Prio
  <2>4. /\ fw'.pc = "loop" /\ fw'.pending = fw.pending
        /\ fw'.row = fw.row /\ fw'.test = fw.test /\ fw'.first = fw.first
        /\ fw'.ie = fw.ie /\ fw'.toTest = fw.toTest /\ fw'.i = fw.i + 1
        /\ fw'.mode = fw.mode
    BY <2>3 DEF IrqTypeOK, FwFields
  <2>5. SoftwareDefined'
    BY <2>3, <2>4 DEF SoftwareDefined
  <2>6. Ahead'
    BY <1>3, <2>1, <2>2, <2>3, <2>4 DEF Ahead, Quiet
  <2>7. fw'.i \in 1 .. IRQ_NUM + 1
    BY <2>2, <2>4 DEF IRQ_NUM
  <2> QED
    BY <1>1, <1>2, <2>3, <2>4, <2>5, <2>6, <2>7
<1>12. CASE Main /\ LoopEnd
  <2>1. /\ fw.pc = "loop" /\ fw.i = IRQ_NUM + 1 /\ core.handler = NoIrq
        /\ fw.pending = Left(fw.i) /\ ~core.mstatus.mie
    BY <1>1, <1>12 DEF LoopEnd, At, IRQ_NUM, Ahead, Served, Quiet
  <2>2. Irqs \subseteq Before(fw.i)
    BY <2>1, BeforeFacts
  <2>3. CASE fw.test = 2
    <3>1. fw' = [fw EXCEPT !.pc = "test3"] /\ core' = core /\ gen' = gen
      BY <1>12, <2>3 DEF LoopEnd
    <3>2. /\ fw'.pc = "test3" /\ fw'.pending = fw.pending /\ fw'.row = fw.row
          /\ fw'.test = fw.test /\ fw'.mode = fw.mode
      BY <3>1 DEF IrqTypeOK, FwFields
    <3>3. SoftwareDefined'
      BY <3>1, <3>2 DEF SoftwareDefined
    <3>4. fw.pending = Reserved /\ Reserved \cap Irqs = {} /\ Reserved # {}
      <4>1. Reserved \cap Irqs = {} /\ Reserved # {}
        BY IrqAssumption
      <4> QED
        BY <2>1, <2>2, <2>3, <4>1 DEF Left, Wanted, Raised
    <3>5. gen.lines = {}
      BY <2>1, <3>4 DEF SoftwareDefined
    <3>6. Between'
      BY <1>1, <2>1, <2>3, <3>1, <3>2, <3>4, <3>5 DEF Between, Quiet
    <3> QED
      BY <3>2, <3>3, <3>6 DEF Behaves
  <2>4. CASE fw.test = 3
    <3>1. fw.pending = fw.first \ fw.ie
      BY <1>1, <2>1, <2>2, <2>4 DEF Left, Wanted, Raised, IrqTypeOK
    <3>2. fw' = [fw EXCEPT !.pc = "test5", !.test = 5, !.first = {}, !.ie = {},
                           !.toTest = {}, !.prev = {}]
      BY <1>12, <2>4, <3>1 DEF LoopEnd
    <3>3. fw'.pc = "test5" /\ fw'.test = 5 /\ fw'.row = fw.row
      BY <3>2 DEF IrqTypeOK, FwFields
    <3> QED
      BY <3>3, IrqAssumption DEF Behaves, LastTest
  <2> QED
    BY <1>1, <2>3, <2>4
<1>13. CASE Main /\ ~Sample /\ ~mstatus_enable /\ ~Check /\ ~LoopEnd
  BY <1>1, <1>13 DEF Main, Test1, Test2, Test3, mstatus_disable, Test5, mat_mult, Result, At
<1> QED
  BY <1>4, <1>5, <1>6, <1>7, <1>8, <1>9, <1>10, <1>11, <1>12, <1>13 DEF IrqStep

\* A fault in TEST 2 or TEST 3: the interrupt that is taken is not the one main
\* waits for, or it is, and main is not yet there.
LEMMA FaultStep ==
    ASSUME IrqTypeOK, Behaves, CoreFault, fault'.due, fault'.test \in {2, 3}
    PROVE  Fails'
<1>1. PICK kind \in CoreFaults, id \in gen.lines :
        /\ kind = "order" => irq_req_ctrl /\ id \in core.mie /\ id # irq_id_ctrl
        /\ kind = "mask" => core.mstatus.mie /\ id \notin core.mie
        /\ kind = "mie" => ~core.mstatus.mie /\ id \in core.mie /\ id = irq_id_ctrl
        /\ TakeIrq(id)
        /\ fault' = [kind |-> kind, test |-> fw.test,
                     due |-> id \in fw.pending /\ (kind = "mie" => ~Enabling)]
  BY DEF CoreFault
<1>2. /\ fw.test \in {2, 3} /\ id \in fw.pending /\ (kind = "mie" => ~Enabling)
      /\ kind \in {"order", "mask", "mie"}
  BY <1>1, IrqAssumption
<1>3. core.handler = NoIrq /\ fw' = fw /\ gen' = gen /\ id \in Irqs
  BY DEF CoreFault, IrqTypeOK
<1>4. /\ core'.handler.id = id /\ ~core'.handler.served
      /\ core'.handler # NoIrq /\ ~core'.mstatus.mie /\ core'.mie = core.mie
  BY <1>1, <1>3, TakeIrqFields
<1>5. SoftwareDefined /\ InLoop
  <2>1. gen.lines # {}
    BY <1>1
  <2> QED
    BY <1>2, <2>1 DEF Behaves, LastTest, Started, Between
<1>6. SoftwareDefined' /\ gen'.mode = "SD" /\ fw'.test \in {2, 3}
  BY <1>2, <1>3, <1>4, <1>5 DEF SoftwareDefined, InLoop
<1>7. Wanted' = Wanted
  BY <1>3 DEF Wanted
<1>8. gen.word # {}
  BY <1>2, <1>5 DEF SoftwareDefined
<1>9. CASE fw.pc = "wait"
  <2>1. fw.i \in 1 .. IRQ_NUM /\ Prio(fw.i) \in Wanted /\ core.mie = Mask
    BY <1>5, <1>9 DEF InLoop, IRQ_NUM
  <2>2. id # Prio(fw.i)
    <3>1. CASE Served
      <4>1. fw.pending = Left(fw.i) \ {Prio(fw.i)}
        BY <2>1, <3>1, LeftStep DEF Served
      <4> QED
        BY <1>2, <4>1
    <3>2. CASE Ahead
      <4>1. core.mstatus.mie /\ fw.pending = Left(fw.i)
        <5>1. Prio(fw.i) \in Irqs
          BY <2>1 DEF Wanted, IrqTypeOK
        <5>2. core.handler.id = -1 /\ Prio(fw.i) # -1
          BY <1>3, <5>1, PrioFacts DEF NoIrq
        <5> QED
          BY <1>9, <3>2, <5>2 DEF Ahead
      <4>2. CASE kind = "order"
        <5>1. irq_local_qual # {} /\ id # irq_id_ctrl
          BY <1>1, <4>2 DEF irq_req_ctrl
        <5>2. PICK k \in 1 .. IRQ_NUM :
                /\ k >= fw.i /\ irq_id_ctrl = Prio(k)
                /\ \A j \in fw.i .. k - 1 : Prio(j) \notin Wanted
          BY <1>3, <1>5, <1>8, <4>1, <5>1, NextTaken
        <5>3. ~(fw.i \in fw.i .. k - 1)
          BY <2>1, <5>2
        <5>4. k = fw.i
          BY <2>1, <5>2, <5>3
        <5> QED
          BY <5>1, <5>2, <5>4
      <4>3. CASE kind = "mask"
        <5>1. id \notin Mask
          BY <1>1, <2>1, <4>3
        <5>2. Wanted \subseteq Mask
          BY <1>5 DEF Wanted, Mask, InLoop
        <5> QED
          BY <2>1, <5>1, <5>2
      <4> QED
        BY <1>1, <1>2, <4>1, <4>2, <4>3
    <3> QED
      BY <1>5, <3>1, <3>2 DEF InLoop
  <2>3. WrongOne'
    BY <1>3, <1>4, <1>9, <2>1, <2>2 DEF WrongOne
  <2> QED
    BY <1>6, <2>3 DEF Fails
<1>10. CASE fw.pc # "wait"
  <2>1. Ahead /\ ~core.mstatus.mie /\ fw.pending = Left(fw.i)
    BY <1>5, <1>10 DEF InLoop, Ahead, Served, Quiet
  <2>2. kind = "mie" /\ ~Enabling /\ id = irq_id_ctrl /\ id \in core.mie
    BY <1>1, <1>2, <2>1 DEF irq_req_ctrl
  <2>3. fw.pc = "loop" /\ fw.i \in 1 .. IRQ_NUM + 1
    BY <1>5, <1>10, <2>2 DEF InLoop, Enabling
  <2>4. irq_local_qual # {}
    BY <1>1, <2>2 DEF irq_local_qual
  <2>5. PICK k \in 1 .. IRQ_NUM :
          /\ k >= fw.i /\ irq_id_ctrl = Prio(k) /\ Prio(k) \in Wanted
          /\ \A j \in fw.i .. k - 1 : Prio(j) \notin Wanted
    BY <1>3, <1>5, <1>8, <2>1, <2>4, NextTaken
  <2>6. fw.i \in 1 .. k
    BY <2>3, <2>5 DEF IRQ_NUM
  <2>7. MissedOne(k)'
    BY <1>3, <1>4, <1>7, <2>2, <2>3, <2>5, <2>6 DEF MissedOne
  <2> QED
    BY <1>6, <2>7 DEF Fails
<1> QED
  BY <1>9, <1>10

\* Then main ends with an error or not at all: the wrong interrupt is found by
\* the check of main.
LEMMA WrongOneStep ==
    ASSUME IrqTypeOK, fw.test \in {2, 3}, SoftwareDefined, gen.mode = "SD",
           WrongOne, IrqStep
    PROVE  Fails'
<1>1. fw.pc = "wait" /\ ~core.mstatus.mie /\ fw.i \in 1 .. IRQ_NUM
  BY DEF WrongOne
<1>2. ASSUME SoftwareDefined', gen'.mode = "SD", fw'.test = fw.test, WrongOne'
      PROVE  Fails'
  BY <1>2 DEF Fails
<1>3. CASE GenLines
  <2>1. SoftwareDefined' /\ fw' = fw /\ core' = core /\ gen'.mode = gen.mode
    BY <1>3, GenLinesFields
  <2>2. WrongOne'
    BY <2>1 DEF WrongOne
  <2> QED
    BY <1>2, <2>1, <2>2
<1>4. CASE GenRandom
  BY <1>4 DEF GenRandom
<1>5. CASE CoreIrq
  BY <1>1, <1>5 DEF CoreIrq, irq_req_ctrl
<1>6. CASE Mret
  <2>1. /\ core.handler.served /\ fw' = fw /\ gen' = gen
        /\ core'.handler = NoIrq /\ core'.mstatus.mie = core.mstatus.mpie
        /\ SoftwareDefined'
    BY <1>6, MretFields
  <2>2. ~core.mstatus.mpie /\ fw.id # Prio(fw.i)
    BY <2>1 DEF WrongOne, NoIrq
  <2>3. WrongOne'
    BY <1>1, <2>1, <2>2 DEF WrongOne
  <2> QED
    BY <1>2, <2>1, <2>3
<1>7. CASE Handler
  <2>1. /\ core.handler # NoIrq /\ ~core.handler.served /\ fw'.id = core.handler.id
        /\ fw'.i = fw.i /\ core'.handler.served /\ core'.mstatus.mie = core.mstatus.mie
        /\ ~core'.mstatus.mpie /\ gen'.mode = gen.mode /\ SoftwareDefined'
    BY <1>7, HandlerFields
  <2>2. fw'.pc = fw.pc /\ fw'.test = fw.test
    BY <1>7, HandlerKeepsMain
  <2>3. core.handler.id # Prio(fw.i)
    BY <2>1 DEF WrongOne
  <2>4. WrongOne'
    BY <1>1, <2>1, <2>2, <2>3 DEF WrongOne
  <2> QED
    BY <1>2, <2>1, <2>2, <2>4
<1>8. CASE Main
  <2>1. Check
    BY <1>1, <1>8 DEF Main, Test1, Test2, Test3, Sample, mstatus_enable, mstatus_disable,
                      LoopEnd, Test5, mat_mult, Result, At
  <2>2. core.handler = NoIrq
    BY <2>1 DEF Check, At
  <2>3. fw.id # Prio(fw.i)
    BY <2>2 DEF WrongOne, NoIrq
  <2>4. Return(fw.test)
    BY <2>1, <2>3 DEF Check, Prio
  <2>5. fw'.pc = "done" /\ fw'.status = fw.test
    BY <2>4 DEF Return, IrqTypeOK, FwFields
  <2> QED
    BY <2>5 DEF Fails
<1> QED
  BY <1>3, <1>4, <1>5, <1>6, <1>7, <1>8 DEF IrqStep

\* The word is zero and main waits for it to change.
LEMMA NothingLeftStep ==
    ASSUME IrqTypeOK, fw.test \in {2, 3}, SoftwareDefined, gen.mode = "SD",
           NothingLeft, IrqStep
    PROVE  Fails'
<1>1. fw.pc = "wait" /\ fw.pending = {} /\ fw.prev = {}
  BY DEF NothingLeft
<1>2. ASSUME SoftwareDefined', gen'.mode = "SD", fw'.test = fw.test, fw'.pc = fw.pc,
             fw'.pending = {}, fw'.prev = fw.prev
      PROVE  Fails'
  BY <1>1, <1>2 DEF Fails, NothingLeft
<1>3. CASE GenLines
  <2>1. SoftwareDefined' /\ fw' = fw /\ gen'.mode = gen.mode
    BY <1>3, GenLinesFields
  <2> QED
    BY <1>1, <1>2, <2>1
<1>4. CASE GenRandom
  BY <1>4 DEF GenRandom
<1>5. CASE CoreIrq
  <2>1. fw' = fw /\ gen' = gen /\ irq_local_qual # {} /\ TakeIrq(irq_id_ctrl)
    BY <1>5 DEF CoreIrq, irq_req_ctrl
  <2>2. core'.handler # NoIrq
    BY <2>1, TakenIsIrq, TakeIrqFields
  <2>3. SoftwareDefined'
    BY <2>1, <2>2 DEF SoftwareDefined
  <2> QED
    BY <1>1, <1>2, <2>1, <2>3
<1>6. CASE Mret
  <2>1. fw' = fw /\ gen' = gen /\ SoftwareDefined'
    BY <1>6, MretFields
  <2> QED
    BY <1>1, <1>2, <2>1
<1>7. CASE Handler
  <2>1. /\ fw'.pending = fw.pending \ {core.handler.id} /\ fw'.prev = fw.prev
        /\ gen'.mode = gen.mode /\ SoftwareDefined'
    BY <1>7, HandlerFields
  <2>2. fw'.pc = fw.pc /\ fw'.test = fw.test
    BY <1>7, HandlerKeepsMain
  <2> QED
    BY <1>1, <1>2, <2>1, <2>2
<1>8. CASE Main
  BY <1>1, <1>8 DEF Main, Test1, Test2, Test3, Sample, mstatus_enable, mstatus_disable,
                    Check, LoopEnd, Test5, mat_mult, Result, At
<1> QED
  BY <1>3, <1>4, <1>5, <1>6, <1>7, <1>8 DEF IrqStep

\* The m-th interrupt has been served before main waits for it.
LEMMA MissedOneStep ==
    ASSUME IrqTypeOK, fw.test \in {2, 3}, SoftwareDefined, gen.mode = "SD",
           NEW m \in 1 .. IRQ_NUM, MissedOne(m), IrqStep
    PROVE  Fails'
<1>1. /\ fw.i \in 1 .. m /\ Prio(m) \in Wanted
      /\ Prio(m) \notin fw.pending \ {core.handler.id}
      /\ \A j \in fw.i .. m - 1 : Prio(j) \notin Wanted
      /\ fw.pc \in {"loop", "enable", "enableW", "wait"}
      /\ fw.pc # "loop" =>
            fw.i = m /\ core.handler = NoIrq /\ fw.prev = fw.pending
      /\ fw.pc # "wait" => ~core.mstatus.mie
      /\ fw.pc = "loop" /\ core.handler.served =>
            ~core.mstatus.mpie /\ Prio(m) \notin fw.pending
  BY DEF MissedOne, Quiet
<1>2. Prio(m) # -1 /\ NoIrq.id = -1 /\ ~NoIrq.served
  <2>1. Prio(m) \in Irqs
    BY <1>1 DEF Wanted, IrqTypeOK
  <2> QED
    BY <2>1, PrioFacts DEF NoIrq
<1>3. ASSUME SoftwareDefined', gen'.mode = "SD", fw'.test = fw.test,
             fw'.toTest = fw.toTest, fw'.i \in fw.i .. m,
             Prio(m) \notin fw'.pending \ {core'.handler.id},
             \/ /\ fw'.pc = "loop" /\ ~core'.mstatus.mie
                /\ core'.handler.served =>
                      ~core'.mstatus.mpie /\ Prio(m) \notin fw'.pending
             \/ /\ fw'.pc \in {"enable", "enableW"} /\ fw'.i = m
                /\ core'.handler = NoIrq /\ ~core'.mstatus.mie
                /\ fw'.prev = fw'.pending
             \/ /\ fw'.pc = "wait" /\ fw'.i = m
                /\ core'.handler = NoIrq /\ fw'.prev = fw'.pending
      PROVE  Fails'
  <2>1. Wanted' = Wanted
    BY <1>3 DEF Wanted
  <2>2. /\ fw'.i \in 1 .. m /\ \A j \in fw'.i .. m - 1 : Prio(j) \notin Wanted
    BY <1>1, <1>3 DEF IRQ_NUM
  <2>3. MissedOne(m)'
    BY <1>1, <1>3, <2>1, <2>2 DEF MissedOne, Quiet
  <2> QED
    BY <1>3, <2>3 DEF Fails
<1>4. fw.i \in fw.i .. m
  BY <1>1 DEF IRQ_NUM
<1>5. CASE GenLines
  <2>1. SoftwareDefined' /\ fw' = fw /\ core' = core /\ gen'.mode = gen.mode
    BY <1>5, GenLinesFields
  <2> QED
    BY <1>1, <1>3, <1>4, <2>1
<1>6. CASE GenRandom
  BY <1>6 DEF GenRandom
<1>7. CASE CoreIrq
  <2>1. /\ core.handler = NoIrq /\ core.mstatus.mie /\ irq_local_qual # {}
        /\ TakeIrq(irq_id_ctrl) /\ fw' = fw /\ gen' = gen
    BY <1>7 DEF CoreIrq, irq_req_ctrl
  <2>2. fw.pc = "wait" /\ fw.i = m /\ fw.prev = fw.pending
    BY <1>1, <2>1
  <2>3. irq_id_ctrl \in gen.lines /\ irq_id_ctrl \in Irqs
    BY <2>1, TakenIsIrq DEF irq_local_qual
  <2>4. /\ core'.handler.id = irq_id_ctrl /\ ~core'.handler.served
        /\ core'.handler # NoIrq /\ ~core'.mstatus.mie
    BY <2>1, <2>3, TakeIrqFields
  <2>5. SoftwareDefined'
    BY <2>1, <2>4 DEF SoftwareDefined
  <2>6. CASE gen.word = {}
    <3>1. NothingLeft'
      BY <2>1, <2>2, <2>6 DEF NothingLeft, SoftwareDefined
    <3> QED
      BY <2>1, <2>5, <3>1 DEF Fails
  <2>7. CASE gen.word # {}
    <3>1. irq_id_ctrl \in fw.pending
      BY <2>1, <2>3, <2>7 DEF SoftwareDefined
    <3>2. irq_id_ctrl # -1
      BY <2>3, PrioFacts
    <3>3. irq_id_ctrl # Prio(fw.i)
      BY <1>1, <1>2, <2>1, <2>2, <3>1, <3>2
    <3>4. WrongOne'
      BY <2>1, <2>2, <2>4, <3>3 DEF WrongOne
    <3> QED
      BY <2>1, <2>5, <3>4 DEF Fails
  <2> QED
    BY <2>6, <2>7
<1>8. CASE Mret
  <2>1. /\ core.handler.served /\ fw' = fw /\ gen' = gen
        /\ core'.handler = NoIrq /\ core'.mstatus.mie = core.mstatus.mpie
        /\ SoftwareDefined'
    BY <1>8, MretFields
  <2>2. fw.pc = "loop" /\ ~core.mstatus.mpie /\ Prio(m) \notin fw.pending
    BY <1>1, <1>2, <2>1
  <2> QED
    BY <1>2, <1>3, <1>4, <2>1, <2>2
<1>9. CASE Handler
  <2>1. /\ core.handler # NoIrq /\ fw'.pending = fw.pending \ {core.handler.id}
        /\ fw'.i = fw.i /\ fw'.toTest = fw.toTest
        /\ core'.mstatus.mie = core.mstatus.mie /\ ~core'.mstatus.mpie
        /\ gen'.mode = gen.mode /\ SoftwareDefined'
    BY <1>9, HandlerFields
  <2>2. fw'.pc = fw.pc /\ fw'.test = fw.test
    BY <1>9, HandlerKeepsMain
  <2>3. fw.pc = "loop" /\ Prio(m) \notin fw'.pending
    BY <1>1, <2>1
  <2> QED
    BY <1>1, <1>3, <1>4, <2>1, <2>2, <2>3
<1>10. CASE Main /\ Sample
  <2>1. /\ fw.pc = "loop" /\ core' = core /\ gen' = gen /\ core.handler = NoIrq
        /\ ~core.mstatus.mie
    BY <1>1, <1>10 DEF Sample, At
  <2>2. Awaited <=> Prio(fw.i) \in Wanted
    BY DEF Awaited, Wanted, Prio
  <2>3. CASE Prio(fw.i) \in Wanted
    <3>1. /\ fw'.pc = "enable" /\ fw'.prev = fw.pending /\ fw'.pending = fw.pending
          /\ fw'.test = fw.test /\ fw'.toTest = fw.toTest /\ fw'.i = fw.i
          /\ fw'.mode = fw.mode
      BY <1>10, <2>2, <2>3 DEF Sample, IrqTypeOK, FwFields
    <3>2. fw.i = m
      <4>1. ~(fw.i \in fw.i .. m - 1)
        BY <1>1, <2>3
      <4> QED
        BY <1>1, <4>1 DEF IRQ_NUM
    <3>3. SoftwareDefined'
      BY <2>1, <3>1 DEF SoftwareDefined
    <3> QED
      BY <1>1, <1>3, <1>4, <2>1, <3>1, <3>2, <3>3
  <2>4. CASE Prio(fw.i) \notin Wanted
    <3>1. /\ fw'.pc = "loop" /\ fw'.pending = fw.pending
          /\ fw'.test = fw.test /\ fw'.toTest = fw.toTest /\ fw'.i = fw.i + 1
          /\ fw'.mode = fw.mode
      BY <1>10, <2>1, <2>2, <2>4 DEF Sample, IrqTypeOK, FwFields
    <3>2. fw.i # m
      BY <1>1, <2>4
    <3>3. fw.i + 1 \in fw.i .. m
      BY <1>1, <3>2 DEF IRQ_NUM
    <3>4. SoftwareDefined'
      BY <2>1, <3>1 DEF SoftwareDefined
    <3> QED
      BY <1>1, <1>2, <1>3, <2>1, <3>1, <3>3, <3>4
  <2> QED
    BY <2>3, <2>4
<1>11. CASE Main /\ mstatus_enable
  <2>1. CASE fw.pc = "enable"
    <3>1. /\ core' = core /\ gen' = gen
          /\ fw' = [fw EXCEPT !.mmstatus = [core.mstatus EXCEPT !.mie = TRUE],
                              !.pc = "enableW"]
      BY <1>11, <2>1 DEF mstatus_enable, At
    <3>2. /\ fw'.pc = "enableW" /\ fw'.prev = fw.prev /\ fw'.pending = fw.pending
          /\ fw'.test = fw.test /\ fw'.toTest = fw.toTest /\ fw'.i = fw.i
          /\ fw'.mode = fw.mode
      BY <3>1 DEF IrqTypeOK, FwFields
    <3>3. SoftwareDefined'
      BY <3>1, <3>2 DEF SoftwareDefined
    <3> QED
      BY <1>1, <1>3, <1>4, <2>1, <3>1, <3>2, <3>3
  <2>2. CASE fw.pc = "enableW"
    <3>1. /\ core' = [core EXCEPT !.mstatus = fw.mmstatus] /\ gen' = gen
          /\ fw' = [fw EXCEPT !.pc = "wait"]
      BY <1>11, <2>2 DEF mstatus_enable, At
    <3>2. /\ fw'.pc = "wait" /\ fw'.prev = fw.prev /\ fw'.pending = fw.pending
          /\ fw'.test = fw.test /\ fw'.toTest = fw.toTest /\ fw'.i = fw.i
          /\ fw'.mode = fw.mode
      BY <3>1 DEF IrqTypeOK, FwFields
    <3>3. core'.handler = core.handler
      BY <3>1 DEF IrqTypeOK
    <3>4. SoftwareDefined'
      BY <3>1, <3>2, <3>3 DEF SoftwareDefined
    <3> QED
      BY <1>1, <1>3, <1>4, <2>2, <3>1, <3>2, <3>3, <3>4
  <2> QED
    BY <1>11, <2>1, <2>2 DEF mstatus_enable, At
<1>12. CASE Main /\ ~Sample /\ ~mstatus_enable
  <2>1. Check \/ LoopEnd
    BY <1>1, <1>12 DEF Main, Test1, Test2, Test3, mstatus_disable, Test5, mat_mult,
                       Result, At
  <2>2. ~Check
    BY <1>1 DEF Check, At
  <2>3. ~LoopEnd
    BY <1>1 DEF LoopEnd, IRQ_NUM
  <2> QED
    BY <2>1, <2>2, <2>3
<1> QED
  BY <1>5, <1>6, <1>7, <1>8, <1>9, <1>10, <1>11, <1>12 DEF IrqStep

\* Once an interrupt out of turn has been taken, 0 is out of main's reach.
LEMMA FailsStep ==
    ASSUME IrqTypeOK, Fails, IrqStep
    PROVE  Fails'
<1>1. CASE fw.pc = "done" /\ fw.status # 0
  <2>1. CASE GenLines \/ GenRandom \/ CoreIrq \/ Mret
    <3>1. fw' = fw
      BY <2>1 DEF GenLines, GenRandom, CoreIrq, Mret
    <3> QED
      BY <1>1, <3>1 DEF Fails
  <2>2. CASE Handler
    BY <1>1, <2>2, HandlerKeepsMain DEF Fails
  <2>3. CASE Main
    BY <1>1, <2>3 DEF Main, Test1, Test2, Test3, Sample, mstatus_enable, mstatus_disable,
                      Check, LoopEnd, Test5, mat_mult, Result, At
  <2> QED
    BY <2>1, <2>2, <2>3 DEF IrqStep
<1>2. CASE /\ fw.test \in {2, 3} /\ SoftwareDefined /\ gen.mode = "SD"
           /\ WrongOne \/ NothingLeft \/ \E m \in 1 .. IRQ_NUM : MissedOne(m)
  BY <1>2, WrongOneStep, NothingLeftStep, MissedOneStep
<1> QED
  BY <1>1, <1>2 DEF Fails

\* The invariant of the interrupt test.
THEOREM IrqInvariant == IrqSpec => []IrqInv
<1>1. IrqInit => IrqInv
  <2> SUFFICES ASSUME IrqInit PROVE IrqInv
    OBVIOUS
  <2> USE DEF IrqInit
  <2>1. /\ DOMAIN fw = FwFields
        /\ fw.test = 1 /\ fw.i = 1 /\ fw.row = 0 /\ fw.pending = {} /\ fw.first = {}
        /\ fw.ie = {} /\ fw.toTest = {} /\ fw.mode = "off" /\ fw.pc = "test1"
        /\ fw.mmstatus = [mie |-> FALSE, mpie |-> FALSE]
    BY DEF FwFields
  <2>2. IrqTypeOK
    BY <2>1, IrqAssumption DEF IrqTypeOK, NoIrq
  <2>3. SoftwareDefined /\ Started
    BY <2>1 DEF SoftwareDefined, Started, Quiet
  <2>4. fault.kind = "none" /\ ~fault.due
    OBVIOUS
  <2> QED
    BY <2>1, <2>2, <2>3, <2>4 DEF IrqInv, Behaves
<1>2. IrqInv /\ [IrqStep \/ CoreFault]_irqVars => IrqInv'
  <2> SUFFICES ASSUME IrqInv, [IrqStep \/ CoreFault]_irqVars PROVE IrqInv'
    OBVIOUS
  <2>1. IrqTypeOK /\ IrqTypeOK'
    BY IrqTypesStep DEF IrqInv
  <2>2. CASE IrqStep
    <3>1. fault' = fault
      BY <2>2 DEF IrqStep, GenLines, GenRandom, CoreIrq, Mret, Handler, Main
    <3>2. ASSUME fault.kind = "none" PROVE Behaves'
      <4>1. Behaves
        BY <3>2 DEF IrqInv
      <4> QED
        BY <2>1, <2>2, <4>1, StartStep, LoopStep, LastStep DEF Behaves
    <3>3. ASSUME fault.due, fault.test \in {2, 3} PROVE Fails'
      BY <2>1, <2>2, <3>3, FailsStep DEF IrqInv
    <3> QED
      BY <2>1, <3>1, <3>2, <3>3 DEF IrqInv
  <2>3. CASE CoreFault
    <3>1. fault'.kind # "none" /\ Behaves
      BY <2>3, IrqAssumption DEF CoreFault, IrqInv
    <3>2. ASSUME fault'.due, fault'.test \in {2, 3} PROVE Fails'
      BY <2>1, <2>3, <3>1, <3>2, FaultStep
    <3> QED
      BY <2>1, <3>1, <3>2 DEF IrqInv
  <2>4. CASE UNCHANGED irqVars
    BY <2>4 DEF IrqInv, irqVars, IrqTypeOK, Behaves, Fails, SoftwareDefined, Started, Between,
                InLoop, Ahead, Served, Quiet, LastTest, Left, Wanted, Raised, Mask,
                WrongOne, NothingLeft, MissedOne
  <2> QED
    BY <2>2, <2>3, <2>4
<1> QED
  BY <1>1, <1>2, PTL DEF IrqSpec

\* The exit status of the interrupt test is the truth about the core, for every
\* set of implemented interrupts, every word and mask that main draws, and
\* however the interrupts come between its instructions: main ends with 0 when
\* the core takes the interrupts by its priority and its masks, and never when
\* it took a pending one out of turn in TEST 2 or TEST 3.
THEOREM VerdictIsTrue == IrqSpec => []IrqVerdict
<1>1. IrqInv => IrqVerdict
  BY DEF IrqInv, IrqVerdict, Behaves, Fails, SoftwareDefined, Started, Between, InLoop,
         LastTest, WrongOne, NothingLeft, MissedOne
<1> QED
  BY <1>1, IrqInvariant, PTL
=============================================================================
