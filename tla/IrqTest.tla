------------------------------ MODULE IrqTest ------------------------------
(***************************************************************************)
(* The interrupt test of the core (example_tb/core/interrupt/interrupt.c)  *)
(* with what it drives: the interrupt generator of the test memory and the *)
(* interrupt controller and status register of the core.  An interrupt     *)
(* word is the set of its bits.  The handler clears MPIE, so that one      *)
(* write of mstatus.MIE lets the core take one interrupt.                  *)
(* The core may once take an interrupt it should not take.                 *)
(***************************************************************************)
EXTENDS Integers, Sequences, FiniteSets, FiniteSetsExt

CONSTANTS Irqs,        \* implemented interrupts of the instance
          Reserved,    \* bits of the word that no interrupt uses
          Rows,        \* MAT_DIM
          MaxBombs,    \* random interrupt words during the multiplication
          CoreFaults   \* wrong behaviours of the core: order, mask, mie

FAST == [n \in 0 .. 15 |-> 16 + n]
SOFTWARE_IRQ_ID == 3
TIMER_IRQ_ID    == 7
EXTERNAL_IRQ_ID == 11

IRQ_NUM == 19

\* The order in which the test expects the interrupts.
IRQ_ID_PRIORITY == [i \in 1 .. 16 |-> FAST[16 - i]]
                   \o <<EXTERNAL_IRQ_ID, SOFTWARE_IRQ_ID, TIMER_IRQ_ID>>

STD_IRQ_MASK == {SOFTWARE_IRQ_ID, TIMER_IRQ_ID, EXTERNAL_IRQ_ID} \cup {FAST[n] : n \in 0 .. 15}

ASSUME IrqAssumption ==
    /\ Irqs \subseteq STD_IRQ_MASK
    /\ Reserved \subseteq (0 .. 31) \ STD_IRQ_MASK /\ Reserved # {}
    /\ Rows \in Nat /\ MaxBombs \in Nat /\ CoreFaults \subseteq {"order", "mask", "mie"}

VARIABLES fw,      \* globals of the program, and where main is
          core,    \* mstatus, mie, and the handler that runs
          gen,     \* registers of the generator and the interrupt lines
          fault    \* the interrupt that the core should not have taken

irqVars == <<fw, core, gen, fault>>
NoIrq == [id |-> -1, served |-> FALSE]

IrqInit ==
    /\ fw = [pc |-> "test1", test |-> 1, i |-> 1, row |-> 0, status |-> -1,
             pending |-> {}, prev |-> {}, first |-> {}, ie |-> {}, toTest |-> {},
             id |-> 0, mode |-> "off", mmstatus |-> [mie |-> FALSE, mpie |-> FALSE]]
    /\ core = [mstatus |-> [mie |-> FALSE, mpie |-> FALSE], mie |-> {}, handler |-> NoIrq]
    /\ gen = [mode |-> "off", word |-> {}, sd |-> {}, rnd |-> {}, lines |-> {},
              left |-> MaxBombs]
    /\ fault = [kind |-> "none", test |-> 0, due |-> FALSE]

(***************************************************************************)
(* cv32e40p_random_interrupt_generator: the lines follow the registers a   *)
(* few cycles later.  The software-defined word is sampled in every cycle  *)
(* until it has been sampled zero; in another mode it reaches no line.     *)
(***************************************************************************)
SdLines == IF gen.mode = "SD" THEN gen.word \cap Irqs ELSE gen.sd
Lines   == CASE gen.mode = "SD"  -> SdLines
             [] gen.mode = "RND" -> gen.rnd
             [] OTHER -> {}

Settled == gen.sd = SdLines /\ gen.lines = Lines

GenLines ==
    /\ ~Settled
    /\ gen' = [gen EXCEPT !.sd = SdLines, !.lines = Lines]
    /\ UNCHANGED <<fw, core, fault>>

\* Random mode: a word that is not zero, after a random time.
GenRandom ==
    /\ gen.mode = "RND" /\ gen.rnd = {} /\ gen.left > 0
    /\ \E w \in (SUBSET Irqs) \ {{}} : gen' = [gen EXCEPT !.rnd = w, !.left = @ - 1]
    /\ UNCHANGED <<fw, core, fault>>

(***************************************************************************)
(* The core: interrupt controller, entry and mret.                         *)
(***************************************************************************)
irq_local_qual == gen.lines \cap core.mie
irq_req_ctrl   == irq_local_qual # {} /\ core.mstatus.mie

irq_id_ctrl == IF \E id \in irq_local_qual : id >= 12 THEN Max(irq_local_qual)
               ELSE IF 11 \in irq_local_qual THEN 11
               ELSE IF 3 \in irq_local_qual THEN 3 ELSE 7

TakeIrq(id) ==
    core' = [core EXCEPT !.handler = [id |-> id, served |-> FALSE],
                         !.mstatus = [mie |-> FALSE, mpie |-> core.mstatus.mie]]

CoreIrq ==
    /\ core.handler = NoIrq /\ irq_req_ctrl
    /\ TakeIrq(irq_id_ctrl)
    /\ UNCHANGED <<fw, gen, fault>>

\* main is about to enable the interrupts: it cannot tell one that comes now
\* from one that comes just after.
Enabling == fw.pc \in {"enable", "enableW"}

\* Once: a wrong order, a masked interrupt, or one with interrupts disabled.
CoreFault ==
    /\ core.handler = NoIrq /\ fault.kind = "none"
    /\ \E kind \in CoreFaults, id \in gen.lines :
          /\ kind = "order" => irq_req_ctrl /\ id \in core.mie /\ id # irq_id_ctrl
          /\ kind = "mask" => core.mstatus.mie /\ id \notin core.mie
          /\ kind = "mie" => ~core.mstatus.mie /\ id \in core.mie /\ id = irq_id_ctrl
          /\ TakeIrq(id)
          /\ fault' = [kind |-> kind, test |-> fw.test,
                       due |-> id \in fw.pending /\ (kind = "mie" => ~Enabling)]
    /\ UNCHANGED <<fw, gen>>

\* The lines have followed the handler's write when its last instruction is
\* reached: it restores the registers first.
Mret ==
    /\ core.handler.served /\ Settled
    /\ core' = [core EXCEPT !.handler = NoIrq,
                            !.mstatus = [mie |-> core.mstatus.mpie, mpie |-> TRUE]]
    /\ UNCHANGED <<fw, gen, fault>>

(***************************************************************************)
(* The handlers.                                                           *)
(***************************************************************************)
\* Mutant: MPIE is left set, so mret enables the interrupts again.
FAST_IRQ_GENERICKeepsMpie(id) ==
    /\ fw' = [fw EXCEPT !.id = id, !.pending = @ \ {id}]
    /\ gen' = [gen EXCEPT !.word = fw.pending \ {id}]
    /\ core' = [core EXCEPT !.handler.served = TRUE]

\* In random mode the word is read from mip, and the generator is put in
\* standard mode and back, which clears its word.
FAST_IRQ_GENERIC(id) ==
    LET rnd  == fw.mode = "RND"
        left == (IF rnd THEN gen.lines ELSE fw.pending) \ {id}
        off  == [core.mstatus EXCEPT !.mpie = FALSE]
    IN  /\ fw' = [fw EXCEPT !.id = id, !.pending = left,
                            !.mmstatus = IF rnd THEN @ ELSE off]
        /\ gen' = [gen EXCEPT !.word = left, !.rnd = IF rnd THEN {} ELSE @]
        /\ core' = [core EXCEPT !.handler.served = TRUE,
                                !.mstatus = IF rnd THEN @ ELSE off]

Handler == /\ core.handler.id \in Irqs /\ ~core.handler.served
           /\ FAST_IRQ_GENERIC(core.handler.id)
           /\ UNCHANGED fault

(***************************************************************************)
(* main: it runs when no handler does.  TEST 1 to TEST 5; the program has  *)
(* no TEST 4.                                                              *)
(***************************************************************************)
At(label) == core.handler = NoIrq /\ fw.pc = label

Test1 ==
    /\ At("test1")
    /\ core' = [core EXCEPT !.mie = Irqs, !.mstatus.mie = FALSE]
    /\ gen' = [gen EXCEPT !.mode = "SD"]
    /\ fw' = [fw EXCEPT !.pc = "test2"]

\* All interrupts at once.
Test2 ==
    /\ At("test2")
    /\ core' = [core EXCEPT !.mie = Irqs, !.mstatus.mie = FALSE]
    /\ gen' = [gen EXCEPT !.word = Irqs \cup Reserved]
    /\ fw' = [fw EXCEPT !.pc = "loop", !.test = 2, !.i = 1, !.pending = Irqs \cup Reserved]

\* Mutant: the masked interrupts are expected too.
ToTestUnmasked(first, ie) == first

ToTest(first, ie) == first \cap ie

\* 50 calls of random_num set one bit each: any word, masked to the implemented.
RandomWords == SUBSET Irqs

\* A random mask and a random word.
Test3 ==
    /\ At("test3")
    /\ \E ie, first \in RandomWords :
          /\ core' = [core EXCEPT !.mie = ie, !.mstatus.mie = FALSE]
          /\ gen' = [gen EXCEPT !.word = first]
          /\ fw' = [fw EXCEPT !.pc = "loop", !.test = 3, !.i = 1, !.id = 0, !.ie = ie,
                              !.pending = first, !.first = first,
                              !.toTest = ToTest(first, ie)]

Return(code) == fw' = [fw EXCEPT !.pc = "done", !.status = code] /\ UNCHANGED <<core, gen>>

\* TEST 2 expects all interrupts (of the instance), TEST 3 those it can tell.
Awaited == IRQ_ID_PRIORITY[fw.i] \in (IF fw.test = 2 THEN Irqs ELSE fw.toTest)

\* One iteration: sample the word, enable, spin until it changes, check.
Sample ==
    /\ At("loop") /\ fw.i <= IRQ_NUM
    /\ fw' = IF Awaited THEN [fw EXCEPT !.prev = fw.pending, !.pc = "enable"]
             ELSE [fw EXCEPT !.i = @ + 1]
    /\ UNCHANGED <<core, gen>>

\* csrr and or, then csrw: an interrupt may come in between.
mstatus_enable ==
    \/ /\ At("enable")
       /\ fw' = [fw EXCEPT !.mmstatus = [core.mstatus EXCEPT !.mie = TRUE], !.pc = "enableW"]
       /\ UNCHANGED <<core, gen>>
    \/ /\ At("enableW")
       /\ core' = [core EXCEPT !.mstatus = fw.mmstatus]
       /\ fw' = [fw EXCEPT !.pc = IF fw.test = 5 THEN "mult" ELSE "wait"]
       /\ UNCHANGED gen

mstatus_disable ==
    \/ /\ At("disable")
       /\ fw' = [fw EXCEPT !.mmstatus = [core.mstatus EXCEPT !.mie = FALSE], !.pc = "disableW"]
       /\ UNCHANGED <<core, gen>>
    \/ /\ At("disableW")
       /\ core' = [core EXCEPT !.mstatus = fw.mmstatus]
       /\ fw' = [fw EXCEPT !.pc = "result"]
       /\ UNCHANGED gen

Check ==
    /\ At("wait") /\ fw.prev # fw.pending
    /\ IF fw.id # IRQ_ID_PRIORITY[fw.i] THEN Return(fw.test)
       ELSE fw' = [fw EXCEPT !.i = @ + 1, !.pc = "loop"] /\ UNCHANGED <<core, gen>>

LoopEnd ==
    /\ At("loop") /\ fw.i > IRQ_NUM
    /\ IF fw.test = 2 THEN fw' = [fw EXCEPT !.pc = "test3"] /\ UNCHANGED <<core, gen>>
       ELSE IF fw.pending # fw.first \ fw.ie THEN Return(3)
       ELSE /\ fw' = [fw EXCEPT !.pc = "test5", !.test = 5, !.first = {}, !.ie = {},
                                !.toTest = {}, !.prev = {}]   \* not read any more
            /\ UNCHANGED <<core, gen>>

\* Random interrupts while a matrix is multiplied.
Test5 ==
    /\ At("test5")
    /\ core' = [core EXCEPT !.mie = Irqs, !.mstatus.mie = FALSE]
    /\ gen' = [gen EXCEPT !.mode = "RND"]
    /\ fw' = [fw EXCEPT !.mode = "RND", !.pc = "enable"]

mat_mult ==
    /\ At("mult")
    /\ fw' = IF fw.row < Rows THEN [fw EXCEPT !.row = @ + 1] ELSE [fw EXCEPT !.pc = "disable"]
    /\ UNCHANGED <<core, gen>>

Result == At("result") /\ Return(IF fw.row = Rows THEN 0 ELSE 5)

Main == (\/ Test1 \/ Test2 \/ Test3 \/ Sample \/ mstatus_enable \/ Check \/ LoopEnd
         \/ Test5 \/ mat_mult \/ mstatus_disable \/ Result) /\ UNCHANGED fault

IrqStep == GenLines \/ GenRandom \/ CoreIrq \/ Mret \/ Handler \/ Main

IrqSpec == IrqInit /\ [][IrqStep \/ CoreFault]_irqVars
-----------------------------------------------------------------------------
\* The exit status is the truth about the core: a core that takes interrupts
\* by priority and by its masks gets 0, and one that took a pending interrupt
\* out of turn in TEST 2 or 3 never does, wherever in main, in the
\* spin loops or in the update of mstatus, the interrupts arrive.
IrqVerdict ==
    fw.pc = "done" =>
        /\ fault.kind = "none" => fw.status = 0
        /\ fault.due /\ fault.test \in {2, 3} => fw.status # 0
=============================================================================
