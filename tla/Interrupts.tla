----------------------------- MODULE Interrupts -----------------------------
(***************************************************************************)
(* mos_default_IRQ1V, which serves one source of the System VIA in every   *)
(* interrupt, and what it shares with the program: the clock (module       *)
(* Clock), and the video ULA, whose control register the frame interrupt   *)
(* rewrites to flash colours while the program sets it through vidula_set. *)
(*                                                                         *)
(* A handler is two steps, since a source may pulse again in between: what *)
(* is done before the flag is cleared, and what is done after.  Of the     *)
(* program this module has the calls that touch what the interrupt         *)
(* touches.  They mask it, and put back the mask they found.               *)
(***************************************************************************)
EXTENDS Clock, Sequences

CONSTANTS
  Pulsing,       \* the sources of the VIA that pulse
  MARK, SPC,     \* OSB_FLASH_MARK, OSB_FLASH_SPC: frames of the two phases
  PALWRITES      \* palette writes of one VDU 19

ASSUME PulsingAssumption == Pulsing \subseteq {"CA1", "T2", "T1", "CB1", "CA2"}
ASSUME FlashAssumption == MARK \in Nat \ {0} /\ SPC \in Nat \ {0}
ASSUME PalWritesAssumption == PALWRITES \in Nat \ {0}

VARIABLES
  ifr, ier,      \* flag and enable register of the System VIA
  serving,       \* the source whose handler runs
  ctl,           \* OSB_VIDPROC_CTL: the bit that tells the phases apart
  hw,            \* sheila_VIDULA_CTL
  flash,         \* OSB_FLASH_TIME
  main,          \* the program's call: pc, the value it sets, palette writes left
  masked,        \* INT_IRQ is masked
  saved,         \* the masks that calls in progress have found
  owed,          \* history: centiseconds pulsed and not yet counted
  frames         \* history: frames served since the register was last written

ivars == <<ifr, ier, serving, ctl, hw, flash, main, masked, saved, owed, frames>>
via == <<ifr, ier, serving, owed>>
ula == <<ctl, hw, flash, frames>>
mask == <<masked, saved>>

NotMain == [pc |-> "idle", n |-> 0, left |-> 0]

(* mos_reset: VDU initialised, CB1 not enabled, the mask released.         *)
IInit ==
  /\ Init
  /\ ifr = {} /\ ier = {"T1", "T2", "CA1", "CA2"} /\ serving = "none"
  /\ ctl = 0 /\ hw = 0 /\ flash = MARK
  /\ main = NotMain /\ masked = FALSE /\ saved = <<>>
  /\ owed = 0 /\ frames = 0

-----------------------------------------------------------------------------
(* The System VIA.                                                         *)

(* A pulse sets the flag.  Bound: while an OSWORD copies the clock only T1 *)
(* pulses, since no other source touches the clock.                        *)
Pulse(s) ==
  /\ call.pc # "idle" => s = "T1" /\ ticks + owed < MaxTicks
  /\ ifr' = ifr \cup {s}
  /\ owed' = IF s # "T1" \/ owed > (IF serving = "T1" THEN 1 ELSE 0) THEN owed ELSE owed + 1
  /\ UNCHANGED <<ier, serving>> /\ UNCHANGED <<vars, ula, main, mask>>

Pending == ifr \cap ier

(* The if chain of the handler, and the sources it tests before s.         *)
Before(s) == CASE s = "CA1" -> {} [] s = "T2" -> {"CA1"} [] s = "T1" -> {"CA1", "T2"}
               [] s = "CB1" -> {"CA1", "T2", "T1"} [] s = "CA2" -> {"CA1", "T2", "T1", "CB1"}

(* Mutant: the flag of every source is cleared at the end of its handler.  *)
Bug_ClearedFirst == {}

(* The sources whose flag is cleared before the work is done.              *)
ClearedFirst == {"T1", "CB1", "CA2"}

(* The interrupt is taken for one source.                                  *)
Enter(s) ==
  /\ ~masked /\ serving = "none"
  /\ s \in Pending /\ Pending \cap Before(s) = {}
  /\ serving' = s
  /\ ifr' = IF s \in ClearedFirst THEN ifr \ {s} ELSE ifr
  /\ UNCHANGED <<ier, owed>> /\ UNCHANGED <<vars, ula, main, mask>>

(* Mutant: vidula_set leaves the time alone, and so does the handler.      *)
Bug_FlashOnce ==
  IF flash = 1
    THEN /\ ctl' = 1 - ctl /\ hw' = 1 - ctl
         /\ flash' = 0
         /\ frames' = 0
    ELSE /\ flash' = IF flash = 0 THEN 0 ELSE flash - 1
         /\ frames' = IF flash = 0 THEN 0 ELSE frames + 1
         /\ UNCHANGED <<ctl, hw>>

(* The frame interrupt's countdown.  At its end the handler loads the time *)
(* of the next phase, MARK or SPC by the phase, and then calls vidula_set, *)
(* whose store of MARK undoes the choice: nothing ever counts SPC down.    *)
Flash ==
  IF flash = 1
    THEN /\ ctl' = 1 - ctl /\ hw' = 1 - ctl
         /\ flash' = MARK
         /\ frames' = 0
    ELSE /\ flash' = IF flash = 0 THEN 0 ELSE flash - 1
         /\ frames' = frames + 1
         /\ UNCHANGED <<ctl, hw>>

(* CA1, frame sync: its flag is cleared last.                              *)
LeaveFrame ==
  /\ serving = "CA1" /\ serving' = "none"
  /\ Flash
  /\ ifr' = ifr \ {"CA1"}
  /\ UNCHANGED <<ier, owed>> /\ UNCHANGED <<vars, main, mask>>

(* T1, the centisecond.  The poll of the keyboard that follows the clock   *)
(* enables CA2 again when it finds no key down.                            *)
LeaveTick ==
  /\ serving = "T1" /\ serving' = "none"
  /\ Tick
  /\ owed' = owed - 1
  /\ ier' \in {ier, ier \cup {"CA2"}}
  /\ ifr' = IF "T1" \in ClearedFirst THEN ifr ELSE ifr \ {"T1"}
  /\ UNCHANGED <<ula, main, mask>>

(* CA2, a key: the handler of the keyboard disables the source.            *)
LeaveKey ==
  /\ serving = "CA2" /\ serving' = "none"
  /\ ier' = ier \ {"CA2"}
  /\ UNCHANGED <<ifr, owed>> /\ UNCHANGED <<vars, ula, main, mask>>

(* T2, whose flag is cleared, and CB1.                                     *)
LeaveOther ==
  /\ serving \in {"T2", "CB1"} /\ serving' = "none"
  /\ ifr' = ifr \ ({"T2"} \cap {serving})
  /\ UNCHANGED <<ier, owed>> /\ UNCHANGED <<vars, ula, main, mask>>

-----------------------------------------------------------------------------
(* The program.  interrupts_disable returns the mask it replaces.          *)

Mask == masked' = TRUE /\ saved' = Append(saved, masked)

(* Mutant: the mask is released rather than put back.                      *)
Bug_Unmask == masked' = FALSE /\ saved' = SubSeq(saved, 1, Len(saved) - 1)

Unmask == masked' = saved[Len(saved)] /\ saved' = SubSeq(saved, 1, Len(saved) - 1)

Running(p) == serving = "none" /\ main.pc = p /\ call.pc = "idle"

(* vidula_set, from vdu_mode or OSBYTE 154.                                *)

(* Mutant: the interrupt is not masked.                                    *)
Bug_SetBegin(n) ==
  /\ Running("idle")
  /\ saved' = Append(saved, masked) /\ UNCHANGED masked
  /\ main' = [pc |-> "copy", n |-> n, left |-> 0]
  /\ UNCHANGED <<vars, via, ula>>

SetBegin(n) ==
  /\ Running("idle")
  /\ Mask
  /\ main' = [pc |-> "copy", n |-> n, left |-> 0]
  /\ UNCHANGED <<vars, via, ula>>

SetCopy ==
  /\ Running("copy")
  /\ ctl' = main.n
  /\ main' = [main EXCEPT !.pc = "register"]
  /\ UNCHANGED <<hw, flash, frames>> /\ UNCHANGED <<vars, via, mask>>

SetRegister ==
  /\ Running("register")
  /\ hw' = main.n /\ frames' = 0
  /\ main' = [main EXCEPT !.pc = "time"]
  /\ UNCHANGED <<ctl, flash>> /\ UNCHANGED <<vars, via, mask>>

(* Mutant: the countdown of the phase that was cut short goes on.          *)
Bug_SetTime ==
  /\ Running("time")
  /\ Unmask
  /\ main' = NotMain
  /\ UNCHANGED <<vars, via, ula>>

SetTime ==
  /\ Running("time")
  /\ flash' = MARK
  /\ Unmask
  /\ main' = NotMain
  /\ UNCHANGED <<ctl, hw, frames>> /\ UNCHANGED <<vars, via>>

(* VDU 19 masks the interrupt around pal_write, whose _LEA11_write_pal     *)
(* masks it around every write once more.                                  *)
ColourBegin ==
  /\ Running("idle")
  /\ Mask
  /\ main' = [pc |-> "colour", n |-> 0, left |-> PALWRITES]
  /\ UNCHANGED <<vars, via, ula>>

(* Mutant: the loop is left one write late.                                *)
Bug_PalBegin ==
  /\ Running("colour") /\ main.left >= 0
  /\ Mask
  /\ main' = [main EXCEPT !.pc = "palette", !.left = @ - 1]
  /\ UNCHANGED <<vars, via, ula>>

PalBegin ==
  /\ Running("colour") /\ main.left > 0
  /\ Mask
  /\ main' = [main EXCEPT !.pc = "palette", !.left = @ - 1]
  /\ UNCHANGED <<vars, via, ula>>

PalEnd ==
  /\ Running("palette")
  /\ Unmask
  /\ main' = [main EXCEPT !.pc = "colour"]
  /\ UNCHANGED <<vars, via, ula>>

ColourEnd ==
  /\ Running("colour") /\ main.left = 0
  /\ Unmask
  /\ main' = NotMain
  /\ UNCHANGED <<vars, via, ula>>

(* OSWORD 1 and 2, with the interrupt enabled.                             *)
ClockCall ==
  /\ main.pc = "idle" /\ serving = "none"
  /\ \/ ReadBegin \/ ReadByte \/ ReadEnd
     \/ \E v \in WriteValues : WriteBegin(v)
     \/ WriteByte \/ WriteEnd
  /\ UNCHANGED ivars

ProgramStep == SetCopy \/ SetRegister \/ SetTime \/ PalBegin \/ PalEnd \/ ColourEnd

INext ==
  \/ \E s \in Pulsing : Pulse(s) \/ Enter(s)
  \/ LeaveFrame \/ LeaveTick \/ LeaveKey \/ LeaveOther
  \/ \E n \in {0, 1} : SetBegin(n)
  \/ ColourBegin
  \/ ProgramStep
  \/ ClockCall

allvars == <<vars, ivars>>

(* The frame sync keeps pulsing, whatever the program does: strong, since  *)
(* the model lets it rest during a call of the clock.  A pending interrupt *)
(* is taken before long if it is not masked for good: strong, since the    *)
(* processor looks after every instruction and calls mask it in between.   *)
(* Handlers and calls return.                                              *)
Fairness ==
  /\ SF_allvars(Pulse("CA1"))
  /\ SF_allvars(\E s \in Pulsing : Enter(s))
  /\ WF_allvars(LeaveFrame \/ LeaveTick \/ LeaveKey \/ LeaveOther)
  /\ WF_allvars(ProgramStep)
  /\ WF_allvars(call.pc # "idle" /\ ClockCall)

ISpec == IInit /\ [][INext]_allvars /\ Fairness

-----------------------------------------------------------------------------
(* Properties.                                                             *)

(* Every variable has its type, and no more masks are saved than calls can *)
(* nest.                                                                   *)
ITypeOK ==
  /\ TypeOK
  /\ ifr \subseteq Pulsing /\ ier \subseteq {"CA1", "T2", "T1", "CA2"}
  /\ serving \in {"none"} \cup Pulsing
  /\ ctl \in {0, 1} /\ hw \in {0, 1} /\ flash \in 0..MARK
  /\ main \in [pc : {"idle", "copy", "register", "time", "colour", "palette"},
               n : {0, 1}, left : 0..PALWRITES]
  /\ masked \in BOOLEAN
  /\ saved \in Seq(BOOLEAN) /\ Len(saved) <= 2
  /\ owed \in 0..2

(* Every centisecond that pulses when the one before has been taken is     *)
(* counted, however long the handler runs: a pulse that falls into the     *)
(* handler of the last one is still pending when that returns.             *)
NoTickLost ==
  owed <= (IF "T1" \in ifr THEN 1 ELSE 0) + (IF serving = "T1" THEN 1 ELSE 0)

(* The register of the ULA is write-only and OSB_VIDPROC_CTL its copy: the *)
(* flash reads the copy to write the register.  The two agree whenever an  *)
(* interrupt can be taken, so that no mode's setting is lost to a flash.   *)
CopyAgrees == ~masked => hw = ctl

(* VDU 19 keeps interrupts out from its first palette write to its last,   *)
(* though every write masks and unmasks on its own; and when no call is in *)
(* progress they are let in.                                               *)
MaskHeld == masked <=> saved # <<>>

(* The mask is held by the calls that took it and by no one else, and      *)
(* what it protects is whole whenever it is not held.                      *)
MaskInv == ITypeOK /\ MaskHeld /\ CopyAgrees

(* A flash never comes early or late: what stands in the register, set by  *)
(* the last flash or by the program in the midst of a phase, has been      *)
(* there for one whole time of a phase, OSB_FLASH_MARK or OSB_FLASH_SPC    *)
(* frames, when the frame interrupt changes it.                            *)
PhaseStep == serving = "CA1" /\ hw' # hw => frames + 1 \in {MARK, SPC}
WholePhases == [][PhaseStep]_allvars

(* Colours keep flashing, unless the program sets the ULA again and again: *)
(* the countdown never stays at 0, and neither calls of the clock nor the  *)
(* masks of VDU 19, however many, stop it.                                 *)
KeepsFlashing ==
  \/ []<>(main.pc = "time")
  \/ []<>(hw = 0) /\ []<>(hw = 1)
=============================================================================
