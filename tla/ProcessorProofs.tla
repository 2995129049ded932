-------------------------- MODULE ProcessorProofs --------------------------
(***************************************************************************)
(* The state machine and the processor around it, proved for any number of *)
(* channels, any inputs the DSP may report, any hold times and limits, any *)
(* errors of the sensors, any transforms and any gains.                    *)
(*                                                                         *)
(* First the promises of the behaviour matrix; the idea of every proof is  *)
(* the same: a timer of the machine never runs longer than the observer's  *)
(* clock of the same thing.  Then the calibration: a zero goes on reading  *)
(* as zero, gains are earned, the automatic zero does what it asked for,   *)
(* and what is green is synchronised.                                      *)
(***************************************************************************)
EXTENDS Processor, StatusMonitor, FiniteSetTheorems, WellFoundedInduction, TLAPS

-----------------------------------------------------------------------------
(* Timers. *)

(* A timer stays in its range, unless the clock goes back while it runs.    *)
LEMMA ElapseTyped ==
  ASSUME NEW cap \in Nat, NEW t \in Timer(cap), NEW on, NEW dt \in Int,
         dt >= 0 \/ t = NotRunning
  PROVE  Elapse(t, on, dt, cap) \in Timer(cap)
BY DEF Elapse, Timer, NotRunning

(* A timer that runs only while another does is never ahead of it. *)
LEMMA ElapseBehind ==
  ASSUME NEW cap \in Nat, NEW t \in Timer(cap), NEW h \in Timer(cap),
         NEW on, NEW seen, NEW dt \in Int, dt >= 0, t <= h, on => seen
  PROVE  Elapse(t, on, dt, cap) <= Elapse(h, seen, dt, cap)
BY DEF Elapse, Timer, NotRunning

(* What has run was on. *)
LEMMA ElapseOn ==
  ASSUME NEW t, NEW on, NEW dt, NEW cap, NEW hold \in Nat,
         Elapse(t, on, dt, cap) >= hold
  PROVE  on
<1>1. ~on => Elapse(t, on, dt, cap) = -1
  BY DEF Elapse, NotRunning
<1> QED
  BY <1>1

LEMMA InputsTyped == Inputs \subseteq InputType
BY InputAssumption DEF InputType

LEMMA ReadingType ==
  ASSUME NEW i \in InputType
  PROVE  /\ i.ch \in [Channels -> Reading] /\ i.rpm \in RpmClass
         /\ \A c \in Channels :
              i.ch[c] \in Reading /\ i.ch[c].level \in Int /\ i.ch[c].mean \in Int
BY DEF InputType, Reading

-----------------------------------------------------------------------------
(* The verdict. *)

Conds(i, t, dt) ==
  [c \in Channels |-> CondOf(i.ch, c, LostTimers(t, i.ch, dt), t.latched)]

(* What the machine takes for measurable, the observer sees as clean. *)
LEMMA MeasurableIsClean ==
  ASSUME NEW i, NEW t, NEW dt, Measurable(i, Conds(i, t, dt))
  PROVE  Clean(i)
<1>1. \A c \in Channels : ~i.ch[c].fault
  BY DEF Measurable, Conds, CondOf, FaultConds
<1>2. \A c \in Channels : i.ch[c].pulse
  BY DEF Measurable, Pulsing
<1> QED
  BY <1>1, <1>2 DEF Measurable, Clean

-----------------------------------------------------------------------------
(* One update, by its parts: the timers it starts from, the conditions of  *)
(* the channels and the hold of the verdict.                               *)
Base(dt) == IF dt < 0 THEN ResetTimers ELSE tm
BaseHist(dt) == IF dt < 0 THEN NoHistory ELSE hist
CondsNow(i, dt) == Conds(i, Base(dt), dt)
StableNow(i, dt) == Elapse(Base(dt).stable, Measurable(i, CondsNow(i, dt)), dt, StableHold)

LEMMA UpdateParts ==
  ASSUME NEW i, NEW zv, NEW dt, Update(i, zv, dt)
  PROVE  /\ in' = i /\ cfg' = cfg
         /\ tm'.stable = StableNow(i, dt)
         /\ tm'.lost = LostTimers(Base(dt), i.ch, dt)
         /\ \E common, spread :
              res'.state = StateOf(i, CondsNow(i, dt), common, StableNow(i, dt), spread, zv)
BY Zenon DEF Update, Updated, Result, Base, CondsNow, Conds, StableNow

LEMMA ObserveParts ==
  ASSUME NEW i, NEW dt, Observe(i, dt)
  PROVE  /\ hist'.fresh = TRUE
         /\ hist'.clean = Elapse(BaseHist(dt).clean, Clean(i), dt, StableHold)
         /\ hist'.silent = [c \in Channels |->
               Elapse(BaseHist(dt).silent[c], IsLost(i.ch, c), dt, OffHold)]
BY DEF Observe, BaseHist

(* A verdict state is the last of the priority order: the hold has run.    *)
LEMMA VerdictNeedsHold ==
  ASSUME NEW i, NEW cond, NEW common, NEW stable, NEW spread, NEW zv,
         StateOf(i, cond, common, stable, spread, zv) \in VerdictStates
  PROVE  ~(stable < StableHold)
BY DEF StateOf, VerdictStates

(* The strengthening: the hold of the machine is not ahead of the          *)
(* observer's, whatever the state that is shown.                           *)
HoldBehind ==
  /\ tm.stable \in Timer(StableHold) /\ hist.clean \in Timer(StableHold)
  /\ tm.stable <= hist.clean

LEMMA BaseBehind ==
  ASSUME HoldBehind, NEW dt
  PROVE  /\ Base(dt).stable \in Timer(StableHold) /\ BaseHist(dt).clean \in Timer(StableHold)
         /\ Base(dt).stable <= BaseHist(dt).clean
BY HoldAssumption DEF HoldBehind, Base, BaseHist, ResetTimers, NoHistory, Timer, NotRunning

LEMMA VerdictUpdate ==
  ASSUME HoldBehind, NEW i \in Inputs, NEW zv \in BOOLEAN, NEW dt \in Dts,
         Update(i, zv, dt), Observe(i, dt)
  PROVE  HoldBehind' /\ VerdictEarned'
<1>1. /\ tm'.stable = Elapse(Base(dt).stable, Measurable(i, CondsNow(i, dt)), dt, StableHold)
      /\ hist'.clean = Elapse(BaseHist(dt).clean, Clean(i), dt, StableHold)
  BY UpdateParts, ObserveParts DEF StableNow
<1>2. Measurable(i, CondsNow(i, dt)) => Clean(i)
  BY MeasurableIsClean DEF CondsNow
<1>3. HoldBehind'
  <2>1. CASE dt < 0
    <3>1. Base(dt).stable = -1 /\ BaseHist(dt).clean = -1
      BY <2>1 DEF Base, BaseHist, ResetTimers, NoHistory, NotRunning
    <3> QED
      BY <1>1, <1>2, <3>1, HoldAssumption DEF HoldBehind, Elapse, Timer, NotRunning
  <2>2. CASE ~(dt < 0)
    <3>1. dt \in Int /\ dt >= 0 /\ StableHold \in Nat
      BY <2>2, InputAssumption, HoldAssumption
    <3>2. tm'.stable <= hist'.clean
      BY <1>1, <1>2, <3>1, BaseBehind, ElapseBehind
    <3>3. tm'.stable \in Timer(StableHold) /\ hist'.clean \in Timer(StableHold)
      BY <1>1, <3>1, BaseBehind, ElapseTyped
    <3> QED
      BY <3>2, <3>3 DEF HoldBehind
  <2> QED
    BY <2>1, <2>2
<1>4. ASSUME res'.state \in VerdictStates
      PROVE  Clean(in') /\ hist'.clean >= StableHold
  <2>1. tm'.stable = StableNow(i, dt) /\ ~(StableNow(i, dt) < StableHold) /\ in' = i
    BY <1>4, UpdateParts, VerdictNeedsHold
  <2>2. tm'.stable >= StableHold
    BY <1>3, <2>1, HoldAssumption DEF HoldBehind, Timer, NotRunning
  <2>3. Measurable(i, CondsNow(i, dt))
    BY <1>1, <2>2, ElapseOn, HoldAssumption
  <2>4. hist'.clean >= StableHold
    BY <1>3, <2>2, HoldAssumption DEF HoldBehind, Timer, NotRunning
  <2> QED
    BY <1>2, <2>1, <2>3, <2>4
<1> QED
  BY <1>3, <1>4 DEF VerdictEarned, Clean

(* D12 for every instance: no verdict is shown that was not earned.        *)
THEOREM VerdictsAreEarned == MSpec => []VerdictEarned
<1> DEFINE VInv == HoldBehind /\ VerdictEarned
<1>1. MInit => VInv
  BY HoldAssumption
     DEF MInit, Init, ResetTimers, NoHistory, HoldBehind, VerdictEarned, Timer, NotRunning
<1>2. VInv /\ [MNext]_mvars => VInv'
  <2> SUFFICES ASSUME HoldBehind, VerdictEarned, [MNext]_mvars PROVE VInv'
    OBVIOUS
  <2>1. CASE MUpdate
    BY <2>1, VerdictUpdate DEF MUpdate
  <2>2. CASE MConfigure
    <3>1. hist' = NoHistory /\ tm' = ResetTimers
      BY <2>2 DEF MConfigure, ConfigureStep, Configure
    <3> QED
      BY <3>1, HoldAssumption
         DEF ResetTimers, NoHistory, HoldBehind, VerdictEarned, Timer, NotRunning
  <2>3. CASE MResetSettle
    <3>1. /\ UNCHANGED <<in, res>> /\ tm'.stable = tm.stable
          /\ hist'.fresh = hist.fresh /\ hist'.clean = hist.clean
      BY <2>3 DEF MResetSettle, ResetSettle
    <3> QED
      BY <3>1 DEF HoldBehind, VerdictEarned, Clean
  <2>4. CASE UNCHANGED mvars
    BY <2>4 DEF mvars, HoldBehind, VerdictEarned, Clean
  <2> QED
    BY <2>1, <2>2, <2>3, <2>4 DEF MNext
<1>3. VInv => VerdictEarned
  OBVIOUS
<1> QED
  BY <1>1, <1>2, <1>3, PTL DEF MSpec

-----------------------------------------------------------------------------
(* The faults: the machine's timer of a lost pulse is the observer's.      *)
LostIsSilent ==
  /\ tm.lost = hist.silent
  /\ hist.silent \in [Channels -> Timer(OffHold)]

LEMMA BaseLost ==
  ASSUME LostIsSilent, NEW dt
  PROVE  /\ Base(dt).lost = BaseHist(dt).silent
         /\ BaseHist(dt).silent \in [Channels -> Timer(OffHold)]
BY HoldAssumption
   DEF LostIsSilent, Base, BaseHist, ResetTimers, NoHistory, Timer, NotRunning

LEMMA LostUpdate ==
  ASSUME LostIsSilent, NEW i \in Inputs, NEW zv \in BOOLEAN, NEW dt \in Dts,
         Update(i, zv, dt), Observe(i, dt)
  PROVE  LostIsSilent'
<1>1. tm'.lost = [c \in Channels |->
        Elapse(Base(dt).lost[c], IsLost(i.ch, c), dt, OffHold)]
  BY UpdateParts DEF LostTimers
<1>2. hist'.silent = [c \in Channels |->
        Elapse(BaseHist(dt).silent[c], IsLost(i.ch, c), dt, OffHold)]
  BY ObserveParts, Zenon
<1>3. tm'.lost = hist'.silent
  BY <1>1, <1>2, BaseLost
<1>4. ASSUME NEW c \in Channels
      PROVE  Elapse(BaseHist(dt).silent[c], IsLost(i.ch, c), dt, OffHold) \in Timer(OffHold)
  <2>1. dt \in Int /\ OffHold \in Nat /\ BaseHist(dt).silent[c] \in Timer(OffHold)
    BY InputAssumption, HoldAssumption, BaseLost
  <2>2. CASE dt < 0
    <3>1. BaseHist(dt).silent[c] = -1
      BY <2>2 DEF BaseHist, NoHistory, NotRunning
    <3> QED
      BY <2>1, <3>1 DEF Elapse, Timer, NotRunning
  <2>3. CASE ~(dt < 0)
    BY <2>1, <2>3, ElapseTyped
  <2> QED
    BY <2>2, <2>3
<1> QED
  BY <1>2, <1>3, <1>4 DEF LostIsSilent

(* What the condition shown says of the conditions inside, and these of    *)
(* the timers.                                                             *)
LEMMA CondShown ==
  ASSUME NEW i, NEW zv, NEW dt, Update(i, zv, dt), NEW c \in Channels
  PROVE  \/ res'.cond[c] = CondsNow(i, dt)[c]
         \/ res'.cond[c] = "sat" /\ CondsNow(i, dt)[c] = "ok"
BY Zenon DEF Update, Updated, Result, Base, CondsNow, Conds

LEMMA CondHeld ==
  ASSUME NEW i, NEW dt, NEW c \in Channels
  PROVE  /\ CondsNow(i, dt)[c] = "hose" => LostTimers(Base(dt), i.ch, dt)[c] >= HoseHold
         /\ CondsNow(i, dt)[c] = "blocked" => LostTimers(Base(dt), i.ch, dt)[c] >= OffHold
BY DEF CondsNow, Conds, CondOf

(* Rows 6 for every instance: no fault is shown before its hold is over.   *)
THEOREM FaultsAreHeld == MSpec => []NoFaultFlash
<1> DEFINE FInv == LostIsSilent /\ NoFaultFlash
<1>1. MInit => FInv
  BY HoldAssumption
     DEF MInit, Init, ResetTimers, NoHistory, LostIsSilent, NoFaultFlash, Timer, NotRunning
<1>2. FInv /\ [MNext]_mvars => FInv'
  <2> SUFFICES ASSUME LostIsSilent, NoFaultFlash, [MNext]_mvars PROVE FInv'
    OBVIOUS
  <2>1. ASSUME NEW i \in Inputs, NEW zv \in BOOLEAN, NEW dt \in Dts,
               Update(i, zv, dt), Observe(i, dt)
        PROVE  FInv'
    <3>1. LostIsSilent'
      BY <2>1, LostUpdate
    <3>2. ASSUME NEW c \in Channels
          PROVE  /\ res'.cond[c] = "hose" => hist'.silent[c] >= HoseHold
                 /\ res'.cond[c] = "blocked" => hist'.silent[c] >= OffHold
      <4>1. hist'.silent = LostTimers(Base(dt), i.ch, dt)
        BY <2>1, <3>1, UpdateParts DEF LostIsSilent
      <4> QED
        BY <2>1, <4>1, CondShown, CondHeld
    <3> QED
      BY <3>1, <3>2 DEF NoFaultFlash
  <2>2. CASE MConfigure
    <3>1. hist' = NoHistory /\ tm' = ResetTimers
      BY <2>2 DEF MConfigure, ConfigureStep, Configure
    <3> QED
      BY <3>1, HoldAssumption
         DEF ResetTimers, NoHistory, LostIsSilent, NoFaultFlash, Timer, NotRunning
  <2>3. CASE MResetSettle
    <3>1. /\ UNCHANGED <<in, res>> /\ tm'.lost = tm.lost
          /\ hist'.fresh = hist.fresh /\ hist'.silent = hist.silent
      BY <2>3 DEF MResetSettle, ResetSettle
    <3> QED
      BY <3>1 DEF LostIsSilent, NoFaultFlash
  <2>4. CASE UNCHANGED mvars
    BY <2>4 DEF mvars, LostIsSilent, NoFaultFlash
  <2> QED
    BY <2>1, <2>2, <2>3, <2>4 DEF MNext, MUpdate
<1>3. FInv => NoFaultFlash
  OBVIOUS
<1> QED
  BY <1>1, <1>2, <1>3, PTL DEF MSpec

-----------------------------------------------------------------------------
(* The automatic zero: armed, nothing has been asked for.                  *)
ArmedUnasked ==
  /\ tm.armed \in BOOLEAN /\ hist.asks \in 0 .. 1
  /\ tm.armed => hist.asks = 0

(* A request comes out of an armed machine and disarms it, and never while *)
(* a channel pulses.                                                       *)
LEMMA RequestParts ==
  ASSUME NEW i, NEW zv, NEW dt, Update(i, zv, dt), Base(dt).armed \in BOOLEAN
  PROVE  /\ res'.request => Base(dt).armed \/ Pulsing(i.ch) # {}
         /\ tm'.armed \in BOOLEAN
         /\ tm'.armed => ~res'.request /\ (Base(dt).armed \/ Pulsing(i.ch) # {})
BY Zenon DEF Update, Updated, Result, Base, Ask

(* Between two pulses the zero is asked for once.                          *)
THEOREM AskedOnce == MSpec => []RequestOnce
<1>1. MInit => ArmedUnasked
  BY DEF MInit, Init, ResetTimers, NoHistory, ArmedUnasked
<1>2. ArmedUnasked /\ [MNext]_mvars => ArmedUnasked'
  <2> SUFFICES ASSUME ArmedUnasked, [MNext]_mvars PROVE ArmedUnasked'
    OBVIOUS
  <2>1. ASSUME NEW i \in Inputs, NEW zv \in BOOLEAN, NEW dt \in Dts,
               Update(i, zv, dt), Observe(i, dt)
        PROVE  ArmedUnasked'
    <3>1. /\ Base(dt).armed \in BOOLEAN /\ BaseHist(dt).asks \in 0 .. 1
          /\ Base(dt).armed => BaseHist(dt).asks = 0
      <4>1. CASE dt < 0
        BY <4>1 DEF Base, BaseHist, ResetTimers, NoHistory
      <4>2. CASE ~(dt < 0)
        BY <4>2 DEF ArmedUnasked, Base, BaseHist
      <4> QED
        BY <4>1, <4>2
    <3>2. hist'.asks = IF Pulsing(i.ch) # {} THEN 0
                       ELSE IF res'.request /\ BaseHist(dt).asks < 2
                       THEN BaseHist(dt).asks + 1 ELSE BaseHist(dt).asks
      BY <2>1 DEF Observe, BaseHist
    <3>3. /\ res'.request => Base(dt).armed \/ Pulsing(i.ch) # {}
          /\ tm'.armed \in BOOLEAN
          /\ tm'.armed => ~res'.request /\ (Base(dt).armed \/ Pulsing(i.ch) # {})
      BY <2>1, <3>1, RequestParts
    <3> QED
      BY <3>1, <3>2, <3>3 DEF ArmedUnasked
  <2>2. CASE MConfigure
    BY <2>2 DEF MConfigure, ConfigureStep, Configure, ResetTimers, NoHistory, ArmedUnasked
  <2>3. CASE MResetSettle
    BY <2>3 DEF MResetSettle, ResetSettle, ArmedUnasked
  <2>4. CASE UNCHANGED mvars
    BY <2>4 DEF mvars, ArmedUnasked
  <2> QED
    BY <2>1, <2>2, <2>3, <2>4 DEF MNext, MUpdate
<1>3. ArmedUnasked => RequestOnce
  BY DEF ArmedUnasked, RequestOnce
<1> QED
  BY <1>1, <1>2, <1>3, PTL DEF MSpec

-----------------------------------------------------------------------------
(* Channels are numbers, so a set of them has a first one.                 *)
LEMMA FirstChannel ==
  ASSUME NEW S \in SUBSET Nat, S # {}
  PROVE  Min(S) \in S /\ \A c \in S : Min(S) <= c
<1>1. PICK m \in S : \A c \in S : ~(<<c, m>> \in OpToRel(<, Nat))
  BY NatLessThanWellFounded, WFMin
<1>2. \A c \in S : ~(c < m)
  <2>1. \A c \in S : c < m => <<c, m>> \in OpToRel(<, Nat)
    BY Zenon DEF OpToRel
  <2> QED
    BY <1>1, <2>1
<1>3. \A c \in S : m <= c
  BY <1>2
<1> QED
  BY <1>3 DEF Min

LEMMA WorstCompared ==
  ASSUME NEW d, NEW cond, WorstCh(d, cond) # NoCh
  PROVE  WorstCh(d, cond) \in Compared(cond)
<1> DEFINE largest == {c \in Compared(cond) :
                         \A e \in Compared(cond) : Magnitude(d[e]) <= Magnitude(d[c])}
<1>1. largest # {} /\ WorstCh(d, cond) = Min(largest)
  BY DEF WorstCh
<1>2. largest \in SUBSET Nat
  BY ChannelAssumption DEF Compared, Channels
<1> QED
  BY <1>1, <1>2, FirstChannel

(* A broken channel, as the observer sees it, is broken to the machine.    *)
LEMMA BrokenCond ==
  ASSUME LostIsSilent, NEW i \in Inputs, NEW zv \in BOOLEAN, NEW dt \in Dts,
         Update(i, zv, dt), Observe(i, dt), NEW c \in Channels, Broken(c)'
  PROVE  CondsNow(i, dt)[c] \in FaultConds
<1>1. in' = i /\ hist'.silent = LostTimers(Base(dt), i.ch, dt)
  BY LostUpdate, UpdateParts DEF LostIsSilent
<1>2. CASE i.ch[c].fault
  BY <1>2 DEF CondsNow, Conds, CondOf, FaultConds
<1>3. CASE hist'.silent[c] >= OffHold
  <2>1. LostTimers(Base(dt), i.ch, dt)[c] >= OffHold
    BY <1>1, <1>3
  <2>2. IsLost(i.ch, c)
    BY <2>1, ElapseOn, HoldAssumption DEF LostTimers
  <2> QED
    BY <2>1, <2>2 DEF CondsNow, Conds, CondOf, FaultConds, IsLost
<1> QED
  BY <1>1, <1>2, <1>3 DEF Broken

LEMMA FaultState ==
  ASSUME NEW i, NEW cond, NEW common, NEW stable, NEW spread, NEW zv,
         NEW c \in Channels, cond[c] \in FaultConds
  PROVE  StateOf(i, cond, common, stable, spread, zv)
           \in (IF c = cfg.master THEN {"FaultMaster"} ELSE FaultStates)
BY DEF StateOf, FaultConds, FaultStates

LEMMA ResultParts ==
  ASSUME NEW i, NEW zv, NEW dt, Update(i, zv, dt)
  PROVE  LET cond == CondsNow(i, dt)
             d == Deltas(i.ch, cond)
         IN  /\ res'.delta = d
             /\ res'.worst = WorstCh(d, cond)
             /\ res'.act # NoCh => res'.state \in VerdictStates /\ res'.act = WorstCh(d, cond)
BY Zenon DEF Update, Updated, Result, Base, CondsNow, Conds

(* Paragraph 8 for every instance: faults always win.                      *)
THEOREM FaultsAlwaysWin == MSpec => []FaultsWin
<1> DEFINE FInv == LostIsSilent /\ FaultsWin
<1>1. MInit => FInv
  BY HoldAssumption
     DEF MInit, Init, ResetTimers, NoHistory, LostIsSilent, FaultsWin, Timer, NotRunning
<1>2. FInv /\ [MNext]_mvars => FInv'
  <2> SUFFICES ASSUME LostIsSilent, FaultsWin, [MNext]_mvars PROVE FInv'
    OBVIOUS
  <2>1. ASSUME NEW i \in Inputs, NEW zv \in BOOLEAN, NEW dt \in Dts,
               Update(i, zv, dt), Observe(i, dt)
        PROVE  FInv'
    <3>1. LostIsSilent'
      BY <2>1, LostUpdate
    <3>2. ASSUME NEW c \in Channels, Broken(c)'
          PROVE  /\ res'.state \in (IF c = cfg'.master THEN {"FaultMaster"} ELSE FaultStates)
                 /\ res'.delta[c] = 0 /\ res'.worst # c /\ res'.act = NoCh
      <4>1. CondsNow(i, dt)[c] \in FaultConds
        BY <2>1, <3>2, BrokenCond
      <4>2. res'.state \in (IF c = cfg'.master THEN {"FaultMaster"} ELSE FaultStates)
        BY <2>1, <4>1, UpdateParts, FaultState
      <4>3. res'.delta[c] = 0
        <5>1. res'.delta = Deltas(i.ch, CondsNow(i, dt))
          BY <2>1, ResultParts
        <5> QED
          BY <4>1, <5>1 DEF Deltas, FaultConds
      <4>4. res'.act = NoCh
        BY <2>1, <4>2, ResultParts DEF FaultStates, VerdictStates
      <4>5. res'.worst # c
        <5>1. c # NoCh
          BY ChannelAssumption DEF Channels, NoCh
        <5>2. c \notin Compared(CondsNow(i, dt))
          BY <4>1 DEF Compared, FaultConds
        <5> QED
          BY <2>1, <5>1, <5>2, ResultParts, WorstCompared
      <4> QED
        BY <4>2, <4>3, <4>4, <4>5
    <3> QED
      BY <3>1, <3>2 DEF FaultsWin
  <2>2. CASE MConfigure
    <3>1. hist' = NoHistory /\ tm' = ResetTimers
      BY <2>2 DEF MConfigure, ConfigureStep, Configure
    <3> QED
      BY <3>1, HoldAssumption
         DEF ResetTimers, NoHistory, LostIsSilent, FaultsWin, Timer, NotRunning
  <2>3. CASE MResetSettle
    <3>1. /\ UNCHANGED <<in, res, cfg>> /\ tm'.lost = tm.lost
          /\ hist'.fresh = hist.fresh /\ hist'.silent = hist.silent
      BY <2>3 DEF MResetSettle, ResetSettle
    <3> QED
      BY <3>1 DEF LostIsSilent, FaultsWin, Broken
  <2>4. CASE UNCHANGED mvars
    BY <2>4 DEF mvars, LostIsSilent, FaultsWin, Broken
  <2> QED
    BY <2>1, <2>2, <2>3, <2>4 DEF MNext, MUpdate
<1>3. FInv => FaultsWin
  OBVIOUS
<1> QED
  BY <1>1, <1>2, <1>3, PTL DEF MSpec

-----------------------------------------------------------------------------
(* The advice.  Under a verdict every channel is in order, so that the     *)
(* worst of the compared is the worst of all.                              *)
LEMMA WorstIsLargest ==
  ASSUME NEW d, NEW cond, WorstCh(d, cond) # NoCh
  PROVE  \A e \in Compared(cond) : Magnitude(d[e]) <= Magnitude(d[WorstCh(d, cond)])
<1> DEFINE largest == {c \in Compared(cond) :
                         \A e \in Compared(cond) : Magnitude(d[e]) <= Magnitude(d[c])}
<1>1. largest # {} /\ WorstCh(d, cond) = Min(largest)
  BY DEF WorstCh
<1>2. largest \in SUBSET Nat
  BY ChannelAssumption DEF Compared, Channels
<1>3. WorstCh(d, cond) \in largest
  BY <1>1, <1>2, FirstChannel
<1> QED
  BY <1>3

LEMMA MeasurableIsOk ==
  ASSUME NEW i, NEW t, NEW dt, Measurable(i, Conds(i, t, dt)), NEW c \in Channels
  PROVE  Conds(i, t, dt)[c] = "ok"
BY DEF Measurable, Conds, CondOf, Pulsing, FaultConds

LEMMA AdviceUpdate ==
  ASSUME HoldBehind, cfg.master \in Channels,
         NEW i \in Inputs, NEW zv \in BOOLEAN, NEW dt \in Dts,
         Update(i, zv, dt), Observe(i, dt)
  PROVE  AdviceFits'
<1> DEFINE cond == CondsNow(i, dt)
           d == Deltas(i.ch, cond)
           w == WorstCh(d, cond)
           f(c) == i.ch[cfg.master].mean - i.ch[c].mean
<1> SUFFICES ASSUME res'.act # NoCh
             PROVE  /\ res'.act # cfg.master
                    /\ res'.open <=> f(res'.act) > 0
                    /\ \A c \in Channels : Magnitude(f(c)) <= Magnitude(f(res'.act))
  BY UpdateParts DEF AdviceFits, FromMaster
<1>1. res'.state \in VerdictStates /\ res'.act = w /\ (res'.open <=> d[w] > 0)
  BY Zenon DEF Update, Updated, Result, Base, CondsNow, Conds
<1>2. \A c \in Channels : cond[c] = "ok"
  <2>1. /\ HoldBehind' /\ tm'.stable = StableNow(i, dt)
        /\ ~(StableNow(i, dt) < StableHold)
    BY <1>1, VerdictUpdate, UpdateParts, VerdictNeedsHold
  <2>2. StableNow(i, dt) >= StableHold
    BY <2>1, HoldAssumption DEF HoldBehind, Timer, NotRunning
  <2>3. Measurable(i, cond)
    BY <2>2, ElapseOn, HoldAssumption DEF StableNow
  <2> QED
    BY <2>3, MeasurableIsOk DEF CondsNow
<1>3. \A c \in Channels : d[c] = f(c)
  BY <1>2 DEF Deltas
<1>4. Compared(cond) = Channels \ {cfg.master}
  BY <1>2 DEF Compared
<1>5. w # NoCh
  BY <1>1
<1>6. w \in Channels /\ w # cfg.master
  BY <1>4, <1>5, WorstCompared
<1>7. \A e \in Channels \ {cfg.master} : Magnitude(d[e]) <= Magnitude(d[w])
  BY <1>4, <1>5, WorstIsLargest
<1>8. \A c \in Channels : f(c) \in Int
  BY InputsTyped, ReadingType
<1>9. \A x \in Int : Magnitude(x) >= 0
  BY DEF Magnitude
<1>10. ASSUME NEW c \in Channels PROVE Magnitude(f(c)) <= Magnitude(f(w))
  <2>1. CASE c = cfg.master
    <3>1. f(c) = 0
      BY <2>1, InputsTyped, ReadingType
    <3>2. Magnitude(f(c)) = 0
      BY <3>1 DEF Magnitude
    <3> QED
      BY <1>6, <1>8, <1>9, <3>2
  <2>2. CASE c # cfg.master
    BY <1>3, <1>6, <1>7, <2>2
  <2> QED
    BY <2>1, <2>2
<1> HIDE DEF f
<1> QED
  BY <1>1, <1>3, <1>6, <1>10

(* D3 for every instance: the advice fits the means it is given for.       *)
THEOREM AdviceAlwaysFits == MSpec => []AdviceFits
<1> DEFINE AInv == HoldBehind /\ cfg.master \in Channels /\ AdviceFits
<1>1. MInit => AInv
  BY HoldAssumption
     DEF MInit, Init, ResetTimers, NoHistory, HoldBehind, AdviceFits, Timer, NotRunning
<1>2. AInv /\ [MNext]_mvars => AInv'
  <2> SUFFICES ASSUME HoldBehind, cfg.master \in Channels, AdviceFits, [MNext]_mvars
               PROVE  AInv'
    OBVIOUS
  <2>1. ASSUME NEW i \in Inputs, NEW zv \in BOOLEAN, NEW dt \in Dts,
               Update(i, zv, dt), Observe(i, dt)
        PROVE  AInv'
    BY <2>1, VerdictUpdate, AdviceUpdate, UpdateParts
  <2>2. CASE MConfigure
    <3>1. hist' = NoHistory /\ tm' = ResetTimers /\ cfg'.master \in Channels
      BY <2>2 DEF MConfigure, ConfigureStep, Configure
    <3> QED
      BY <3>1, HoldAssumption
         DEF ResetTimers, NoHistory, HoldBehind, AdviceFits, Timer, NotRunning
  <2>3. CASE MResetSettle
    <3>1. /\ UNCHANGED <<in, res, cfg>> /\ tm'.stable = tm.stable
          /\ hist'.fresh = hist.fresh /\ hist'.clean = hist.clean
      BY <2>3 DEF MResetSettle, ResetSettle
    <3> QED
      BY <3>1 DEF HoldBehind, AdviceFits, FromMaster
  <2>4. CASE UNCHANGED mvars
    BY <2>4 DEF mvars, HoldBehind, AdviceFits, FromMaster
  <2> QED
    BY <2>1, <2>2, <2>3, <2>4 DEF MNext, MUpdate
<1>3. AInv => AdviceFits
  OBVIOUS
<1> QED
  BY <1>1, <1>2, <1>3, PTL DEF MSpec

-----------------------------------------------------------------------------
(* The types. *)

(* A finite set that is not empty has an element where g is largest: take  *)
(* the smallest set without one, and leave out an element.                 *)
LEMMA Largest ==
  ASSUME NEW F, IsFiniteSet(F), F # {}, NEW g \in [F -> Int]
  PROVE  \E m \in F : \A c \in F : g[c] <= g[m]
<1> DEFINE Has(S) == \E m \in S : \A c \in S : g[c] <= g[m]
           Bad == {n \in Nat : \E S \in SUBSET F : S # {} /\ Cardinality(S) = n /\ ~Has(S)}
<1> HIDE DEF Has
<1> SUFFICES ASSUME ~Has(F) PROVE FALSE
  BY DEF Has
<1>1. Bad # {}
  BY FS_CardinalityType
<1>2. PICK n \in Bad : \A k \in Bad : ~(<<k, n>> \in OpToRel(<, Nat))
  BY <1>1, NatLessThanWellFounded, WFMin
<1>3. \A k \in Bad : ~(k < n)
  <2>1. \A k \in Nat : k < n => <<k, n>> \in OpToRel(<, Nat)
    BY <1>2, Zenon DEF OpToRel
  <2> QED
    BY <1>2, <2>1
<1>4. PICK S \in SUBSET F : S # {} /\ Cardinality(S) = n /\ ~Has(S)
  BY <1>2
<1>5. PICK x \in S : TRUE
  BY <1>4
<1>6. /\ IsFiniteSet(S \ {x}) /\ IsFiniteSet(S)
      /\ Cardinality(S \ {x}) = n - 1 /\ Cardinality(S \ {x}) \in Nat
  BY <1>4, <1>5, FS_Subset, FS_RemoveElement, FS_CardinalityType
<1>7. CASE S \ {x} = {}
  <2>1. \A c \in S : c = x
    BY <1>7
  <2>2. g[x] \in Int
    BY <1>5
  <2> QED
    BY <1>4, <1>5, <2>1, <2>2 DEF Has
<1>8. CASE S \ {x} # {}
  <2>1. Has(S \ {x})
    <3>1. n \in Nat
      BY <1>2
    <3>2. n - 1 < n
      BY <3>1
    <3>3. n - 1 \notin Bad
      BY <1>3, <3>2
    <3> QED
      BY <1>6, <1>8, <3>3
  <2>2. PICK m \in S \ {x} : \A c \in S \ {x} : g[c] <= g[m]
    BY <2>1 DEF Has
  <2>3. g[m] \in Int /\ g[x] \in Int /\ \A c \in S : g[c] \in Int
    BY <1>5, <2>2
  <2>4. CASE g[x] <= g[m]
    <3>1. \A c \in S : g[c] <= g[m]
      BY <2>2, <2>4
    <3> QED
      BY <1>4, <3>1 DEF Has
  <2>5. CASE ~(g[x] <= g[m])
    <3>1. \A c \in S : g[c] <= g[x]
      BY <2>2, <2>3, <2>5
    <3> QED
      BY <1>4, <1>5, <3>1 DEF Has
  <2> QED
    BY <2>4, <2>5
<1> QED
  BY <1>7, <1>8

(* The range of the differences is a number, and no two are further apart. *)
LEMMA SpreadType ==
  ASSUME NEW d \in [Channels -> Int]
  PROVE  Spread(d) \in Int /\ \A c, e \in Channels : d[c] - d[e] <= Spread(d)
<1> DEFINE D == {0} \cup {d[c] : c \in Channels}
           e == [c \in Channels |-> -d[c]]
<1>1. IsFiniteSet(Channels) /\ Channels # {}
  <2>1. 0 \in Int /\ N - 1 \in Int /\ 0 \in 0 .. N - 1
    BY ChannelAssumption
  <2>2. IsFiniteSet(0 .. N - 1)
    BY <2>1, FS_Interval
  <2> QED
    BY <2>1, <2>2 DEF Channels
<1>2. \E m \in D : \A x \in D : m >= x
  <2>1. PICK m \in Channels : \A c \in Channels : d[c] <= d[m]
    BY <1>1, Largest
  <2>2. CASE d[m] >= 0
    BY <2>1, <2>2
  <2>3. CASE ~(d[m] >= 0)
    <3>1. \A c \in Channels : 0 >= d[c]
      BY <2>1, <2>3
    <3> QED
      BY <3>1
  <2> QED
    BY <2>2, <2>3
<1>3. \E m \in D : \A x \in D : m <= x
  <2>1. PICK m \in Channels : \A c \in Channels : e[c] <= e[m]
    <3>1. e \in [Channels -> Int]
      OBVIOUS
    <3> HIDE DEF e
    <3> QED
      BY <1>1, <3>1, Largest
  <2>2. \A c \in Channels : d[m] <= d[c]
    BY <2>1
  <2>3. CASE d[m] <= 0
    BY <2>2, <2>3
  <2>4. CASE ~(d[m] <= 0)
    <3>1. \A c \in Channels : 0 <= d[c]
      BY <2>2, <2>4
    <3> QED
      BY <3>1
  <2> QED
    BY <2>3, <2>4
<1>4. D \subseteq Int
  OBVIOUS
<1> HIDE DEF D
<1>5. /\ Max(D) \in D /\ \A x \in D : Max(D) >= x
      /\ Min(D) \in D /\ \A x \in D : Min(D) <= x
  BY <1>2, <1>3 DEF Max, Min
<1>6. Max(D) \in Int /\ Min(D) \in Int
  BY <1>4, <1>5
<1>7. Spread(d) = Max(D) - Min(D)
  BY DEF Spread, D
<1>8. ASSUME NEW c \in Channels, NEW f \in Channels
      PROVE  d[c] - d[f] <= Max(D) - Min(D)
  <2>1. d[c] \in D /\ d[f] \in D /\ d[c] \in Int /\ d[f] \in Int
    BY DEF D
  <2>2. Max(D) >= d[c] /\ Min(D) <= d[f]
    BY <1>5, <2>1
  <2> QED
    BY <1>6, <2>1, <2>2
<1> QED
  BY <1>6, <1>7, <1>8

(* One update, as the record it leaves and the result it returns.          *)
StateNow(i, zv, dt, common) ==
  StateOf(i, CondsNow(i, dt), common, StableNow(i, dt),
          Spread(Deltas(i.ch, CondsNow(i, dt))), zv)
SatNow(i, dt, sat) == Elapse(Base(dt).sat, sat, dt, SatHold)

Whole(i, zv, dt, common, sat, ask) ==
  /\ ask \in BOOLEAN
  /\ Updated(i, zv, dt).tm =
           [lost |-> LostTimers(Base(dt), i.ch, dt),
            latched |-> {c \in Channels : CondsNow(i, dt)[c] = "hose"},
            stable |-> StableNow(i, dt), sat |-> SatNow(i, dt, sat),
            cm |-> CmAdvance(Base(dt).cm, i.ch, dt),
            zero |-> Elapse(Base(dt).zero, StateNow(i, zv, dt, common) = "NoSignal", dt, OffHold),
            armed |-> (Base(dt).armed \/ Pulsing(i.ch) # {}) /\ ~ask,
            settle |-> SettleAdd(Base(dt).settle, i.ch, dt)]
  /\ Updated(i, zv, dt).res =
       Result(i, CondsNow(i, dt), SatNow(i, dt, sat) >= SatHold,
              StateNow(i, zv, dt, common), ask)

LEMMA UpdateWhole ==
  ASSUME NEW i, NEW zv, NEW dt
  PROVE  \E common, sat, ask : Whole(i, zv, dt, common, sat, ask)
<1> DEFINE t == Base(dt)
           f == i.ch
           cond == CondsNow(i, dt)
           common == CommonMove(CmAdvance(t.cm, f, dt), f)
           sat == \E c \in Pulsing(f) : f[c].sat
           armed == t.armed \/ Pulsing(f) # {}
           state == StateOf(i, cond, common, StableNow(i, dt), Spread(Deltas(f, cond)), zv)
           ask == Ask(f, Elapse(t.zero, state = "NoSignal", dt, OffHold),
                      SettleAdd(t.settle, f, dt), armed)
<1>1. ask \in BOOLEAN
  BY DEF Ask
<1>2. Whole(i, zv, dt, common, sat, ask)
  BY <1>1, Zenon
     DEF Updated, Base, CondsNow, Conds, StableNow, Whole, StateNow, SatNow
<1> QED
  BY <1>2, Zenon

LEMMA CondType ==
  ASSUME NEW i, NEW dt
  PROVE  CondsNow(i, dt) \in [Channels -> CondKeys]
BY DEF CondsNow, Conds, CondOf, CondKeys

LEMMA StateType ==
  ASSUME NEW i, NEW cond, NEW common, NEW stable, NEW spread, NEW zv
  PROVE  LET s == StateOf(i, cond, common, stable, spread, zv)
         IN  /\ s \in SyncState
             /\ s = "FaultSensor" => \E c \in Channels : cond[c] = "sensor"
             /\ s = "FaultHose" => \E c \in Channels : cond[c] \in {"hose", "blocked"}
BY DEF StateOf, SyncState, VerdictStates, FaultStates, Verdict

LEMMA ResultTyped ==
  ASSUME NEW i \in InputType, NEW zv, NEW dt, cfg.master \in Channels
  PROVE  Updated(i, zv, dt).res \in ResultType
<1> DEFINE cond == CondsNow(i, dt)
           d == Deltas(i.ch, cond)
           w == WorstCh(d, cond)
<1>1. PICK common, on, ask : Whole(i, zv, dt, common, on, ask)
  BY UpdateWhole
<1> DEFINE state == StateNow(i, zv, dt, common)
           sat == SatNow(i, dt, on) >= SatHold
           advise == state \in VerdictStates /\ Spread(d) > TolGreen /\ w # NoCh
<1>2. cond \in [Channels -> CondKeys]
  BY CondType
<1>3. /\ state \in SyncState
      /\ state = "FaultSensor" => \E c \in Channels : cond[c] = "sensor"
      /\ state = "FaultHose" => \E c \in Channels : cond[c] \in {"hose", "blocked"}
  BY StateType DEF StateNow
<1>4. d \in [Channels -> Int]
  BY ReadingType DEF Deltas
<1>5. Spread(d) \in Int
  BY <1>4, SpreadType
<1>6. w \in Channels \cup {NoCh}
  BY WorstCompared DEF Compared
<1> HIDE DEF cond, d, w, state, sat
<1>7. FaultCh(cond, state) \in Channels \cup {NoCh}
  <2>0. Channels \in SUBSET Nat
    BY ChannelAssumption DEF Channels
  <2>1. CASE state = "FaultMaster"
    BY <2>1 DEF FaultCh
  <2>2. CASE state = "FaultSensor"
    <3> DEFINE S == {c \in Channels : cond[c] = "sensor"}
    <3>1. S \in SUBSET Nat /\ S # {}
      BY <1>3, <2>0, <2>2
    <3>2. Min(S) \in S
      BY <3>1, FirstChannel
    <3> QED
      BY <2>2, <3>2 DEF FaultCh
  <2>3. CASE state = "FaultHose"
    <3> DEFINE S == {c \in Channels : cond[c] \in {"hose", "blocked"}}
    <3>1. S \in SUBSET Nat /\ S # {}
      BY <1>3, <2>0, <2>3
    <3>2. Min(S) \in S
      BY <3>1, FirstChannel
    <3> QED
      BY <2>3, <3>2 DEF FaultCh
  <2>4. CASE state \notin {"FaultMaster", "FaultSensor", "FaultHose"}
    BY <2>4 DEF FaultCh
  <2> QED
    BY <2>1, <2>2, <2>3, <2>4
<1> DEFINE act == IF advise THEN w ELSE NoCh
           open == advise /\ d[w] > 0
           shown == [c \in Channels |->
                       IF cond[c] = "ok" /\ sat /\ i.ch[c].sat THEN "sat" ELSE cond[c]]
<1>8. shown \in [Channels -> CondKeys]
  BY <1>2 DEF CondKeys
<1>9. act \in Channels \cup {NoCh} /\ open \in BOOLEAN /\ sat \in BOOLEAN
  BY <1>6 DEF sat
<1>10. Updated(i, zv, dt).res = Result(i, cond, sat, state, ask)
  BY <1>1, Zenon DEF Whole, sat, state, cond
<1>11. Updated(i, zv, dt).res =
         [state |-> state, fault |-> FaultCh(cond, state), delta |-> d,
          spread |-> Spread(d), worst |-> w, sat |-> sat, request |-> ask,
          act |-> act, open |-> open, cond |-> shown]
  BY <1>10, Zenon DEF Result, d, w
<1> HIDE DEF act, open, shown
<1>12. ask \in BOOLEAN
  BY <1>1 DEF Whole
<1> QED
  BY <1>3, <1>4, <1>5, <1>6, <1>7, <1>8, <1>9, <1>11, <1>12 DEF ResultType

LEMMA ResetTyped ==
  /\ ResetTimers \in TimersType
  /\ SettleEmpty \in [age : Timer(SettleWindow),
                      moved : [Channels -> Timer(SettleWindow + 1)],
                      level : [Channels -> Int]]
BY HoldAssumption
   DEF ResetTimers, TimersType, Timer, NotRunning, CmEmpty, SettleEmpty, NoMeans

(* The timers an update starts from are typed, and not running if the      *)
(* clock went back.                                                        *)
LEMMA BaseTyped ==
  ASSUME tm \in TimersType, NEW dt \in Int
  PROVE  /\ Base(dt) \in TimersType
         /\ dt >= 0 \/ Base(dt) = ResetTimers
BY ResetTyped DEF Base

LEMMA CmTyped ==
  ASSUME NEW i \in InputType, NEW dt \in Int,
         NEW cm \in [count : 0 .. 2, age : Int, old : [Channels -> Int], new : [Channels -> Int]]
  PROVE  CmAdvance(cm, i.ch, dt)
           \in [count : 0 .. 2, age : Int, old : [Channels -> Int], new : [Channels -> Int]]
<1>1. [c \in Channels |-> i.ch[c].mean] \in [Channels -> Int]
  BY InputsTyped, ReadingType
<1> QED
  BY <1>1 DEF CmAdvance, Shifted, CmEmpty, NoMeans

LEMMA SettleTyped ==
  ASSUME NEW i \in InputType, NEW dt \in Int,
         NEW st \in [age : Timer(SettleWindow),
                     moved : [Channels -> Timer(SettleWindow + 1)],
                     level : [Channels -> Int]],
         dt >= 0 \/ st = SettleEmpty
  PROVE  SettleAdd(st, i.ch, dt)
           \in [age : Timer(SettleWindow),
                moved : [Channels -> Timer(SettleWindow + 1)],
                level : [Channels -> Int]]
<1>1. SettleWindow \in Nat /\ SettleWindow + 1 \in Nat
  BY HoldAssumption
<1>2. Elapse(st.age, TRUE, dt, SettleWindow) \in Timer(SettleWindow)
  <2>1. st.age \in Timer(SettleWindow) /\ (dt >= 0 \/ st.age = NotRunning)
    BY DEF SettleEmpty
  <2> QED
    BY <1>1, <2>1, ElapseTyped
<1>3. ASSUME NEW c \in Channels
      PROVE  (IF st.age = NotRunning THEN SettleWindow + 1
              ELSE Elapse(IF i.ch[c].level = st.level[c] THEN st.moved[c] ELSE 0,
                          TRUE, dt, SettleWindow + 1))
               \in Timer(SettleWindow + 1)
  <2>1. CASE st.age = NotRunning
    BY <1>1, <2>1 DEF Timer, NotRunning
  <2>2. CASE st.age # NotRunning
    <3>1. dt >= 0
      BY <2>2 DEF SettleEmpty
    <3>2. (IF i.ch[c].level = st.level[c] THEN st.moved[c] ELSE 0) \in Timer(SettleWindow + 1)
      BY <1>1 DEF Timer, NotRunning
    <3> QED
      BY <1>1, <2>2, <3>1, <3>2, ElapseTyped
  <2> QED
    BY <2>1, <2>2
<1>4. [c \in Channels |-> i.ch[c].level] \in [Channels -> Int]
  BY InputsTyped, ReadingType
<1> QED
  BY <1>2, <1>3, <1>4 DEF SettleAdd

LEMMA TimersTyped ==
  ASSUME tm \in TimersType, NEW i \in InputType, NEW zv, NEW dt \in Dts
  PROVE  Updated(i, zv, dt).tm \in TimersType
<1>1. PICK common, on, ask : Whole(i, zv, dt, common, on, ask)
  BY UpdateWhole
<1> DEFINE t == Base(dt)
<1>2. /\ dt \in Int /\ t \in TimersType /\ (dt >= 0 \/ t = ResetTimers)
      /\ OffHold \in Nat /\ StableHold \in Nat /\ SatHold \in Nat
  BY BaseTyped, InputAssumption, HoldAssumption
<1> HIDE DEF t
<1>3. LostTimers(t, i.ch, dt) \in [Channels -> Timer(OffHold)]
  <2>1. ASSUME NEW c \in Channels
        PROVE  Elapse(t.lost[c], IsLost(i.ch, c), dt, OffHold) \in Timer(OffHold)
    <3>1. t.lost[c] \in Timer(OffHold) /\ (dt >= 0 \/ t.lost[c] = NotRunning)
      BY <1>2 DEF TimersType, ResetTimers
    <3> QED
      BY <1>2, <3>1, ElapseTyped
  <2> QED
    BY <2>1 DEF LostTimers
<1>4. StableNow(i, dt) \in Timer(StableHold)
  <2>1. t.stable \in Timer(StableHold) /\ (dt >= 0 \/ t.stable = NotRunning)
    BY <1>2 DEF TimersType, ResetTimers
  <2> QED
    BY <1>2, <2>1, ElapseTyped DEF StableNow, t
<1>5. SatNow(i, dt, on) \in Timer(SatHold)
  <2>1. t.sat \in Timer(SatHold) /\ (dt >= 0 \/ t.sat = NotRunning)
    BY <1>2 DEF TimersType, ResetTimers
  <2> QED
    BY <1>2, <2>1, ElapseTyped DEF SatNow, t
<1> DEFINE zero == Elapse(t.zero, StateNow(i, zv, dt, common) = "NoSignal", dt, OffHold)
           armed == (t.armed \/ Pulsing(i.ch) # {}) /\ ~ask
           hoses == {c \in Channels : CondsNow(i, dt)[c] = "hose"}
<1>6. zero \in Timer(OffHold)
  <2>1. t.zero \in Timer(OffHold) /\ (dt >= 0 \/ t.zero = NotRunning)
    BY <1>2 DEF TimersType, ResetTimers
  <2> QED
    BY <1>2, <2>1, ElapseTyped
<1>7. CmAdvance(t.cm, i.ch, dt)
        \in [count : 0 .. 2, age : Int, old : [Channels -> Int], new : [Channels -> Int]]
  BY <1>2, CmTyped DEF TimersType
<1>8. SettleAdd(t.settle, i.ch, dt)
        \in [age : Timer(SettleWindow), moved : [Channels -> Timer(SettleWindow + 1)],
             level : [Channels -> Int]]
  <2>1. /\ dt >= 0 \/ t.settle = SettleEmpty
        /\ t.settle \in [age : Timer(SettleWindow),
                         moved : [Channels -> Timer(SettleWindow + 1)],
                         level : [Channels -> Int]]
    BY <1>2 DEF TimersType, ResetTimers
  <2> QED
    BY <1>2, <2>1, SettleTyped
<1>9. armed \in BOOLEAN /\ hoses \in SUBSET Channels
  OBVIOUS
<1>10. Updated(i, zv, dt).tm =
         [lost |-> LostTimers(t, i.ch, dt), latched |-> hoses,
          stable |-> StableNow(i, dt), sat |-> SatNow(i, dt, on),
          cm |-> CmAdvance(t.cm, i.ch, dt), zero |-> zero, armed |-> armed,
          settle |-> SettleAdd(t.settle, i.ch, dt)]
  BY <1>1, Zenon DEF Whole, t
<1> HIDE DEF zero, armed, hoses
<1> QED
  BY <1>3, <1>4, <1>5, <1>6, <1>7, <1>8, <1>9, <1>10 DEF TimersType

LEMMA FirstTyped ==
  ASSUME cfg \in [master : Channels, auto_zero : BOOLEAN], tm = ResetTimers,
         in = [ch |-> Silent, rpm |-> "none"], res = NoResult
  PROVE  TypeOK
<1>1. tm \in TimersType
  BY ResetTyped
<1>2. Silent \in [Channels -> Reading] /\ NoResult \in ResultType
  BY DEF Silent, Reading, NoResult, ResultType, SyncState, NoMeans, CondKeys
<1> QED
  BY <1>1, <1>2 DEF TypeOK, RpmClass

LEMMA ConfigureTyped ==
  ASSUME TypeOK, NEW m \in Channels, NEW az \in BOOLEAN, Configure(m, az)
  PROVE  TypeOK'
BY ResetTyped DEF Configure, TypeOK

LEMMA SettleResetTyped ==
  ASSUME TypeOK, ResetSettle
  PROVE  TypeOK'
<1>1. tm' \in TimersType
  BY ResetTyped DEF ResetSettle, TypeOK, TimersType
<1> QED
  BY <1>1 DEF ResetSettle, TypeOK

(* The types of the machine hold in every state.                           *)
THEOREM Types == MSpec => []TypeOK
<1>1. MInit => TypeOK
  BY FirstTyped DEF MInit, Init
<1>2. TypeOK /\ [MNext]_mvars => TypeOK'
  <2> SUFFICES ASSUME TypeOK, [MNext]_mvars PROVE TypeOK'
    OBVIOUS
  <2>1. ASSUME NEW i \in Inputs, NEW zv \in BOOLEAN, NEW dt \in Dts, Update(i, zv, dt)
        PROVE  TypeOK'
    <3>1. tm \in TimersType /\ cfg.master \in Channels
      BY DEF TypeOK
    <3>2. tm' \in TimersType /\ res' \in ResultType
      <4>1. i \in InputType /\ tm' = Updated(i, zv, dt).tm /\ res' = Updated(i, zv, dt).res
        BY <2>1, InputsTyped DEF Update
      <4>2. tm' \in TimersType
        BY <3>1, <4>1, TimersTyped
      <4>3. res' \in ResultType
        BY <3>1, <4>1, ResultTyped
      <4> QED
        BY <4>2, <4>3
    <3>3. in' \in [ch : [Channels -> Reading], rpm : RpmClass] /\ cfg' = cfg
      BY <2>1, UpdateParts, InputAssumption
    <3> QED
      BY <3>2, <3>3 DEF TypeOK
  <2>2. CASE MConfigure
    BY <2>2, ConfigureTyped DEF MConfigure, ConfigureStep
  <2>3. CASE MResetSettle
    BY <2>3, SettleResetTyped DEF MResetSettle
  <2>4. CASE UNCHANGED mvars
    BY <2>4 DEF mvars, TypeOK
  <2> QED
    BY <2>1, <2>2, <2>3, <2>4 DEF MNext, MUpdate
<1> QED
  BY <1>1, <1>2, PTL DEF MSpec

-----------------------------------------------------------------------------
(* A hose fault that is shown stays: what is shown is latched, and the     *)
(* timer of the channel has run for the hold.                              *)
ShownIsLatched ==
  hist.fresh => \A c \in Channels : res.cond[c] = "hose" =>
    c \in tm.latched /\ tm.lost[c] >= HoseHold

LEMMA LatchedUpdate ==
  ASSUME NEW i, NEW zv, NEW dt, Update(i, zv, dt)
  PROVE  tm'.latched = {c \in Channels : CondsNow(i, dt)[c] = "hose"}
BY DEF Update, Updated, Base, CondsNow, Conds

LEMMA ShownUpdate ==
  ASSUME NEW i \in Inputs, NEW zv \in BOOLEAN, NEW dt \in Dts, Update(i, zv, dt)
  PROVE  ShownIsLatched'
<1>1. ASSUME NEW c \in Channels, res'.cond[c] = "hose"
      PROVE  c \in tm'.latched /\ tm'.lost[c] >= HoseHold
  <2>1. CondsNow(i, dt)[c] = "hose"
    BY <1>1, CondShown
  <2> QED
    BY <2>1, LatchedUpdate, UpdateParts, CondHeld
<1> QED
  BY <1>1 DEF ShownIsLatched

LEMMA HoseUpdate ==
  ASSUME LostIsSilent, ShownIsLatched, NEW i \in Inputs, NEW zv \in BOOLEAN, NEW dt \in Dts,
         Update(i, zv, dt), Observe(i, dt), NEW c \in Channels,
         hist.fresh, res.cond[c] = "hose",
         hist'.silent[c] >= hist.silent[c], hist.silent[c] # NotRunning,
         Magnitude(in'.ch[c].level) < HoseOff + HoseHyst
  PROVE  res'.cond[c] = "hose"
<1>1. /\ dt \in Int /\ OffHold \in Nat /\ HoseHold \in Nat \ {0} /\ HoseHold <= OffHold
  BY InputAssumption, HoldAssumption
<1>2. /\ hist.silent[c] \in Timer(OffHold) /\ tm.lost[c] = hist.silent[c]
      /\ c \in tm.latched /\ hist.silent[c] >= HoseHold
  BY DEF LostIsSilent, ShownIsLatched
<1>3. hist'.silent[c] = Elapse(BaseHist(dt).silent[c], IsLost(i.ch, c), dt, OffHold)
  <2>1. hist'.silent = [e \in Channels |->
          Elapse(BaseHist(dt).silent[e], IsLost(i.ch, e), dt, OffHold)]
    BY ObserveParts
  <2> QED
    BY <2>1
<1>4. ~(dt < 0) /\ BaseHist(dt) = hist /\ Base(dt) = tm
  <2>1. ASSUME dt < 0
        PROVE  FALSE
    <3>1. BaseHist(dt).silent[c] = -1
      BY <2>1 DEF BaseHist, NoHistory, NotRunning
    <3>2. hist'.silent[c] \in {-1, 0}
      BY <1>3, <3>1 DEF Elapse, NotRunning
    <3> QED
      BY <1>1, <1>2, <3>2 DEF Timer, NotRunning
  <2> QED
    BY <2>1 DEF BaseHist, Base
<1>5. IsLost(i.ch, c)
  <2>1. ~IsLost(i.ch, c) => hist'.silent[c] = -1
    BY <1>3 DEF Elapse, NotRunning
  <2> QED
    BY <1>1, <1>2, <2>1 DEF Timer, NotRunning
<1>6. LostTimers(Base(dt), i.ch, dt)[c] >= HoseHold
  <2>1. LostTimers(Base(dt), i.ch, dt)[c] = Elapse(hist.silent[c], TRUE, dt, OffHold)
    BY <1>2, <1>4, <1>5 DEF LostTimers
  <2> QED
    BY <1>1, <1>2, <1>4, <2>1 DEF Elapse, Timer, NotRunning
<1>7. CondsNow(i, dt)[c] = "hose"
  <2>1. in' = i /\ HoseLimit(Base(dt).latched, c) = HoseOff + HoseHyst
    BY <1>2, <1>4, UpdateParts DEF HoseLimit
  <2> QED
    BY <1>5, <1>6, <2>1 DEF CondsNow, Conds, CondOf, IsLost
<1> QED
  BY <1>7, CondShown

(* WP-9 for every instance: no flapping between two messages, whatever the *)
(* level does within the widened limit.                                    *)
THEOREM HosesStay == MSpec => HoseStays
<1> DEFINE HInv == LostIsSilent /\ ShownIsLatched
           Stay == \A c \in Channels :
                     /\ hist.fresh /\ res.cond[c] = "hose"
                     /\ hist'.silent[c] >= hist.silent[c] /\ hist.silent[c] # NotRunning
                     /\ Magnitude(in'.ch[c].level) < HoseOff + HoseHyst
                     => res'.cond[c] = "hose"
<1>1. MInit => HInv
  BY HoldAssumption
     DEF MInit, Init, ResetTimers, NoHistory, LostIsSilent, ShownIsLatched, Timer, NotRunning
<1>2. HInv /\ [MNext]_mvars => HInv' /\ Stay
  <2> SUFFICES ASSUME LostIsSilent, ShownIsLatched, [MNext]_mvars PROVE HInv' /\ Stay
    OBVIOUS
  <2>1. CASE MUpdate
    BY <2>1, LostUpdate, ShownUpdate, HoseUpdate DEF MUpdate
  <2>2. CASE MConfigure
    <3>1. hist' = NoHistory /\ tm' = ResetTimers
      BY <2>2 DEF MConfigure, ConfigureStep, Configure
    <3>2. HInv'
      BY <3>1, HoldAssumption
         DEF ResetTimers, NoHistory, LostIsSilent, ShownIsLatched, Timer, NotRunning
    <3>3. ASSUME NEW c \in Channels, hist'.silent[c] >= hist.silent[c]
          PROVE  hist.silent[c] = NotRunning
      <4>1. hist'.silent[c] = -1 /\ hist.silent[c] \in Timer(OffHold)
        BY <3>1 DEF NoHistory, NotRunning, LostIsSilent
      <4> QED
        BY <3>3, <4>1, HoldAssumption DEF Timer, NotRunning
    <3> QED
      BY <3>2, <3>3
  <2>3. CASE MResetSettle
    <3>1. /\ UNCHANGED <<in, res>> /\ tm'.lost = tm.lost /\ tm'.latched = tm.latched
          /\ hist'.fresh = hist.fresh /\ hist'.silent = hist.silent
      BY <2>3 DEF MResetSettle, ResetSettle
    <3> QED
      BY <3>1 DEF LostIsSilent, ShownIsLatched
  <2>4. CASE UNCHANGED mvars
    BY <2>4 DEF mvars, LostIsSilent, ShownIsLatched
  <2> QED
    BY <2>1, <2>2, <2>3, <2>4 DEF MNext
<1> QED
  BY <1>1, <1>2, PTL DEF MSpec, HoseStays

-----------------------------------------------------------------------------
(* The request of the automatic zero: the hold of NoSignal is not ahead of *)
(* the observer's, and a settled window is one in which the observer saw   *)
(* every level stand still.                                                *)
OffBehind ==
  /\ tm.zero \in Timer(OffHold) /\ hist.off \in Timer(OffHold)
  /\ tm.zero <= hist.off

SettleType ==
  [age : Timer(SettleWindow), moved : [Channels -> Timer(SettleWindow + 1)],
   level : [Channels -> Int]]

FlatBehind(st, flat, i) ==
  /\ st \in SettleType /\ flat \in Timer(SettleWindow)
  /\ st.age = NotRunning <=> flat = NotRunning
  /\ st.age # NotRunning =>
       /\ \A c \in Channels : st.level[c] = i.ch[c].level
       /\ \/ flat >= SettleWindow \/ flat >= st.age
          \/ \E c \in Channels : st.moved[c] <= flat

Flattened(flat, i, j, dt) ==
  Elapse(IF flat # NotRunning /\ ~SameLevels(i, j) THEN 0 ELSE flat, TRUE, dt, SettleWindow)

LEMMA FlatStep ==
  ASSUME NEW st, NEW flat, NEW i \in Inputs, NEW j, NEW dt \in Int, FlatBehind(st, flat, j),
         dt >= 0 \/ (st = SettleEmpty /\ flat = NotRunning)
  PROVE  FlatBehind(SettleAdd(st, i.ch, dt), Flattened(flat, i, j, dt), i)
<1> DEFINE s == SettleAdd(st, i.ch, dt)
           h == Flattened(flat, i, j, dt)
<1>1. SettleWindow \in Nat /\ SettleWindow + 1 \in Nat
  BY HoldAssumption
<1>2. s \in SettleType
  BY InputsTyped, SettleTyped DEF FlatBehind, SettleType
<1>3. /\ s.age = Elapse(st.age, TRUE, dt, SettleWindow)
      /\ s.level = [c \in Channels |-> i.ch[c].level]
      /\ s.moved = [c \in Channels |->
           IF st.age = NotRunning THEN SettleWindow + 1
           ELSE Elapse(IF i.ch[c].level = st.level[c] THEN st.moved[c] ELSE 0,
                       TRUE, dt, SettleWindow + 1)]
  BY DEF SettleAdd
<1>4. /\ st.age \in Timer(SettleWindow) /\ flat \in Timer(SettleWindow)
      /\ st.moved \in [Channels -> Timer(SettleWindow + 1)]
      /\ st.age = NotRunning <=> flat = NotRunning
      /\ dt >= 0 \/ flat = NotRunning
  BY DEF FlatBehind, SettleType
<1> HIDE DEF s
<1>5. \A c \in Channels : s.level[c] = i.ch[c].level
  BY <1>3
<1>6. h \in Timer(SettleWindow) /\ h # NotRunning /\ s.age # NotRunning
  BY <1>1, <1>3, <1>4 DEF Flattened, Elapse, Timer, NotRunning
<1>7. h >= SettleWindow \/ h >= s.age \/ \E c \in Channels : s.moved[c] <= h
  <2>1. CASE flat = NotRunning
    BY <1>1, <1>3, <1>4, <2>1 DEF Flattened, Elapse, Timer, NotRunning
  <2>2. ASSUME flat # NotRunning, NEW c \in Channels, i.ch[c].level # j.ch[c].level
        PROVE  s.moved[c] <= h \/ h >= SettleWindow
    <3>1. i.ch[c].level # st.level[c] /\ dt >= 0 /\ st.age # NotRunning
      BY <1>4, <2>2 DEF FlatBehind
    <3>2. s.moved[c] = Elapse(0, TRUE, dt, SettleWindow + 1)
      BY <1>3, <3>1
    <3>3. h = Elapse(0, TRUE, dt, SettleWindow)
      BY <2>2 DEF Flattened, SameLevels
    <3> QED
      BY <1>1, <3>1, <3>2, <3>3 DEF Elapse, NotRunning
  <2>3. ASSUME flat # NotRunning, SameLevels(i, j)
        PROVE  h >= SettleWindow \/ h >= s.age \/ \E c \in Channels : s.moved[c] <= h
    <3>1. h = Elapse(flat, TRUE, dt, SettleWindow) /\ dt >= 0 /\ st.age # NotRunning
      BY <1>4, <2>3 DEF Flattened
    <3>2. CASE flat >= SettleWindow \/ flat >= st.age
      BY <1>1, <1>3, <1>4, <3>1, <3>2 DEF Elapse, Timer, NotRunning
    <3>3. ASSUME NEW c \in Channels, st.moved[c] <= flat
          PROVE  s.moved[c] <= h \/ h >= SettleWindow
      <4>1. i.ch[c].level = st.level[c] /\ st.moved[c] \in Timer(SettleWindow + 1)
        BY <1>4, <2>3, <3>1 DEF SameLevels, FlatBehind
      <4>2. s.moved[c] = Elapse(st.moved[c], TRUE, dt, SettleWindow + 1)
        BY <1>3, <3>1, <4>1
      <4> QED
        BY <1>1, <1>4, <2>3, <3>1, <3>3, <4>1, <4>2 DEF Elapse, Timer, NotRunning
    <3> QED
      BY <2>3, <3>1, <3>2, <3>3 DEF FlatBehind
  <2> QED
    BY <2>1, <2>2, <2>3 DEF SameLevels
<1> HIDE DEF h
<1>8. FlatBehind(s, h, i)
  BY <1>2, <1>5, <1>6, <1>7 DEF FlatBehind
<1> QED
  BY <1>8 DEF s, h

(* A whole settled window is flat for the observer. *)
LEMMA SettledIsFlat ==
  ASSUME NEW st, NEW flat, NEW i, FlatBehind(st, flat, i), \A c \in Channels : Settled(st, c)
  PROVE  flat >= SettleWindow
<1>1. SettleWindow \in Nat /\ 0 \in Channels
  BY HoldAssumption, ChannelAssumption DEF Channels
<1>2. st.age >= SettleWindow /\ \A c \in Channels : st.moved[c] > SettleWindow
  BY <1>1 DEF Settled
<1>3. /\ st.age \in Timer(SettleWindow) /\ flat \in Timer(SettleWindow)
      /\ st.moved \in [Channels -> Timer(SettleWindow + 1)]
  BY DEF FlatBehind, SettleType
<1>4. st.age # NotRunning
  BY <1>1, <1>2, <1>3 DEF Timer, NotRunning
<1>5. flat >= SettleWindow \/ flat >= st.age \/ \E c \in Channels : st.moved[c] <= flat
  BY <1>4 DEF FlatBehind
<1>6. \A c \in Channels : st.moved[c] \in Timer(SettleWindow + 1)
  BY <1>3
<1> QED
  BY <1>1, <1>2, <1>3, <1>5, <1>6 DEF Timer, NotRunning

RInv == OffBehind /\ FlatBehind(tm.settle, hist.flat, in)

Earning ==
  ~res.request /\ res'.request =>
    hist'.off >= OffHold /\ hist'.flat >= SettleWindow /\ NearZero(in'.ch)

LEMMA ResetSettleTyped == SettleEmpty \in SettleType
BY ResetTyped DEF SettleType

(* The parts of an update that a request comes from. *)
LEMMA AskParts ==
  ASSUME NEW i, NEW zv, NEW dt, Update(i, zv, dt)
  PROVE  /\ \E common : tm'.zero = Elapse(Base(dt).zero,
                                          StateNow(i, zv, dt, common) = "NoSignal", dt, OffHold)
         /\ tm'.settle = SettleAdd(Base(dt).settle, i.ch, dt)
         /\ res'.request => /\ tm'.zero >= OffHold /\ NearZero(i.ch)
                            /\ \A c \in Channels : Settled(tm'.settle, c)
<1> DEFINE t == Base(dt)
           f == i.ch
           cond == CondsNow(i, dt)
           common == CommonMove(CmAdvance(t.cm, f, dt), f)
           armed == t.armed \/ Pulsing(f) # {}
           zero == Elapse(t.zero, StateNow(i, zv, dt, common) = "NoSignal", dt, OffHold)
           settle == SettleAdd(t.settle, f, dt)
<1>1. tm'.zero = zero
  BY Zenon DEF Update, Updated, Base, CondsNow, Conds, StableNow, StateNow
<1>2. tm'.settle = settle
  BY Zenon DEF Update, Updated, Base
<1>3. res'.request = Ask(f, zero, settle, armed)
  BY Zenon DEF Update, Updated, Result, Base, CondsNow, Conds, StableNow, StateNow
<1> QED
  BY <1>1, <1>2, <1>3, Zenon DEF Ask

(* NoSignal: the observer sees an engine that is off. *)
LEMMA NoSignalIsOff ==
  ASSUME NEW i, NEW zv, NEW dt, NEW common, StateNow(i, zv, dt, common) = "NoSignal"
  PROVE  EngineOff(i)
<1>1. Pulsing(i.ch) = {} /\ ~(\E c \in Channels : CondsNow(i, dt)[c] = "sensor")
  BY DEF StateNow, StateOf, Verdict
<1>2. \A c \in Channels : i.ch[c].fault => CondsNow(i, dt)[c] = "sensor"
  BY DEF CondsNow, Conds, CondOf
<1> QED
  BY <1>1, <1>2 DEF EngineOff, Pulsing

LEMMA RequestUpdate ==
  ASSUME RInv, NEW i \in Inputs, NEW zv \in BOOLEAN, NEW dt \in Dts,
         Update(i, zv, dt), Observe(i, dt)
  PROVE  RInv' /\ Earning
<1>1. dt \in Int /\ OffHold \in Nat /\ SettleWindow \in Nat
  BY InputAssumption, HoldAssumption
<1>2. /\ hist'.off = Elapse(BaseHist(dt).off, EngineOff(i), dt, OffHold)
      /\ hist'.flat = Flattened(BaseHist(dt).flat, i, in, dt)
  BY DEF Observe, BaseHist, Flattened
<1>3. PICK common : tm'.zero = Elapse(Base(dt).zero,
                                      StateNow(i, zv, dt, common) = "NoSignal", dt, OffHold)
  BY AskParts
<1>4. StateNow(i, zv, dt, common) = "NoSignal" => EngineOff(i)
  BY NoSignalIsOff
<1>5. OffBehind'
  <2>1. CASE dt < 0
    <3>1. Base(dt).zero = -1 /\ BaseHist(dt).off = -1
      BY <2>1 DEF Base, BaseHist, ResetTimers, NoHistory, NotRunning
    <3> QED
      BY <1>1, <1>2, <1>3, <1>4, <3>1 DEF OffBehind, Elapse, Timer, NotRunning
  <2>2. CASE ~(dt < 0)
    <3>1. dt >= 0 /\ Base(dt) = tm /\ BaseHist(dt) = hist
      BY <1>1, <2>2 DEF Base, BaseHist
    <3>2. /\ tm.zero \in Timer(OffHold) /\ hist.off \in Timer(OffHold)
          /\ tm.zero <= hist.off
      BY DEF RInv, OffBehind
    <3> DEFINE on == StateNow(i, zv, dt, common) = "NoSignal"
               seen == EngineOff(i)
    <3>3. on => seen
      BY <1>4
    <3>4. tm'.zero = Elapse(tm.zero, on, dt, OffHold) /\ hist'.off = Elapse(hist.off, seen, dt, OffHold)
      BY <1>2, <1>3, <3>1
    <3> HIDE DEF on, seen
    <3>5. Elapse(tm.zero, on, dt, OffHold) <= Elapse(hist.off, seen, dt, OffHold)
      BY <1>1, <3>1, <3>2, <3>3, ElapseBehind
    <3>6. tm'.zero <= hist'.off
      BY <3>4, <3>5
    <3>7. tm'.zero \in Timer(OffHold) /\ hist'.off \in Timer(OffHold)
      BY <1>1, <1>2, <1>3, <3>1, <3>2, ElapseTyped
    <3> QED
      BY <3>6, <3>7 DEF OffBehind
  <2> QED
    BY <2>1, <2>2
<1>6. FlatBehind(tm'.settle, hist'.flat, i)
  <2>1. tm'.settle = SettleAdd(Base(dt).settle, i.ch, dt)
    BY AskParts
  <2>2. CASE dt < 0
    <3>1. Base(dt).settle = SettleEmpty /\ BaseHist(dt).flat = NotRunning
      BY <2>2 DEF Base, BaseHist, ResetTimers, NoHistory
    <3>2. FlatBehind(SettleEmpty, NotRunning, in)
      BY <1>1, ResetSettleTyped DEF FlatBehind, SettleEmpty, Timer, NotRunning
    <3> QED
      BY <1>1, <1>2, <2>1, <3>1, <3>2, FlatStep
  <2>3. CASE ~(dt < 0)
    BY <1>1, <1>2, <2>1, <2>3, FlatStep DEF RInv, Base, BaseHist
  <2> QED
    BY <2>2, <2>3
<1>7. in' = i
  BY UpdateParts
<1>8. RInv'
  BY <1>5, <1>6, <1>7 DEF RInv
<1>9. ASSUME res'.request
      PROVE  hist'.off >= OffHold /\ hist'.flat >= SettleWindow /\ NearZero(in'.ch)
  <2>1. /\ tm'.zero >= OffHold /\ NearZero(i.ch)
        /\ \A c \in Channels : Settled(tm'.settle, c)
    BY <1>9, AskParts
  <2>2. hist'.off >= OffHold
    BY <1>1, <1>5, <2>1 DEF OffBehind, Timer, NotRunning
  <2>3. hist'.flat >= SettleWindow
    BY <1>6, <2>1, SettledIsFlat
  <2> QED
    BY <1>7, <2>1, <2>2, <2>3
<1> QED
  BY <1>8, <1>9 DEF Earning

(* Row 1 for every instance: no vacuum that bleeds away, and no broken     *)
(* sensor, is ever asked to become an offset.                              *)
THEOREM RequestsAreEarned == MSpec => RequestEarned
<1>1. FlatBehind(SettleEmpty, NotRunning, in) /\ NotRunning \in Timer(OffHold)
  BY ResetSettleTyped, HoldAssumption DEF FlatBehind, SettleEmpty, Timer, NotRunning
<1>2. MInit => RInv
  BY <1>1 DEF MInit, Init, ResetTimers, NoHistory, RInv, OffBehind, NotRunning
<1>3. RInv /\ [MNext]_mvars => RInv' /\ Earning
  <2> SUFFICES ASSUME RInv, [MNext]_mvars PROVE RInv' /\ Earning
    OBVIOUS
  <2>1. CASE MUpdate
    BY <2>1, RequestUpdate DEF MUpdate
  <2>2. CASE MConfigure
    <3>1. hist' = NoHistory /\ tm' = ResetTimers /\ UNCHANGED <<in, res>>
      BY <2>2 DEF MConfigure, ConfigureStep, Configure
    <3> QED
      BY <1>1, <3>1 DEF ResetTimers, NoHistory, RInv, OffBehind, NotRunning, Earning
  <2>3. CASE MResetSettle
    <3>1. /\ UNCHANGED <<in, res>> /\ tm'.zero = tm.zero /\ tm'.settle = SettleEmpty
          /\ hist'.off = hist.off /\ hist'.flat = NotRunning
      BY <2>3 DEF MResetSettle, ResetSettle
    <3> QED
      BY <1>1, <3>1 DEF RInv, OffBehind, Earning
  <2>4. CASE UNCHANGED mvars
    BY <2>4 DEF mvars, RInv, OffBehind, Earning
  <2> QED
    BY <2>1, <2>2, <2>3, <2>4 DEF MNext
<1> QED
  BY <1>2, <1>3, PTL DEF MSpec, RequestEarned, Earning

-----------------------------------------------------------------------------
(* The processor: the calibration and what the DSP reports.                *)

(* A scale can be undone: what the conversion multiplies, its inverse      *)
(* divides (whole numbers stand for the floating point of the code).       *)
LEMMA Undone ==
  ASSUME NEW g \in Nat \ {0}, NEW x \in Int
  PROVE  (g * x) \div g = x
OBVIOUS

-----------------------------------------------------------------------------
(* The parts of the invariant. *)

Shaped ==
  /\ conv \in Int
  /\ cal \in CalType
  /\ dsp \in [samples : BOOLEAN, report : InputType, real : InputType]
  /\ truth \in [seen : InputType, zero : InputType, fresh : BOOLEAN]
  /\ capture \in [busy : BOOLEAN, n : 0 .. CaptureLen, convs : SUBSET Int]

(* What the DSP reports came through the calibration in use, since every   *)
(* change of it resets the DSP (commitCal, applyConfig).                   *)
ReportIsOfCal ==
  dsp.samples => \A c \in Channels :
    dsp.report.ch[c].level = Calibrated(c, dsp.real.ch[c].level)

(* The samples of a measurement all went through the transform in use.     *)
CaptureOfConv ==
  capture.busy => capture.convs = IF capture.n = 0 THEN {} ELSE {conv}

IInv == Shaped /\ ReportIsOfCal /\ CaptureOfConv /\ ZeroHolds

(* What reads as zero with a calibration. *)
ZeroWith(cl, e) ==
  \A c \in Channels : cl.gain[c] * Nominal(c, e.ch[c].level) + cl.offset[c] = 0

LEMMA ZeroHoldsIs == ZeroHolds <=> (cal.zero_valid => ZeroWith(cal, truth.zero))
BY DEF ZeroHolds, ZeroWith, Calibrated

LEMMA NominalType ==
  ASSUME conv \in Int, NEW c \in Channels, NEW e \in InputType
  PROVE  e.ch[c].level \in Int /\ Nominal(c, e.ch[c].level) \in Int
<1>1. e.ch \in [Channels -> Reading]
  BY DEF InputType
<1>2. e.ch[c] \in Reading
  BY <1>1
<1> QED
  BY <1>2, EngineAssumption DEF Reading, Nominal

LEMMA NothingType == Nothing \in InputType
BY DEF Nothing, InputType, Silent, Reading, RpmClass

-----------------------------------------------------------------------------
(* The three changes of a calibration keep what reads as zero.             *)

LEMMA LevelUndone ==
  ASSUME Shaped, ReportIsOfCal, dsp.samples, NEW c \in Channels
  PROVE  NominalLevel(c) = Nominal(c, dsp.real.ch[c].level)
<1> DEFINE x == Nominal(c, dsp.real.ch[c].level)
           g == cal.gain[c]
           o == cal.offset[c]
<1>1. x \in Int
  BY NominalType DEF Shaped
<1>2. g \in Nat \ {0} /\ o \in Int
  BY DEF Shaped, CalType
<1>3. dsp.report.ch[c].level = g * x + o
  BY DEF ReportIsOfCal, Calibrated
<1> HIDE DEF x, g, o
<1>4. g * x \in Int /\ (g * x + o) - o = g * x
  BY <1>1, <1>2
<1>5. (g * x) \div g = x
  BY <1>1, <1>2, Undone
<1>6. NominalLevel(c) = ((g * x + o) - o) \div g
  BY <1>3 DEF NominalLevel, g, o
<1> QED
  BY <1>4, <1>5, <1>6 DEF x

LEMMA ZeroedHolds ==
  ASSUME Shaped, ReportIsOfCal, dsp.samples
  PROVE  Zeroed \in CalType /\ Zeroed.zero_valid /\ ZeroWith(Zeroed, dsp.real)
         /\ Zeroed.gain = cal.gain /\ Zeroed.gain_valid = cal.gain_valid
<1> DEFINE off == [c \in Channels |-> -(cal.gain[c] * NominalLevel(c))]
<1>1. cal.gain \in [Channels -> Nat \ {0}] /\ cal.gain_valid \in BOOLEAN /\ cal \in CalType
  BY DEF Shaped, CalType
<1>2. ASSUME NEW c \in Channels
      PROVE  /\ cal.gain[c] \in Nat \ {0} /\ Nominal(c, dsp.real.ch[c].level) \in Int
             /\ off[c] = -(cal.gain[c] * Nominal(c, dsp.real.ch[c].level))
  BY <1>1, LevelUndone, NominalType DEF Shaped
<1>3. off \in [Channels -> Int]
  BY <1>2
<1> HIDE DEF off
<1>4. ASSUME NEW c \in Channels
      PROVE  cal.gain[c] * Nominal(c, dsp.real.ch[c].level) + off[c] = 0
  BY <1>2
<1>5. Zeroed = [cal EXCEPT !.offset = off, !.zero_valid = TRUE]
  BY DEF Zeroed, off
<1>6. /\ Zeroed.offset = off /\ Zeroed.gain = cal.gain /\ Zeroed.zero_valid
      /\ Zeroed.gain_valid = cal.gain_valid /\ Zeroed \in CalType
  BY <1>1, <1>3, <1>5 DEF CalType
<1> QED
  BY <1>4, <1>6 DEF ZeroWith

(* The zero point of a channel is the nominal pressure that reads as zero. *)
LEMMA PointFound ==
  ASSUME conv \in Int, NEW cl \in CalType, NEW e \in InputType, ZeroWith(cl, e),
         NEW c \in Channels
  PROVE  /\ ZeroPoint(cl, c) = Nominal(c, e.ch[c].level)
         /\ cl.offset[c] \div cl.gain[c] = -Nominal(c, e.ch[c].level)
<1> DEFINE x == Nominal(c, e.ch[c].level)
           g == cl.gain[c]
           o == cl.offset[c]
<1>1. x \in Int
  BY NominalType
<1>2. g \in Nat \ {0} /\ o \in Int
  BY DEF CalType
<1>3. g * x + o = 0
  BY DEF ZeroWith
<1> HIDE DEF x, g, o
<1>4. -o = g * x /\ o = g * (-x) /\ -x \in Int
  BY <1>1, <1>2, <1>3
<1>5. (g * x) \div g = x /\ (g * (-x)) \div g = -x
  BY <1>1, <1>2, <1>4, Undone
<1>6. (-o) \div g = x /\ o \div g = -x
  BY <1>4, <1>5
<1> QED
  BY <1>6 DEF ZeroPoint, x, g, o

LEMMA GainedHolds ==
  ASSUME conv \in Int, NEW cl \in CalType, NEW e \in InputType, ZeroWith(cl, e),
         NEW g \in GainSets
  PROVE  Gained(cl, g) \in CalType /\ ZeroWith(Gained(cl, g), e)
         /\ Gained(cl, g).zero_valid = cl.zero_valid /\ Gained(cl, g).gain = g
<1> DEFINE off == [c \in Channels |-> -(g[c] * ZeroPoint(cl, c))]
           d == Gained(cl, g)
<1>1. g \in [Channels -> Nat \ {0}]
  BY EngineAssumption
<1>2. ASSUME NEW c \in Channels
      PROVE  /\ g[c] \in Nat \ {0} /\ Nominal(c, e.ch[c].level) \in Int
             /\ off[c] = -(g[c] * Nominal(c, e.ch[c].level))
  BY <1>1, PointFound, NominalType
<1>3. off \in [Channels -> Int]
  BY <1>2
<1>4. d = [cl EXCEPT !.gain = g, !.gain_valid = TRUE, !.offset = off]
  BY DEF Gained
<1> HIDE DEF off, d
<1>5. d \in CalType /\ d.offset = off /\ d.gain = g /\ d.zero_valid = cl.zero_valid
  BY <1>1, <1>3, <1>4 DEF CalType
<1>6. ASSUME NEW c \in Channels
      PROVE  g[c] * Nominal(c, e.ch[c].level) + off[c] = 0
  BY <1>2
<1> QED
  BY <1>5, <1>6 DEF ZeroWith, d

-----------------------------------------------------------------------------
(* What is left of the invariant after a step. *)

LEMMA ZeroNext ==
  ASSUME NEW k, NEW e, cal' = k, truth'.zero = e, conv' = conv, k.zero_valid => ZeroWith(k, e)
  PROVE  ZeroHolds'
BY DEF ZeroHolds, ZeroWith, Calibrated, Nominal

LEMMA ResetNext ==
  ASSUME dsp' = DspReset
  PROVE  ReportIsOfCal' /\ dsp' \in [samples : BOOLEAN, report : InputType, real : InputType]
BY NothingType DEF ReportIsOfCal, DspReset

LEMMA ReportedType ==
  ASSUME Shaped, NEW e \in Engines
  PROVE  /\ e \in InputType /\ Reported(e) \in InputType
         /\ \A c \in Channels : Reported(e).ch[c].level = Calibrated(c, e.ch[c].level)
<1>1. e \in InputType /\ e.ch \in [Channels -> Reading] /\ e.rpm \in RpmClass
  BY EngineAssumption DEF InputType
<1>2. ASSUME NEW c \in Channels, NEW p \in Int
      PROVE  Calibrated(c, p) \in Int
  <2>1. cal.gain[c] \in Nat /\ cal.offset[c] \in Int
    BY DEF Shaped, CalType
  <2>2. Nominal(c, p) \in Int
    BY EngineAssumption DEF Nominal, Shaped
  <2>3. \A g, o \in Int, x \in Int : g * x + o \in Int
    OBVIOUS
  <2> QED
    BY <2>1, <2>2, <2>3 DEF Calibrated
<1> DEFINE ch == [c \in Channels |->
                    [e.ch[c] EXCEPT !.level = Calibrated(c, e.ch[c].level),
                                    !.mean = IF e.ch[c].pulse
                                             THEN Calibrated(c, e.ch[c].mean) ELSE 0]]
<1>3. ASSUME NEW c \in Channels
      PROVE  ch[c] \in Reading /\ ch[c].level = Calibrated(c, e.ch[c].level)
  <2>1. e.ch[c] \in Reading /\ e.ch[c].level \in Int /\ e.ch[c].mean \in Int
    BY <1>1 DEF Reading
  <2>2. Calibrated(c, e.ch[c].level) \in Int /\ Calibrated(c, e.ch[c].mean) \in Int
    BY <1>2, <2>1
  <2> DEFINE l == Calibrated(c, e.ch[c].level)
             m == IF e.ch[c].pulse THEN Calibrated(c, e.ch[c].mean) ELSE 0
  <2>3. ch[c] = [e.ch[c] EXCEPT !.level = l, !.mean = m]
    OBVIOUS
  <2>4. l \in Int /\ m \in Int
    BY <2>2
  <2> HIDE DEF ch, l, m
  <2>5. ch[c] \in Reading /\ ch[c].level = l
    BY <2>1, <2>3, <2>4 DEF Reading
  <2> QED
    BY <2>5 DEF l
<1>4. Reported(e) = [e EXCEPT !.ch = ch]
  BY DEF Reported
<1>5. ch \in [Channels -> Reading]
  BY <1>3
<1> HIDE DEF ch
<1>6. Reported(e) \in InputType /\ Reported(e).ch = ch
  BY <1>1, <1>4, <1>5 DEF InputType
<1> QED
  BY <1>1, <1>3, <1>6

LEMMA PushStep ==
  ASSUME IInv, NEW e \in Engines, Push(e)
  PROVE  IInv'
<1>1. e \in InputType /\ Reported(e) \in InputType
      /\ \A c \in Channels : Reported(e).ch[c].level = Calibrated(c, e.ch[c].level)
  BY ReportedType DEF IInv
<1>2. dsp' = [samples |-> TRUE, report |-> Reported(e), real |-> e]
  BY DEF Push
<1>3. conv' = conv /\ cal' = cal /\ truth' = truth
  BY DEF Push
<1>4. ReportIsOfCal'
  BY <1>1, <1>2, <1>3 DEF ReportIsOfCal, Calibrated, Nominal
<1>5. CaptureLen \in Nat
  BY EngineAssumption
<1>6. /\ capture' \in [busy : BOOLEAN, n : 0 .. CaptureLen, convs : SUBSET Int]
      /\ CaptureOfConv'
  <2>1. CASE capture.busy /\ capture.n < CaptureLen
    <3>1. capture' = [capture EXCEPT !.n = @ + 1, !.convs = @ \cup {conv}]
      BY <2>1 DEF Push
    <3>2. capture.n + 1 \in 0 .. CaptureLen /\ capture.n + 1 # 0
      BY <1>5, <2>1 DEF IInv, Shaped
    <3>3. capture.convs \cup {conv} = {conv}
      BY <2>1 DEF IInv, CaptureOfConv
    <3>4. capture' \in [busy : BOOLEAN, n : 0 .. CaptureLen, convs : SUBSET Int]
      BY <3>1, <3>2 DEF IInv, Shaped
    <3>5. capture'.n = capture.n + 1 /\ capture'.convs = {conv}
      BY <3>1, <3>3 DEF IInv, Shaped
    <3> QED
      BY <1>3, <3>2, <3>4, <3>5 DEF CaptureOfConv
  <2>2. CASE ~(capture.busy /\ capture.n < CaptureLen)
    <3>1. capture' = capture
      BY <2>2 DEF Push
    <3> QED
      BY <1>3, <3>1 DEF IInv, Shaped, CaptureOfConv
  <2> QED
    BY <2>1, <2>2
<1>7. Shaped'
  BY <1>1, <1>2, <1>3, <1>6 DEF IInv, Shaped
<1>8. ZeroHolds'
  BY <1>3 DEF IInv, ZeroHolds, Calibrated, Nominal
<1> QED
  BY <1>4, <1>6, <1>7, <1>8 DEF IInv

-----------------------------------------------------------------------------
(* A tick. *)

(* The request of the automatic zero is only made on a settled window.     *)
LEMMA RequestSettled ==
  ASSUME NEW i, NEW zv, NEW dt, Updated(i, zv, dt).res.request
  PROVE  \A c \in Channels : Settled(Updated(i, zv, dt).tm.settle, c)
BY DEF Updated, Result, Ask

Earned ==
  cal'.gain_valid /\ cal'.gain # cal.gain =>
    cal'.zero_valid /\ capture.n = CaptureLen /\ capture.convs = {conv'}
Agrees ==
  /\ ~res.request /\ res'.request /\ dsp.samples
  /\ \A c \in Channels : Magnitude(NominalLevel(c)) <= OffKpa
  => cal'.zero_valid /\ truth'.zero = dsp.real

(* What a tick makes of the calibration and of the DSP. *)
TickShape(dt) ==
  /\ cal'.gain = cal.gain \/ cal'.gain \in GainSets
  /\ \/ cal'.zero_valid = cal.zero_valid /\ truth'.zero = truth.zero
     \/ (\E s : ZeroResult(s) = "Ok") /\ truth'.zero = dsp.real
  /\ dsp' = DspReset \/ UNCHANGED <<dsp, cal>>
  /\ conv' = conv /\ truth'.seen = dsp.real
  /\ res' = Updated(dsp.report, cal.zero_valid, dt).res

(* How a measurement may end. *)
LEMMA EndsWell ==
  ASSUME conv \in Int, NEW cl \in CalType, NEW e \in InputType,
         cl.zero_valid => ZeroWith(cl, e), NEW end \in GainOutcomes(cl)
  PROVE  /\ end.cal \in CalType /\ end.cal.zero_valid = cl.zero_valid
         /\ end.cal.zero_valid => ZeroWith(end.cal, e)
         /\ \/ end.name = "Ok" /\ cl.zero_valid /\ end.cal.gain \in GainSets
            \/ end.name # "Ok" /\ end.cal = cl
<1>1. CASE end = [name |-> IF cl.zero_valid THEN "Rejected" ELSE "NoZero", cal |-> cl]
  <2>1. end.cal = cl /\ end.name # "Ok"
    BY <1>1
  <2> QED
    BY <2>1
<1>2. ASSUME cl.zero_valid, NEW g \in GainSets, end = [name |-> "Ok", cal |-> Gained(cl, g)]
      PROVE  /\ end.cal \in CalType /\ end.cal.zero_valid = cl.zero_valid
             /\ ZeroWith(end.cal, e)
             /\ end.name = "Ok" /\ end.cal.gain \in GainSets
  <2>1. end.cal = Gained(cl, g) /\ end.name = "Ok"
    BY <1>2
  <2> QED
    BY <1>2, <2>1, GainedHolds
<1> QED
  BY <1>1, <1>2 DEF GainOutcomes

LEMMA TickStep ==
  ASSUME IInv, NEW dt, Tick(dt)
  PROVE  IInv' /\ Earned /\ Agrees /\ TickShape(dt)
<1> DEFINE u == Updated(dsp.report, cal.zero_valid, dt)
           zr == IF u.res.request THEN ZeroResult(u.tm.settle) ELSE "none"
           c1 == IF zr = "Ok" THEN Zeroed ELSE cal
           ending == capture.busy /\ capture.n = CaptureLen
           ends == IF ending THEN GainOutcomes(c1) ELSE {[name |-> "none", cal |-> c1]}
           z == IF zr = "Ok" THEN dsp.real ELSE truth.zero
<1>1. PICK end \in ends :
        LET commit == zr = "Ok" \/ end.name = "Ok"
        IN /\ res' = u.res
           /\ cal' = end.cal
           /\ IF commit THEN commitCal ELSE UNCHANGED dsp
           /\ capture' = [capture EXCEPT !.busy = @ /\ ~ending]
           /\ truth' = [seen |-> dsp.real, fresh |-> TRUE, zero |-> z]
           /\ conv' = conv
  BY DEF Tick
<1>2. /\ zr = "Ok" => dsp.samples /\ \E s : ZeroResult(s) = "Ok"
      /\ zr # "Ok" => z = truth.zero
  BY DEF ZeroResult
<1>3. Agrees <=> (res'.request /\ ~res.request /\ dsp.samples
                  /\ (\A c \in Channels : Magnitude(NominalLevel(c)) <= OffKpa)
                  => cal'.zero_valid /\ truth'.zero = dsp.real)
  BY DEF Agrees
<1>4. /\ u.res.request /\ dsp.samples
      /\ \A c \in Channels : Magnitude(NominalLevel(c)) <= OffKpa
      => zr = "Ok"
  <2> SUFFICES ASSUME u.res.request, dsp.samples,
                      \A c \in Channels : Magnitude(NominalLevel(c)) <= OffKpa
               PROVE  zr = "Ok"
    OBVIOUS
  <2>1. \A c \in Channels : Settled(u.tm.settle, c)
    BY RequestSettled
  <2>2. \A c \in Channels : Magnitude(NominalLevel(c)) \in Int
    <3> SUFFICES ASSUME NEW c \in Channels PROVE Magnitude(NominalLevel(c)) \in Int
      OBVIOUS
    <3>1. Nominal(c, dsp.real.ch[c].level) \in Int
      BY NominalType DEF IInv, Shaped
    <3> QED
      BY <3>1, LevelUndone DEF IInv, Magnitude
  <2>3. ~(\E c \in Channels : Magnitude(NominalLevel(c)) > OffKpa)
    BY <2>2, LimitAssumption
  <2> HIDE DEF u
  <2> QED
    BY <2>1, <2>3 DEF ZeroResult
<1> HIDE DEF u, zr, ending
<1>5. /\ c1 \in CalType /\ c1.gain = cal.gain /\ c1.gain_valid = cal.gain_valid
      /\ z \in InputType
      /\ c1.zero_valid => ZeroWith(c1, z)
      /\ zr = "Ok" => c1.zero_valid /\ z = dsp.real
      /\ zr # "Ok" => c1 = cal
  <2>1. CASE zr = "Ok"
    BY <1>2, <2>1, ZeroedHolds DEF IInv, Shaped
  <2>2. CASE zr # "Ok"
    BY <2>2, ZeroHoldsIs DEF IInv, Shaped
  <2> QED
    BY <2>1, <2>2
<1> HIDE DEF c1, z
<1>6. /\ end.cal \in CalType /\ end.cal.zero_valid = c1.zero_valid
      /\ end.cal.zero_valid => ZeroWith(end.cal, z)
      /\ \/ end.name = "Ok" /\ c1.zero_valid /\ ending /\ end.cal.gain \in GainSets
         \/ end.name # "Ok" /\ end.cal = c1
  <2>1. CASE ending
    BY <1>5, <2>1, EndsWell DEF IInv, Shaped
  <2>2. CASE ~ending
    <3>1. end = [name |-> "none", cal |-> c1]
      BY <2>2
    <3>2. end.cal = c1 /\ end.name # "Ok"
      BY <3>1
    <3> QED
      BY <1>5, <3>2
  <2> QED
    BY <2>1, <2>2
<1>7. /\ res' = u.res /\ cal' = end.cal /\ conv' = conv
      /\ capture' = [capture EXCEPT !.busy = @ /\ ~ending]
      /\ truth' = [seen |-> dsp.real, fresh |-> TRUE, zero |-> z]
  BY <1>1
<1>8. \/ dsp' = DspReset
      \/ dsp' = dsp /\ zr # "Ok" /\ end.name # "Ok"
  BY <1>1 DEF commitCal
<1>9. truth'.zero = z /\ truth' \in [seen : InputType, zero : InputType, fresh : BOOLEAN]
  BY <1>5, <1>7 DEF IInv, Shaped
<1>10. capture' \in [busy : BOOLEAN, n : 0 .. CaptureLen, convs : SUBSET Int] /\ CaptureOfConv'
  <2>1. /\ capture'.busy = (capture.busy /\ ~ending)
        /\ capture'.n = capture.n /\ capture'.convs = capture.convs
    BY <1>7 DEF IInv, Shaped
  <2>2. capture' \in [busy : BOOLEAN, n : 0 .. CaptureLen, convs : SUBSET Int]
    BY <1>7 DEF IInv, Shaped, ending
  <2> QED
    BY <1>7, <2>1, <2>2 DEF IInv, CaptureOfConv
<1>11. ReportIsOfCal' /\ dsp' \in [samples : BOOLEAN, report : InputType, real : InputType]
  <2>1. CASE dsp' = DspReset
    BY <2>1, ResetNext
  <2>2. CASE dsp' = dsp /\ zr # "Ok" /\ end.name # "Ok"
    <3>1. cal' = cal /\ dsp' = dsp /\ conv' = conv
      BY <1>5, <1>6, <1>7, <2>2
    <3> QED
      BY <3>1 DEF IInv, Shaped, ReportIsOfCal, Calibrated, Nominal
  <2> QED
    BY <1>8, <2>1, <2>2
<1>12. ZeroHolds'
  BY <1>6, <1>7, <1>9, ZeroNext
<1>13. Shaped'
  BY <1>6, <1>7, <1>9, <1>10, <1>11 DEF IInv, Shaped
<1>14. IInv'
  BY <1>10, <1>11, <1>12, <1>13 DEF IInv
<1>15. Earned
  <2> SUFFICES ASSUME cal'.gain_valid, cal'.gain # cal.gain
               PROVE  cal'.zero_valid /\ capture.n = CaptureLen /\ capture.convs = {conv'}
    BY DEF Earned
  <2>1. end.name = "Ok" /\ c1.zero_valid /\ ending
    BY <1>5, <1>6, <1>7
  <2>2. capture.busy /\ capture.n = CaptureLen /\ capture.n # 0
    BY <2>1, EngineAssumption DEF ending
  <2> QED
    BY <1>6, <1>7, <2>1, <2>2 DEF IInv, CaptureOfConv
<1>16. Agrees
  BY <1>3, <1>4, <1>5, <1>6, <1>7, <1>9
<1>17. TickShape(dt)
  <2>1. cal'.gain = cal.gain \/ cal'.gain \in GainSets
    BY <1>5, <1>6, <1>7
  <2>2. \/ cal'.zero_valid = cal.zero_valid /\ truth'.zero = truth.zero
        \/ (\E s : ZeroResult(s) = "Ok") /\ truth'.zero = dsp.real
    BY <1>2, <1>5, <1>6, <1>7, <1>9
  <2>3. dsp' = DspReset \/ UNCHANGED <<dsp, cal>>
    BY <1>5, <1>6, <1>7, <1>8
  <2>4. truth'.seen = dsp.real /\ res' = Updated(dsp.report, cal.zero_valid, dt).res
    BY <1>7 DEF u
  <2> QED
    BY <1>7, <2>1, <2>2, <2>3, <2>4 DEF TickShape
<1> QED
  BY <1>14, <1>15, <1>16, <1>17

-----------------------------------------------------------------------------
(* The web handlers and loop(). *)

LEMMA ZeroNowStep ==
  ASSUME IInv, ZeroNow
  PROVE  IInv' /\ Earned
<1>1. dsp.samples
  BY DEF ZeroNow, ZeroResult
<1>2. /\ Zeroed \in CalType /\ Zeroed.zero_valid /\ ZeroWith(Zeroed, dsp.real)
      /\ Zeroed.gain = cal.gain
  BY <1>1, ZeroedHolds DEF IInv
<1>3. /\ cal' = Zeroed /\ dsp' = DspReset /\ conv' = conv /\ capture' = capture
      /\ truth' = [truth EXCEPT !.zero = dsp.real]
  BY DEF ZeroNow, commitCal
<1>4. truth'.zero = dsp.real /\ truth' \in [seen : InputType, zero : InputType, fresh : BOOLEAN]
  BY <1>3 DEF IInv, Shaped
<1>5. ZeroHolds'
  BY <1>2, <1>3, <1>4, ZeroNext
<1>6. Shaped' /\ ReportIsOfCal' /\ CaptureOfConv'
  BY <1>2, <1>3, <1>4, ResetNext DEF IInv, Shaped, CaptureOfConv
<1> QED
  BY <1>2, <1>3, <1>5, <1>6 DEF IInv, Earned

LEMMA CaptureStep ==
  ASSUME IInv, StartGainCapture
  PROVE  IInv' /\ Earned
<1>1. capture' = [Idle EXCEPT !.busy = TRUE] /\ UNCHANGED <<conv, cal, dsp, truth>>
  BY DEF StartGainCapture
<1>2. capture'.busy /\ capture'.n = 0 /\ capture'.convs = {}
  BY <1>1 DEF Idle
<1>3. capture' \in [busy : BOOLEAN, n : 0 .. CaptureLen, convs : SUBSET Int]
  <2>1. capture' = [busy |-> TRUE, n |-> 0, convs |-> {}]
    BY <1>1 DEF Idle
  <2>2. 0 \in 0 .. CaptureLen /\ {} \in SUBSET Int
    BY EngineAssumption
  <2> QED
    BY <2>1, <2>2
<1>4. CaptureOfConv'
  BY <1>2 DEF CaptureOfConv
<1> QED
  BY <1>1, <1>3, <1>4
     DEF IInv, Shaped, ReportIsOfCal, ZeroHolds, Calibrated, Nominal, Earned

LEMMA ResetGainStep ==
  ASSUME IInv, ResetGain
  PROVE  IInv' /\ Earned
<1> DEFINE off == [k \in Channels |-> cal.offset[k] \div cal.gain[k]]
           k1 == [cal EXCEPT !.gain = Unity, !.gain_valid = FALSE, !.offset = off]
<1>1. /\ cal' = k1 /\ dsp' = DspReset /\ UNCHANGED <<conv, capture, truth>>
  BY DEF ResetGain, commitCal
<1>2. off \in [Channels -> Int]
  BY DEF IInv, Shaped, CalType
<1>3. ASSUME cal.zero_valid, NEW c \in Channels
      PROVE  /\ off[c] = -Nominal(c, truth.zero.ch[c].level)
             /\ Nominal(c, truth.zero.ch[c].level) \in Int
  BY <1>3, PointFound, ZeroHoldsIs, NominalType DEF IInv, Shaped
<1> HIDE DEF off
<1>4. /\ k1 \in CalType /\ ~k1.gain_valid /\ k1.zero_valid = cal.zero_valid
      /\ k1.gain = Unity /\ k1.offset = off
  <2>1. Unity \in [Channels -> Nat \ {0}]
    BY DEF Unity
  <2>2. cal \in CalType
    BY DEF IInv, Shaped
  <2> QED
    BY <1>2, <2>1, <2>2 DEF CalType
<1> HIDE DEF k1
<1>5. k1.zero_valid => ZeroWith(k1, truth.zero)
  <2> SUFFICES ASSUME cal.zero_valid, NEW c \in Channels
               PROVE  k1.gain[c] * Nominal(c, truth.zero.ch[c].level) + k1.offset[c] = 0
    BY <1>4 DEF ZeroWith
  <2>1. k1.gain[c] = 1
    BY <1>4 DEF Unity
  <2> QED
    BY <1>3, <1>4, <2>1
<1>6. ZeroHolds'
  BY <1>1, <1>5, ZeroNext
<1>7. Shaped' /\ ReportIsOfCal' /\ CaptureOfConv'
  BY <1>1, <1>4, ResetNext DEF IInv, Shaped, CaptureOfConv
<1> QED
  BY <1>1, <1>4, <1>6, <1>7 DEF IInv, Earned

LEMMA SetMasterStep ==
  ASSUME IInv, NEW m, SetMaster(m)
  PROVE  IInv' /\ Earned
<1>1. UNCHANGED <<conv, cal, dsp, capture>> /\ truth' = [truth EXCEPT !.fresh = FALSE]
  BY DEF SetMaster
<1>2. truth'.zero = truth.zero
      /\ truth' \in [seen : InputType, zero : InputType, fresh : BOOLEAN]
  BY <1>1 DEF IInv, Shaped
<1>3. ZeroHolds'
  BY <1>1, <1>2, ZeroHoldsIs, ZeroNext DEF IInv
<1> QED
  BY <1>1, <1>2, <1>3
     DEF IInv, Shaped, ReportIsOfCal, CaptureOfConv, Calibrated, Nominal, Earned

LEMMA ApplyStep ==
  ASSUME IInv, NEW s \in Settings, ApplyConfig(s)
  PROVE  IInv' /\ Earned
<1>1. /\ conv' = s.conv /\ dsp' = DspReset
      /\ cal' = [cal EXCEPT !.zero_valid = ZeroKept(s)]
      /\ capture' = [capture EXCEPT !.busy = FALSE]
      /\ truth' = [truth EXCEPT !.fresh = FALSE,
                                !.zero = IF s.conv = conv THEN @ ELSE Nothing]
  BY DEF ApplyConfig
<1>2. conv' \in Int
  BY <1>1, EngineAssumption
<1>3. /\ cal' \in CalType /\ cal'.gain = cal.gain /\ cal'.offset = cal.offset
      /\ cal'.zero_valid => cal.zero_valid /\ conv' = conv
  <2>1. ZeroKept(s) \in BOOLEAN /\ (ZeroKept(s) => cal.zero_valid /\ s.conv = conv)
    BY DEF ZeroKept, IInv, Shaped, CalType
  <2> QED
    BY <1>1, <2>1 DEF IInv, Shaped, CalType
<1>4. /\ truth' \in [seen : InputType, zero : InputType, fresh : BOOLEAN]
      /\ conv' = conv => truth'.zero = truth.zero
  BY <1>1, NothingType DEF IInv, Shaped
<1>5. /\ capture' \in [busy : BOOLEAN, n : 0 .. CaptureLen, convs : SUBSET Int]
      /\ ~capture'.busy
  BY <1>1 DEF IInv, Shaped
<1>6. ZeroHolds'
  BY <1>3, <1>4 DEF IInv, ZeroHolds, Calibrated, Nominal
<1>7. Shaped' /\ ReportIsOfCal' /\ CaptureOfConv'
  BY <1>1, <1>2, <1>3, <1>4, <1>5, ResetNext DEF Shaped, CaptureOfConv
<1> QED
  BY <1>3, <1>6, <1>7 DEF IInv, Earned

-----------------------------------------------------------------------------
(* Only a tick answers a request; any other step leaves the last answer.   *)
LEMMA Untouched ==
  ASSUME \/ \E e \in Engines : Push(e)
         \/ ZeroNow \/ StartGainCapture \/ ResetGain
         \/ \E s \in Settings : SetMaster(s.cfg.master)
         \/ \E s \in Settings : ApplyConfig(s)
         \/ TakeDirty \/ UNCHANGED vars
  PROVE  Agrees
<1>1. res' = res
  BY DEF Push, ZeroNow, StartGainCapture, ResetGain, SetMaster, ApplyConfig, TakeDirty,
         Configure, ResetSettle, smvars, vars
<1> QED
  BY <1>1 DEF Agrees

LEMMA Inductive == IInv /\ [PNext]_vars => IInv' /\ Earned /\ Agrees
<1> SUFFICES ASSUME IInv, [PNext]_vars
             PROVE  IInv' /\ Earned /\ Agrees
  OBVIOUS
<1>1. CASE \E e \in Engines : Push(e)
  <2>1. IInv'
    BY <1>1, PushStep
  <2>2. cal' = cal
    BY <1>1 DEF Push
  <2> QED
    BY <1>1, <2>1, <2>2, Untouched DEF Earned
<1>2. CASE \E dt \in Dts : Tick(dt)
  BY <1>2, TickStep
<1>3. CASE ZeroNow
  BY <1>3, ZeroNowStep, Untouched
<1>4. CASE StartGainCapture
  BY <1>4, CaptureStep, Untouched
<1>5. CASE ResetGain
  BY <1>5, ResetGainStep, Untouched
<1>6. CASE \E s \in Settings : SetMaster(s.cfg.master)
  BY <1>6, SetMasterStep, Untouched
<1>7. CASE \E s \in Settings : ApplyConfig(s)
  BY <1>7, ApplyStep, Untouched
<1>8. CASE TakeDirty \/ UNCHANGED vars
  <2>1. UNCHANGED <<conv, cal, dsp, capture, truth>>
    BY <1>8 DEF TakeDirty, vars, pvars
  <2> QED
    BY <1>8, <2>1, Untouched
       DEF IInv, Shaped, ReportIsOfCal, CaptureOfConv, ZeroHolds, Calibrated, Nominal, Earned
<1> QED
  BY <1>1, <1>2, <1>3, <1>4, <1>5, <1>6, <1>7, <1>8 DEF PNext

LEMMA AtFirst == PInit => IInv
<1> SUFFICES ASSUME PInit
             PROVE  IInv
  OBVIOUS
<1>1. conv \in Int /\ dsp = DspReset /\ capture = Idle
      /\ truth = [seen |-> Nothing, zero |-> Nothing, fresh |-> FALSE]
  BY EngineAssumption DEF PInit
<1>2. PICK k \in Flash : cal = Loaded(k)
  BY DEF PInit
<1>3. cal \in CalType /\ ~cal.zero_valid
  <2>1. Sound(k) \in BOOLEAN /\ Unity \in [Channels -> Nat \ {0}]
        /\ NoMeans \in [Channels -> Int]
    BY DEF Sound, Flash, Unity, NoMeans
  <2>2. Sound(k) => k.gain \in [Channels -> Nat \ {0}]
    <3>1. k.gain \in [Channels -> Nat]
      BY EngineAssumption DEF Flash, Unity, NoMeans
    <3> QED
      BY <3>1 DEF Sound
  <2> QED
    BY <1>2, <2>1, <2>2 DEF Loaded, CalType
<1>4. dsp \in [samples : BOOLEAN, report : InputType, real : InputType] /\ ReportIsOfCal
  BY <1>1, NothingType DEF DspReset, ReportIsOfCal
<1>5. capture \in [busy : BOOLEAN, n : 0 .. CaptureLen, convs : SUBSET Int] /\ CaptureOfConv
  BY <1>1, EngineAssumption DEF Idle, CaptureOfConv
<1>6. Shaped /\ ZeroHolds
  BY <1>1, <1>3, <1>4, <1>5, NothingType DEF Shaped, ZeroHolds
<1> QED
  BY <1>4, <1>5, <1>6 DEF IInv

LEMMA Invariant == PSpec => []IInv
<1>1. IInv /\ [PNext]_vars => IInv'
  BY Inductive
<1> QED
  BY <1>1, AtFirst, PTL DEF PSpec

-----------------------------------------------------------------------------
(* No gain in use is ever zero and every number of the calibration stays a *)
(* number, whatever was loaded, measured or reset (setCalibration,         *)
(* computeGain): applyCal and its inverse divide by the gains.             *)
CalSound == cal \in CalType

THEOREM GainsNeverZero == PSpec => []CalSound
<1>1. IInv => CalSound
  BY DEF IInv, Shaped, CalSound
<1> QED
  BY <1>1, Invariant, PTL

(* D11: what the zero was taken at goes on reading as zero: over every     *)
(* measurement and reset of the gains (computeGain, resetGain), and a      *)
(* configuration with another transform takes the zero away (applyConfig). *)
THEOREM ZeroAlwaysHolds == PSpec => []ZeroHolds
<1>1. IInv => ZeroHolds
  BY DEF IInv
<1> QED
  BY <1>1, Invariant, PTL

(* Gains come from a full measurement on the transform in use and a zero   *)
(* of the same transform (startGainCapture, tick).                         *)
THEOREM GainsAreEarned == PSpec => GainEarned
<1>1. IInv /\ [PNext]_vars => Earned
  BY Inductive
<1> QED
  BY <1>1, Invariant, PTL DEF PSpec, GainEarned, Earned

(* The automatic zero does what it asked for: near the atmosphere it is    *)
(* not turned down as not settled (tick, zeroFromLevels).                  *)
THEOREM AutoZeroAlwaysAgrees == PSpec => AutoZeroAgrees
<1>1. IInv /\ [PNext]_vars => Agrees
  BY Inductive
<1> QED
  BY <1>1, Invariant, PTL DEF PSpec, AutoZeroAgrees, Agrees

-----------------------------------------------------------------------------
(* The types of the whole: the machine sees reports of the DSP only.       *)
Typed == TypeOK /\ dirty \in [cfg : BOOLEAN, cal : BOOLEAN]

LEMMA TypedFirst == PInit => Typed
<1> SUFFICES ASSUME PInit
             PROVE  Typed
  OBVIOUS
<1>1. cfg \in [master : Channels, auto_zero : BOOLEAN]
  BY EngineAssumption DEF PInit
<1>2. TypeOK
  BY <1>1, FirstTyped DEF PInit, Nothing
<1>3. dirty \in [cfg : BOOLEAN, cal : BOOLEAN]
  BY DEF PInit
<1> QED
  BY <1>2, <1>3 DEF Typed

LEMMA TickTyped ==
  ASSUME IInv, Typed, NEW dt \in Dts, Tick(dt)
  PROVE  Typed'
<1> DEFINE u == Updated(dsp.report, cal.zero_valid, dt)
<1>1. /\ tm' = u.tm \/ tm' = [u.tm EXCEPT !.settle = SettleEmpty]
      /\ res' = u.res /\ in' = dsp.report /\ cfg' = cfg
      /\ \E b \in BOOLEAN : dirty' = [dirty EXCEPT !.cal = b]
  BY Zenon DEF Tick
<1>2. u.tm \in TimersType /\ u.res \in ResultType /\ dsp.report \in InputType
  BY TimersTyped, ResultTyped DEF IInv, Shaped, Typed, TypeOK
<1> HIDE DEF u
<1>3. [u.tm EXCEPT !.settle = SettleEmpty] \in TimersType
  BY <1>2, ResetTyped DEF TimersType
<1>4. dirty' \in [cfg : BOOLEAN, cal : BOOLEAN]
  BY <1>1 DEF Typed
<1> QED
  BY <1>1, <1>2, <1>3, <1>4 DEF Typed, TypeOK, InputType

LEMMA TypedStep == IInv /\ Typed /\ [PNext]_vars => Typed'
<1> SUFFICES ASSUME IInv, Typed, [PNext]_vars
             PROVE  Typed'
  OBVIOUS
<1>1. ASSUME UNCHANGED smvars
      PROVE  TypeOK'
  BY <1>1 DEF Typed, TypeOK, smvars
<1>2. CASE \E e \in Engines : Push(e)
  BY <1>1, <1>2 DEF Push, Typed
<1>3. CASE \E dt \in Dts : Tick(dt)
  BY <1>3, TickTyped
<1>4. CASE ZeroNow
  BY <1>4, SettleResetTyped DEF ZeroNow, Typed
<1>5. CASE StartGainCapture
  BY <1>1, <1>5 DEF StartGainCapture, Typed
<1>6. CASE ResetGain
  BY <1>6, SettleResetTyped DEF ResetGain, Typed
<1>7. ASSUME NEW s \in Settings, SetMaster(s.cfg.master)
      PROVE  Typed'
  <2>1. s.cfg.master \in Channels /\ cfg.auto_zero \in BOOLEAN
    BY EngineAssumption DEF Typed, TypeOK
  <2>2. TypeOK'
    BY <1>7, <2>1, ConfigureTyped DEF SetMaster, Typed
  <2> QED
    BY <1>7, <2>2 DEF SetMaster, Typed
<1>8. ASSUME NEW s \in Settings, ApplyConfig(s)
      PROVE  Typed'
  <2>1. s.cfg.master \in Channels /\ s.cfg.auto_zero \in BOOLEAN
    BY EngineAssumption
  <2>2. TypeOK'
    BY <1>8, <2>1, ConfigureTyped DEF ApplyConfig, Typed
  <2> QED
    BY <1>8, <2>2 DEF ApplyConfig, Typed
<1>9. CASE TakeDirty
  BY <1>1, <1>9 DEF TakeDirty, Typed
<1>10. CASE UNCHANGED vars
  BY <1>1, <1>10 DEF vars, pvars, Typed
<1> QED
  BY <1>2, <1>3, <1>4, <1>5, <1>6, <1>7, <1>8, <1>9, <1>10 DEF PNext

(* Every part of the processor keeps its range in every state: the state   *)
(* machine, which is given the DSP's reports and nothing else, the         *)
(* calibration, the measurement and the flags of loop() (processor.h).     *)
THEOREM ProcessorTypes == PSpec => []PTypeOK
<1>1. PInit => Typed
  BY TypedFirst
<1>2. IInv /\ Typed /\ [PNext]_vars => Typed'
  BY TypedStep
<1>3. IInv /\ Typed => PTypeOK
  BY DEF IInv, Shaped, Typed, PTypeOK
<1> QED
  BY <1>1, <1>2, <1>3, Invariant, PTL DEF PSpec

-----------------------------------------------------------------------------
(* Green.                                                                  *)

(* What the machine takes for synchronised: with a zero, every channel     *)
(* pulsing and no two means further apart than the tolerance.              *)
LEMMA GreenNeeds ==
  ASSUME NEW i, NEW cond, NEW common, NEW stable, NEW spread, NEW zv,
         StateOf(i, cond, common, stable, spread, zv) = "Synced"
  PROVE  zv /\ spread <= TolGreen
BY DEF StateOf, Verdict

LEMMA GreenParts ==
  ASSUME tm \in TimersType, cfg.master \in Channels, NEW i \in InputType, NEW zv, NEW dt \in Dts,
         Updated(i, zv, dt).res.state = "Synced"
  PROVE  /\ zv /\ \A c \in Channels : i.ch[c].pulse
         /\ \A c, e \in Channels : i.ch[c].mean - i.ch[e].mean <= TolGreen
<1> DEFINE cond == CondsNow(i, dt)
           d == Deltas(i.ch, cond)
<1>1. PICK common, on, ask : Whole(i, zv, dt, common, on, ask)
  BY UpdateWhole
<1>2. StateNow(i, zv, dt, common) = "Synced" /\ Updated(i, zv, dt).tm.stable = StableNow(i, dt)
  BY <1>1 DEF Whole, Result
<1>3. ~(StableNow(i, dt) < StableHold) /\ zv /\ Spread(d) <= TolGreen
  BY <1>2, VerdictNeedsHold, GreenNeeds DEF StateNow, VerdictStates
<1>4. StableNow(i, dt) >= StableHold
  <2>1. StableNow(i, dt) \in Timer(StableHold)
    BY <1>2, TimersTyped DEF TimersType
  <2> QED
    BY <1>3, <2>1, HoldAssumption DEF Timer, NotRunning
<1>5. Measurable(i, cond)
  BY <1>4, ElapseOn, HoldAssumption DEF StableNow
<1>6. \A c \in Channels : cond[c] = "ok" /\ i.ch[c].pulse
  BY <1>5, MeasurableIsOk DEF CondsNow, Measurable, Pulsing
<1>7. ASSUME NEW c \in Channels
      PROVE  d[c] = i.ch[cfg.master].mean - i.ch[c].mean /\ i.ch[c].mean \in Int
  BY <1>6, ReadingType DEF Deltas
<1>8. d \in [Channels -> Int]
  BY ReadingType DEF Deltas
<1> HIDE DEF d, cond
<1>9. ASSUME NEW c \in Channels, NEW e \in Channels
      PROVE  i.ch[c].mean - i.ch[e].mean <= TolGreen
  <2>1. d[e] - d[c] <= Spread(d) /\ Spread(d) \in Int
    BY <1>8, SpreadType
  <2>2. /\ d[c] = i.ch[cfg.master].mean - i.ch[c].mean /\ i.ch[c].mean \in Int
        /\ d[e] = i.ch[cfg.master].mean - i.ch[e].mean /\ i.ch[e].mean \in Int
        /\ i.ch[cfg.master].mean \in Int
    BY <1>7
  <2> QED
    BY <1>3, <2>1, <2>2, LimitAssumption
<1> QED
  BY <1>3, <1>6, <1>9

(* A zero is taken at rest, where one pressure stands in all the hoses.    *)
Even(e) == \A c, d \in Channels : e.ch[c].level = e.ch[d].level
EvenGain(g) == \A c, d \in Channels : g[c] = g[d]

ReportWhole ==
  IF dsp.samples THEN dsp.real \in Engines /\ dsp.report = Reported(dsp.real)
  ELSE dsp.report = Nothing

(* The strengthening: the gains are even, and so was the zero.             *)
EvenInv ==
  /\ EvenGain(cal.gain)
  /\ cal.zero_valid => Even(truth.zero)
  /\ \E s \in Settings : conv = s.conv
  /\ ReportWhole

LEMMA ZeroIsEven ==
  ASSUME EvenAtRest, IInv, EvenInv, NEW s, ZeroResult(s) = "Ok"
  PROVE  Even(dsp.real)
<1>1. dsp.samples /\ \A c \in Channels : ~(Magnitude(NominalLevel(c)) > OffKpa)
  BY DEF ZeroResult
<1>2. PICK k \in Settings : conv = k.conv
  BY DEF EvenInv
<1>3. dsp.real \in Engines
  BY <1>1 DEF EvenInv, ReportWhole
<1>4. ASSUME NEW c \in Channels
      PROVE  Magnitude(dsp.real.ch[c].level + Err[c] - k.conv) <= OffKpa
  <2>1. NominalLevel(c) = Nominal(c, dsp.real.ch[c].level)
    BY <1>1, LevelUndone DEF IInv
  <2>2. Nominal(c, dsp.real.ch[c].level) \in Int
    BY NominalType DEF IInv, Shaped
  <2>3. Magnitude(Nominal(c, dsp.real.ch[c].level)) <= OffKpa
    BY <1>1, <2>1, <2>2, LimitAssumption DEF Magnitude
  <2> QED
    BY <1>2, <2>3 DEF Nominal
<1> QED
  BY <1>3, <1>4 DEF EvenAtRest, Even

(* What is green at a tick: with even gains and an even zero the means     *)
(* that were shown are the true ones, times the gain.                      *)
LEMMA GreenTick ==
  ASSUME IInv, EvenInv, Typed, NEW dt \in Dts,
         Updated(dsp.report, cal.zero_valid, dt).res.state = "Synced",
         NEW c \in Channels, NEW e \in Channels
  PROVE  dsp.real.ch[c].mean - dsp.real.ch[e].mean <= TolGreen
<1> DEFINE i == dsp.report
<1>1. /\ cal.zero_valid /\ i.ch[c].pulse /\ i.ch[e].pulse
      /\ i.ch[c].mean - i.ch[e].mean <= TolGreen
  BY GreenParts DEF Typed, TypeOK, IInv, Shaped
<1>2. dsp.samples
  <2>1. ~Nothing.ch[c].pulse
    BY DEF Nothing, Silent
  <2> QED
    BY <1>1, <2>1 DEF EvenInv, ReportWhole
<1>3. dsp.real \in InputType /\ i = Reported(dsp.real)
  BY <1>2 DEF IInv, Shaped, EvenInv, ReportWhole
<1>4. ASSUME NEW k \in Channels, i.ch[k].pulse
      PROVE  i.ch[k].mean = Calibrated(k, dsp.real.ch[k].mean)
  <2>1. dsp.real.ch \in [Channels -> Reading] /\ dsp.real.ch[k] \in Reading
    BY <1>3, ReadingType
  <2>2. i.ch[k] = [dsp.real.ch[k] EXCEPT !.level = Calibrated(k, dsp.real.ch[k].level),
                       !.mean = IF dsp.real.ch[k].pulse
                                THEN Calibrated(k, dsp.real.ch[k].mean) ELSE 0]
    <3> DEFINE f == [o \in Channels |->
                       [dsp.real.ch[o] EXCEPT
                          !.level = Calibrated(o, dsp.real.ch[o].level),
                          !.mean = IF dsp.real.ch[o].pulse
                                   THEN Calibrated(o, dsp.real.ch[o].mean) ELSE 0]]
    <3>1. Reported(dsp.real) = [dsp.real EXCEPT !.ch = f]
      BY DEF Reported
    <3>2. i.ch = f
      <4> HIDE DEF f, i
      <4> QED
        BY <1>3, <3>1 DEF InputType
    <3> QED
      BY <3>2
  <2> HIDE DEF i
  <2> DEFINE r == dsp.real.ch[k]
             l == Calibrated(k, dsp.real.ch[k].level)
             m == Calibrated(k, dsp.real.ch[k].mean)
  <2>3. i.ch[k] = [r EXCEPT !.level = l, !.mean = IF r.pulse THEN m ELSE 0] /\ r \in Reading
    BY <2>1, <2>2
  <2>4. i.ch[k].mean = m
    <3> HIDE DEF r, l, m
    <3> QED
      BY <1>4, <2>3 DEF Reading
  <2> QED
    BY <2>4
<1> DEFINE z == truth.zero.ch[c].level
           g == cal.gain[c]
           x == dsp.real.ch[c].mean
           y == dsp.real.ch[e].mean
           oc == cal.offset[c]
           oe == cal.offset[e]
           kc == Err[c] - conv
           ke == Err[e] - conv
<1>5. truth.zero.ch[e].level = z /\ cal.gain[e] = g
  BY <1>1 DEF EvenInv, EvenGain, Even
<1>6. /\ z \in Int /\ x \in Int /\ y \in Int /\ g \in Nat \ {0} /\ oc \in Int /\ oe \in Int
      /\ kc \in Int /\ ke \in Int
  BY <1>3, ReadingType, EngineAssumption DEF IInv, Shaped, CalType
<1>7. ASSUME NEW k \in Channels, NEW p \in Int
      PROVE  Calibrated(k, p) = cal.gain[k] * (p + (Err[k] - conv)) + cal.offset[k]
  <2>1. p + Err[k] - conv = p + (Err[k] - conv)
    BY <1>7, EngineAssumption DEF IInv, Shaped
  <2> QED
    BY <2>1 DEF Calibrated, Nominal
<1>8. g * (z + kc) + oc = 0 /\ g * (z + ke) + oe = 0
  BY <1>1, <1>5, <1>6, <1>7 DEF IInv, ZeroHolds
<1>9. (g * (x + kc) + oc) - (g * (y + ke) + oe) <= TolGreen
  BY <1>1, <1>4, <1>5, <1>6, <1>7
<1> HIDE DEF i, z, g, x, y, oc, oe, kc, ke
<1>10. g * (x - y) <= TolGreen
  <2>1. /\ g * (z + kc) = g * z + g * kc /\ g * (z + ke) = g * z + g * ke
        /\ g * (x + kc) = g * x + g * kc /\ g * (y + ke) = g * y + g * ke
        /\ g * (x - y) = g * x - g * y
    BY <1>6
  <2> DEFINE gz == g * z
             gx == g * x
             gy == g * y
             gc == g * kc
             ge == g * ke
  <2>2. gz \in Int /\ gx \in Int /\ gy \in Int /\ gc \in Int /\ ge \in Int
    BY <1>6
  <2>3. (gz + gc) + oc = 0 /\ (gz + ge) + oe = 0 /\ ((gx + gc) + oc) - ((gy + ge) + oe) <= TolGreen
    BY <1>8, <1>9, <2>1
  <2> HIDE DEF gz, gx, gy, gc, ge
  <2>4. gx - gy <= TolGreen
    BY <1>6, <2>2, <2>3, LimitAssumption
  <2> QED
    BY <2>1, <2>4 DEF gx, gy
<1>11. x - y <= TolGreen
  <2>1. \A n \in Nat \ {0}, b \in Int : b > 0 => n * b >= b
    OBVIOUS
  <2>2. x - y \in Int /\ TolGreen \in Nat /\ g * (x - y) \in Int
    BY <1>6, LimitAssumption
  <2>3. x - y > 0 => g * (x - y) >= x - y
    BY <1>6, <2>1, <2>2
  <2> QED
    BY <1>10, <2>2, <2>3
<1> QED
  BY <1>11 DEF x, y

LEMMA ReportReset ==
  ASSUME dsp' = DspReset
  PROVE  ReportWhole'
BY DEF ReportWhole, DspReset

LEMMA ReportSame ==
  ASSUME ReportWhole, UNCHANGED <<dsp, cal, conv>>
  PROVE  ReportWhole'
BY DEF ReportWhole, Reported, Calibrated, Nominal

(* What leaves the gains, the zero and the transform alone. *)
LEMMA EvenSame ==
  ASSUME EvenInv, ReportWhole', conv' = conv, cal'.gain = cal.gain,
         cal'.zero_valid = cal.zero_valid, truth'.zero = truth.zero
  PROVE  EvenInv'
BY DEF EvenInv

LEMMA EvenStep ==
  ASSUME EvenGains, EvenAtRest, IInv, EvenInv, [PNext]_vars
  PROVE  EvenInv'
<1>1. ASSUME NEW e \in Engines, Push(e)
      PROVE  EvenInv'
  <2>1. UNCHANGED <<conv, cal, truth>> /\ dsp' = [samples |-> TRUE, report |-> Reported(e), real |-> e]
    BY <1>1 DEF Push
  <2>2. Reported(e)' = Reported(e)
    BY <2>1 DEF Reported, Calibrated, Nominal
  <2>3. ReportWhole'
    BY <2>1, <2>2 DEF ReportWhole
  <2> QED
    BY <2>1, <2>3, EvenSame
<1>2. ASSUME NEW dt \in Dts, Tick(dt)
      PROVE  EvenInv'
  <2>1. TickShape(dt)
    BY <1>2, TickStep
  <2>2. EvenGain(cal'.gain)
    BY <2>1 DEF TickShape, EvenInv, EvenGain, EvenGains
  <2>3. cal'.zero_valid => Even(truth'.zero)
    BY <2>1, ZeroIsEven DEF TickShape, EvenInv
  <2>4. ReportWhole'
    BY <2>1, ReportReset, ReportSame DEF TickShape, EvenInv
  <2> QED
    BY <2>1, <2>2, <2>3, <2>4 DEF TickShape, EvenInv, EvenGain, Even
<1>3. CASE ZeroNow
  <2>1. /\ cal' = Zeroed /\ dsp' = DspReset /\ conv' = conv
        /\ truth' = [truth EXCEPT !.zero = dsp.real]
    BY <1>3 DEF ZeroNow, commitCal
  <2>2. cal'.gain = cal.gain /\ truth'.zero = dsp.real
    BY <2>1 DEF Zeroed, IInv, Shaped, CalType
  <2>3. Even(dsp.real)
    BY <1>3, ZeroIsEven DEF ZeroNow
  <2>4. ReportWhole'
    BY <2>1, ReportReset
  <2> QED
    BY <2>1, <2>2, <2>3, <2>4 DEF EvenInv, EvenGain, Even
<1>4. CASE ResetGain
  <2>1. /\ dsp' = DspReset /\ UNCHANGED <<conv, truth>>
        /\ cal'.gain = Unity /\ cal'.zero_valid = cal.zero_valid
    BY <1>4 DEF ResetGain, commitCal, IInv, Shaped, CalType
  <2>2. EvenGain(Unity)
    BY DEF EvenGain, Unity
  <2>3. ReportWhole'
    BY <2>1, ReportReset
  <2> QED
    BY <2>1, <2>2, <2>3 DEF EvenInv, EvenGain, Even
<1>5. ASSUME NEW s \in Settings, SetMaster(s.cfg.master)
      PROVE  EvenInv'
  <2>1. UNCHANGED <<conv, cal, dsp>> /\ truth'.zero = truth.zero
    BY <1>5 DEF SetMaster, IInv, Shaped
  <2>2. ReportWhole'
    BY <2>1, ReportSame DEF EvenInv
  <2> QED
    BY <2>1, <2>2, EvenSame
<1>6. ASSUME NEW s \in Settings, ApplyConfig(s)
      PROVE  EvenInv'
  <2>1. /\ conv' = s.conv /\ dsp' = DspReset
        /\ cal' = [cal EXCEPT !.zero_valid = ZeroKept(s)]
        /\ truth' = [truth EXCEPT !.fresh = FALSE, !.zero = IF s.conv = conv THEN @ ELSE Nothing]
    BY <1>6 DEF ApplyConfig
  <2>2. cal'.gain = cal.gain /\ (cal'.zero_valid => cal.zero_valid /\ s.conv = conv)
    BY <2>1 DEF ZeroKept, IInv, Shaped, CalType
  <2>3. cal'.zero_valid => truth'.zero = truth.zero
    BY <2>1, <2>2 DEF IInv, Shaped
  <2>4. ReportWhole'
    BY <2>1, ReportReset
  <2> QED
    BY <2>1, <2>2, <2>3, <2>4 DEF EvenInv, EvenGain, Even
<1>7. CASE StartGainCapture \/ TakeDirty \/ UNCHANGED vars
  <2>1. UNCHANGED <<conv, cal, dsp, truth>>
    BY <1>7 DEF StartGainCapture, TakeDirty, vars, pvars
  <2>2. ReportWhole'
    BY <2>1, ReportSame DEF EvenInv
  <2> QED
    BY <2>1, <2>2, EvenSame
<1> QED
  BY <1>1, <1>2, <1>3, <1>4, <1>5, <1>6, <1>7 DEF PNext

LEMMA GreenStep ==
  ASSUME EvenGains, EvenAtRest, IInv, Typed, EvenInv, GreenIsTrue, [PNext]_vars
  PROVE  GreenIsTrue'
<1>1. ASSUME NEW dt \in Dts, Tick(dt)
      PROVE  GreenIsTrue'
  <2>1. res' = Updated(dsp.report, cal.zero_valid, dt).res /\ truth'.seen = dsp.real
    BY <1>1, TickStep DEF TickShape
  <2> SUFFICES ASSUME res'.state = "Synced", NEW c \in Channels, NEW e \in Channels
               PROVE  truth'.seen.ch[c].mean - truth'.seen.ch[e].mean <= TolGreen
    BY DEF GreenIsTrue
  <2>2. dsp.real.ch[c].mean - dsp.real.ch[e].mean <= TolGreen
    BY <1>1, <2>1, GreenTick
  <2> QED
    BY <2>1, <2>2
<1>2. ASSUME NEW s \in Settings, SetMaster(s.cfg.master) \/ ApplyConfig(s)
      PROVE  GreenIsTrue'
  <2>1. ~truth'.fresh
    BY <1>2 DEF SetMaster, ApplyConfig, IInv, Shaped
  <2> QED
    BY <2>1 DEF GreenIsTrue
<1>3. CASE \/ \E e \in Engines : Push(e)
           \/ ZeroNow \/ StartGainCapture \/ ResetGain \/ TakeDirty \/ UNCHANGED vars
  <2>1. res' = res /\ truth'.fresh = truth.fresh /\ truth'.seen = truth.seen
    BY <1>3 DEF Push, ZeroNow, StartGainCapture, ResetGain, TakeDirty, ResetSettle,
                smvars, pvars, vars, IInv, Shaped
  <2> QED
    BY <2>1 DEF GreenIsTrue
<1> QED
  BY <1>1, <1>2, <1>3 DEF PNext

(* D11 and D2: green is true.  With sensors that differ by an offset alone *)
(* and an engine that is off wherever a zero can be taken, what stood in   *)
(* the hoses at the tick that showed green differed by no more than the    *)
(* tolerance: for any errors, transforms, engines and even gains, over     *)
(* every zero, measurement, reset and change of the configuration between  *)
(* (tick, commitCal, applyConfig, setCalibration).                         *)
THEOREM GreenIsAlwaysTrue == EvenGains /\ EvenAtRest => (PSpec => []GreenIsTrue)
<1> SUFFICES ASSUME EvenGains, EvenAtRest
             PROVE  PSpec => []GreenIsTrue
  OBVIOUS
<1> DEFINE Green == Typed /\ EvenInv /\ GreenIsTrue
<1>1. PInit => Green
  <2> SUFFICES ASSUME PInit PROVE Green
    OBVIOUS
  <2>1. Typed
    BY TypedFirst
  <2>2. PICK k \in Flash : cal = Loaded(k)
    BY DEF PInit
  <2>3. EvenGain(cal.gain) /\ ~cal.zero_valid
    <3>1. EvenGain(Unity) /\ EvenGain(NoMeans)
      BY DEF EvenGain, Unity, NoMeans
    <3> QED
      BY <2>2, <3>1 DEF Loaded, Flash, EvenGain, EvenGains
  <2>4. EvenInv
    BY <2>3 DEF PInit, EvenInv, ReportWhole, DspReset
  <2>5. GreenIsTrue
    BY DEF PInit, GreenIsTrue
  <2> QED
    BY <2>1, <2>4, <2>5
<1>2. IInv /\ Green /\ [PNext]_vars => Green'
  BY TypedStep, EvenStep, GreenStep
<1>3. Green => GreenIsTrue
  OBVIOUS
<1> QED
  BY <1>1, <1>2, <1>3, Invariant, PTL DEF PSpec
=============================================================================
