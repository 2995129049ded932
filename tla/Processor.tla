----------------------------- MODULE Processor -----------------------------
(***************************************************************************)
(* src/firmware/src/core/processor.h: the object everything meets in.  The *)
(* processing task pushes samples and ticks, the web handlers change the   *)
(* configuration and the calibration, loop() takes what is to be saved;    *)
(* each of them holds g_proc_mutex for the whole call, so a call is a      *)
(* step.  The state machine of StatusMachine is part of the state.         *)
(*                                                                         *)
(* A sample is the pressure that really stands in a hose: sensor c shows   *)
(* Err[c] more, the transform takes conv (the configured zero voltage, as  *)
(* a pressure) away, and the calibration maps the rest to what the DSP is  *)
(* given.  A different source or rail setting is a different conv.  Gains  *)
(* are whole numbers, so that a scale can be undone exactly.               *)
(***************************************************************************)
EXTENDS StatusMachine

CONSTANTS
  Engines,     \* what may stand in the hoses: [ch: frame, rpm: class]
  Err,         \* the error of every sensor
  Settings,    \* the configurations that may be applied: [cfg, conv]
  GainSets,    \* the gains a measurement may give
  CaptureLen   \* kGainCaptureSamples, in pushes

ASSUME EngineAssumption ==
  /\ Engines \subseteq [ch : [Channels -> Reading], rpm : RpmClass]
  /\ Err \in [Channels -> Int]
  /\ Settings \subseteq [cfg : [master : Channels, auto_zero : BOOLEAN], conv : Int]
  /\ GainSets \subseteq [Channels -> Nat \ {0}]
  /\ CaptureLen \in Nat \ {0}

VARIABLES
  conv,     \* the transform in use (SensorParams and source)
  cal,      \* cal_: [offset, gain, zero_valid, gain_valid]
  dsp,      \* what the DSP holds: [samples, report], and real, the last sample
  capture,  \* the gain measurement: [busy, n], and convs, the transforms sampled
  dirty,    \* config_dirty_ and cal_dirty_
  truth     \* history: what stood in the hoses at the last tick and zero

pvars == <<conv, cal, dsp, capture, dirty, truth>>
vars == <<smvars, pvars>>

Unity == [c \in Channels |-> 1]
Nothing == [ch |-> Silent, rpm |-> "none"]
Idle == [busy |-> FALSE, n |-> 0, convs |-> {}]
DspReset == [samples |-> FALSE, report |-> Nothing, real |-> Nothing]

-----------------------------------------------------------------------------
(* The conversion and its inverse. *)

Nominal(c, p) == p + Err[c] - conv
Calibrated(c, p) == cal.gain[c] * Nominal(c, p) + cal.offset[c]

Reported(e) ==
  [e EXCEPT !.ch = [c \in Channels |->
     [e.ch[c] EXCEPT !.level = Calibrated(c, e.ch[c].level),
                     !.mean = IF e.ch[c].pulse THEN Calibrated(c, e.ch[c].mean) ELSE 0]]]

NominalLevel(c) == (dsp.report.ch[c].level - cal.offset[c]) \div cal.gain[c]

(* computeZero, after the gates of zeroFromLevels; s is the settle window. *)
(* Variant: with the window as it was before this tick.                    *)
ZeroResultStale(s) ==
  IF ~dsp.samples \/ \E c \in Channels : Magnitude(NominalLevel(c)) > OffKpa
  THEN "NotAtmosphere"
  ELSE IF \A c \in Channels : Settled(tm.settle, c) THEN "Ok" ELSE "NotSettled"

ZeroResult(s) ==
  IF ~dsp.samples \/ \E c \in Channels : Magnitude(NominalLevel(c)) > OffKpa
  THEN "NotAtmosphere"
  ELSE IF \A c \in Channels : Settled(s, c) THEN "Ok" ELSE "NotSettled"

Zeroed ==
  [cal EXCEPT !.offset = [c \in Channels |-> -(cal.gain[c] * NominalLevel(c))],
              !.zero_valid = TRUE]

(* computeGain: the zero point z of every channel stays where it is. *)
ZeroPoint(cl, c) == (-cl.offset[c]) \div cl.gain[c]
Gained(cl, g) ==
  [cl EXCEPT !.gain = g, !.gain_valid = TRUE,
             !.offset = [c \in Channels |-> -(g[c] * ZeroPoint(cl, c))]]

(* Without a zero a measurement cannot succeed; with one, the pressures    *)
(* decide.                                                                 *)
GainOutcomes(cl) ==
  {[name |-> IF cl.zero_valid THEN "Rejected" ELSE "NoZero", cal |-> cl]}
    \cup {[name |-> "Ok", cal |-> Gained(cl, g)] : g \in {x \in GainSets : cl.zero_valid}}

-----------------------------------------------------------------------------
(* The processing task. *)

Push(e) ==
  /\ dsp' = [samples |-> TRUE, report |-> Reported(e), real |-> e]
  /\ capture' = IF capture.busy /\ capture.n < CaptureLen
                THEN [capture EXCEPT !.n = @ + 1, !.convs = @ \cup {conv}]
                ELSE capture
  /\ UNCHANGED <<smvars, conv, cal, dirty, truth>>

(* commitCal, but for the settle window: what the DSP holds was measured   *)
(* with the old calibration.                                               *)
commitCal == dsp' = DspReset

(* A tick: the state machine, the automatic zero it may ask for, and the   *)
(* end of a gain measurement.  Either new calibration resets the DSP and   *)
(* the settle window (commitCal).                                          *)
Tick(dt) ==
  LET u == Updated(dsp.report, cal.zero_valid, dt)
      zr == IF u.res.request THEN ZeroResult(u.tm.settle) ELSE "none"
      c1 == IF zr = "Ok" THEN Zeroed ELSE cal
      ending == capture.busy /\ capture.n = CaptureLen
      ends == IF ending THEN GainOutcomes(c1) ELSE {[name |-> "none", cal |-> c1]}
  IN \E end \in ends :
       LET commit == zr = "Ok" \/ end.name = "Ok"
       IN /\ tm' = IF commit THEN [u.tm EXCEPT !.settle = SettleEmpty] ELSE u.tm
          /\ res' = u.res
          /\ in' = dsp.report
          /\ cal' = end.cal
          /\ IF commit THEN commitCal ELSE UNCHANGED dsp
          /\ capture' = [capture EXCEPT !.busy = @ /\ ~ending]
          /\ dirty' = [dirty EXCEPT !.cal = @ \/ end.name = "Ok"]
          /\ truth' = [seen |-> dsp.real, fresh |-> TRUE,
                       zero |-> IF zr = "Ok" THEN dsp.real ELSE truth.zero]
          /\ UNCHANGED <<cfg, conv>>

-----------------------------------------------------------------------------
(* The web handlers. *)

(* POST /api/cal/zero; when the pressures do not fit, only the message     *)
(* changes.                                                                *)
ZeroNow ==
  /\ ZeroResult(tm.settle) = "Ok"
  /\ cal' = Zeroed
  /\ commitCal
  /\ truth' = [truth EXCEPT !.zero = dsp.real]
  /\ ResetSettle
  /\ UNCHANGED <<conv, capture, dirty>>

(* POST /api/cal/gain; refused while a measurement runs. *)
(* Variant: the samples of the last measurement stay.                      *)
StartGainCaptureOnTop ==
  /\ ~capture.busy
  /\ capture' = [capture EXCEPT !.busy = TRUE]
  /\ UNCHANGED <<smvars, conv, cal, dsp, dirty, truth>>

StartGainCapture ==
  /\ ~capture.busy
  /\ capture' = [Idle EXCEPT !.busy = TRUE]
  /\ UNCHANGED <<smvars, conv, cal, dsp, dirty, truth>>

(* POST /api/cal/reset: every gain 1 again, the zero point kept. *)
ResetGain ==
  LET c == [cal EXCEPT !.gain = Unity, !.gain_valid = FALSE,
              !.offset = [k \in Channels |-> cal.offset[k] \div cal.gain[k]]]
  IN /\ c # cal
     /\ cal' = c
     /\ dirty' = [dirty EXCEPT !.cal = TRUE]
     /\ commitCal
     /\ ResetSettle
     /\ UNCHANGED <<conv, capture, truth>>

(* POST /api/master: only the reference moves, the DSP goes on. *)
SetMaster(m) ==
  /\ m # cfg.master
  /\ Configure(m, cfg.auto_zero)
  /\ dirty' = [dirty EXCEPT !.cfg = TRUE]
  /\ truth' = [truth EXCEPT !.fresh = FALSE]
  /\ UNCHANGED <<conv, cal, dsp, capture>>

(* applyConfig: a zero is of the transform it was taken with.  Variant: it *)
(* outlives the transform.                                                 *)
ZeroKeptAlways(s) == cal.zero_valid
ZeroKept(s) == cal.zero_valid /\ s.conv = conv

(* POST /api/config and /api/config/reset with a configuration that passes *)
(* configValidate (applyConfig); any other changes nothing.                *)
ApplyConfig(s) ==
  /\ Configure(s.cfg.master, s.cfg.auto_zero)
  /\ conv' = s.conv
  /\ cal' = [cal EXCEPT !.zero_valid = ZeroKept(s)]
  /\ dsp' = DspReset
  /\ capture' = [capture EXCEPT !.busy = FALSE]
  /\ dirty' = [dirty EXCEPT !.cfg = TRUE]
  /\ truth' = [truth EXCEPT !.fresh = FALSE,
                            !.zero = IF s.conv = conv THEN @ ELSE Nothing]

-----------------------------------------------------------------------------
(* loop() and the power switch. *)

(* saveDirty takes both flags, and its copies, in one hold of the mutex.   *)
TakeDirty ==
  /\ dirty.cfg \/ dirty.cal
  /\ dirty' = [cfg |-> FALSE, cal |-> FALSE]
  /\ UNCHANGED <<smvars, conv, cal, dsp, capture, truth>>

(* setCalibration: gains out of range, or not marked valid, become 1 and   *)
(* are to be saved; a zero never survives a restart.  A gain of 0 stands   *)
(* for one out of range.  Variant: the range goes unchecked.               *)
SoundIfMarked(k) == k.gain_valid
Sound(k) == k.gain_valid /\ \A c \in Channels : k.gain[c] > 0
Loaded(k) ==
  [offset |-> NoMeans, zero_valid |-> FALSE, gain_valid |-> Sound(k),
   gain |-> IF Sound(k) THEN k.gain ELSE Unity]

Flash == [gain : GainSets \cup {Unity, NoMeans}, gain_valid : BOOLEAN]

(* Power on.  Nothing but the flash outlives a restart, so that a restart  *)
(* is another behaviour.                                                   *)
PInit ==
  /\ \E s \in Settings : cfg = s.cfg /\ conv = s.conv
  /\ tm = ResetTimers /\ in = Nothing /\ res = NoResult
  /\ dsp = DspReset /\ capture = Idle
  /\ \E k \in Flash :
       /\ cal = Loaded(k)
       /\ dirty = [cfg |-> FALSE,
                   cal |-> k.gain # cal.gain \/ k.gain_valid # cal.gain_valid]
  /\ truth = [seen |-> Nothing, zero |-> Nothing, fresh |-> FALSE]

PNext ==
  \/ \E e \in Engines : Push(e)
  \/ \E dt \in Dts : Tick(dt)
  \/ ZeroNow \/ StartGainCapture \/ ResetGain
  \/ \E s \in Settings : SetMaster(s.cfg.master)
  \/ \E s \in Settings : ApplyConfig(s)
  \/ TakeDirty

PSpec == PInit /\ [][PNext]_vars

-----------------------------------------------------------------------------
CalType ==
  [offset : [Channels -> Int], gain : [Channels -> Nat \ {0}],
   zero_valid : BOOLEAN, gain_valid : BOOLEAN]

InputType == [ch : [Channels -> Reading], rpm : RpmClass]

(* The calibration, the DSP and the measurement keep their ranges; above   *)
(* all no gain is ever zero, which everything here divides by.             *)
PTypeOK ==
  /\ TypeOK
  /\ conv \in Int
  /\ cal \in CalType
  /\ dsp \in [samples : BOOLEAN, report : InputType, real : InputType]
  /\ capture \in [busy : BOOLEAN, n : 0 .. CaptureLen, convs : SUBSET Int]
  /\ dirty \in [cfg : BOOLEAN, cal : BOOLEAN]
  /\ truth \in [seen : InputType, zero : InputType, fresh : BOOLEAN]

(* D11: a valid zero belongs to the transform in use: the pressures it was *)
(* taken at read as zero, whatever was configured, measured or reset since.*)
ZeroHolds ==
  cal.zero_valid => \A c \in Channels : Calibrated(c, truth.zero.ch[c].level) = 0

(* D11 and D2: green means the engine is synchronised.  At the tick that   *)
(* showed it the zero was valid, and what stood in the hoses differed by   *)
(* no more than the tolerance, whatever the sensors' own errors are.       *)
GreenIsTrue ==
  truth.fresh /\ res.state = "Synced" =>
    \A c, e \in Channels :
      truth.seen.ch[c].mean - truth.seen.ch[e].mean <= TolGreen

(* What GreenIsTrue takes for granted.  The sensors differ by an offset    *)
(* alone, so that a measurement gives every channel the same gain, and an  *)
(* engine near the atmosphere is off, with one pressure in all the hoses.  *)
EvenGains == \A g \in GainSets : \A c, e \in Channels : g[c] = g[e]
EvenAtRest ==
  \A x \in Engines, s \in Settings :
    (\A c \in Channels : Magnitude(x.ch[c].level + Err[c] - s.conv) <= OffKpa)
      => \A c, e \in Channels : x.ch[c].level = x.ch[e].level

(* Gains are earned: new ones come from a full measurement whose every     *)
(* sample went through the transform in use now, on a zero of that same    *)
(* transform; no change of the configuration leaks samples into them.      *)
GainEarned ==
  [][cal'.gain_valid /\ cal'.gain # cal.gain =>
       /\ cal'.zero_valid
       /\ capture.n = CaptureLen /\ capture.convs = {conv'}]_vars

(* The request of the automatic zero and its execution agree: with the     *)
(* nominal levels near the atmosphere the request is never turned down as  *)
(* not settled, and what it zeroes is what stands in the hoses.            *)
AutoZeroAgrees ==
  [][/\ ~res.request /\ res'.request /\ dsp.samples
     /\ \A c \in Channels : Magnitude(NominalLevel(c)) <= OffKpa
     => cal'.zero_valid /\ truth'.zero = dsp.real]_vars

=============================================================================
