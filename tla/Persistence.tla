---------------------------- MODULE Persistence ----------------------------
(***************************************************************************)
(* What outlives a restart: hal/nvs_store.cpp, saveDirty and setup of      *)
(* main.cpp, and the ends of Processor they meet (configure,               *)
(* setCalibration, the two dirty flags).  A save copies under the mutex    *)
(* and writes without it, key by key; the web handlers go on meanwhile,    *)
(* and the power may be cut between two keys.  Preferences may fail to     *)
(* open the namespace, for reading or for writing, and to put a key: the   *)
(* code goes on as if it had not.                                          *)
(*                                                                         *)
(* The configuration is three of its keys, in the registry's order: two    *)
(* that configValidate relates and the source, which the sampler reads     *)
(* once at start.  A gain is the measurement it came from.                 *)
(***************************************************************************)
EXTENDS Integers, Sequences

CONSTANTS
  Limits,       \* the values of tol_green_kpa and tol_yellow_kpa
  Sources,      \* the values of source
  BuildSource,  \* SBX_SAMPLE_SOURCE
  Measurements, \* the gain measurements that may succeed
  MaxChanges,   \* a bound on the calls of the handlers
  MaxCuts,      \* a bound on the cuts of the power
  MaxFailures   \* a bound on the calls of Preferences that fail

Unity == 0
Sim == 0
Missing == -1  \* no such key: a gain that is missing is Unity

ConfigOrder == <<"tol_green_kpa", "tol_yellow_kpa", "source">>
CalOrder == <<"_g0", "_g1", "_g2", "_gv">>
ConfigKeys == {"tol_green_kpa", "tol_yellow_kpa", "source"}
GainKeys == {"_g0", "_g1", "_g2"}
CalKeys == GainKeys \cup {"_gv"}
Keys == ConfigKeys \cup {"_v"} \cup CalKeys
Parts == {"cfg", "cal"}

ASSUME PersistenceAssumption ==
  /\ {1, 2} \subseteq Limits /\ Limits \subseteq Nat
  /\ Sim \in Sources /\ BuildSource \in Sources /\ Sources \subseteq Nat
  /\ Measurements \subseteq Int \ {Unity}
  /\ {MaxChanges, MaxCuts, MaxFailures} \subseteq Nat

Config ==
  {c \in [ConfigKeys -> Limits \cup Sources] :
     /\ c["tol_green_kpa"] \in Limits /\ c["tol_yellow_kpa"] \in Limits
     /\ c["source"] \in Sources}
Valid(c) == c["tol_green_kpa"] < c["tol_yellow_kpa"]

(* Config(), what a Processor starts from. *)
Default ==
  [k \in ConfigKeys |->
     IF k = "source" THEN Sim ELSE IF k = "tol_green_kpa" THEN 1 ELSE 2]

(* What setup starts from. *)
Start == [Default EXCEPT !["source"] = BuildSource]

Measured(m) == [k \in CalKeys |-> IF k = "_gv" THEN 1 ELSE m]
NoGains == [k \in CalKeys |-> 0]

VARIABLES
  flash,    \* the namespace sbx; _v = 0 while no configuration was saved
  mem,      \* Processor: cfg_ and the lasting part of cal_
  dirty,    \* config_dirty_ and cal_dirty_
  sampler,  \* samplerSource()
  saver,    \* loopTask: [pc, cfg, cal (its copies), todo (the keys to write)]
  changes,  \* how many calls the handlers have made
  cuts,     \* how often the power was cut
  failed,   \* how often an open and a put have failed
  lost      \* history: the parts whose last load or save met a failure

vars == <<flash, mem, dirty, sampler, saver, changes, cuts, failed, lost>>

NothingToDo == [p \in Parts |-> <<>>]
Idle == [pc |-> "idle", cfg |-> Default, cal |-> NoGains, todo |-> NothingToDo]

Fails(call) ==
  /\ failed.open + failed.put < MaxFailures
  /\ failed' = [failed EXCEPT ![call] = @ + 1]

-----------------------------------------------------------------------------
(* setup. *)

nvsLoadConfig(f) ==
  IF f["_v"] = 1 THEN [k \in ConfigKeys |-> IF f[k] = Missing THEN Start[k] ELSE f[k]]
  ELSE Start

nvsLoadCal(f) == [k \in CalKeys |-> f[k]]

(* A configuration that does not validate is rejected; gains not marked    *)
(* valid are replaced by ones, and the replacement is to be saved.         *)
Configured(c) == IF Valid(c) THEN c ELSE Default
Sanitized(c) == IF c["_gv"] = 1 THEN c ELSE NoGains

(* unread: the parts for which the namespace did not open.                 *)
Boot(f, unread) ==
  LET cfg == IF "cfg" \in unread THEN Start ELSE nvsLoadConfig(f)
      cal == IF "cal" \in unread THEN NoGains ELSE nvsLoadCal(f)
  IN /\ sampler' = cfg["source"]
     /\ mem' = [cfg |-> Configured(cfg), cal |-> Sanitized(cal)]
     /\ dirty' = [cfg |-> FALSE, cal |-> Sanitized(cal) # cal]
     /\ saver' = Idle
     /\ lost' = unread

Setup ==
  \/ Boot(flash, {}) /\ UNCHANGED failed
  \/ \E unread \in (SUBSET Parts) \ {{}} : Boot(flash, unread) /\ Fails("open")

Blank ==
  [k \in Keys |-> IF k \in ConfigKeys THEN Missing ELSE 0]

Init ==
  /\ flash = Blank
  /\ mem = [cfg |-> nvsLoadConfig(Blank), cal |-> NoGains]
  /\ dirty = [cfg |-> FALSE, cal |-> FALSE]
  /\ sampler = BuildSource
  /\ saver = Idle
  /\ changes = 0
  /\ cuts = 0
  /\ failed = [open |-> 0, put |-> 0]
  /\ lost = {}

-----------------------------------------------------------------------------
(* The handlers, under the mutex, at any point of a save. *)

Handler ==
  /\ changes < MaxChanges /\ changes' = changes + 1
  /\ UNCHANGED <<flash, sampler, saver, cuts, failed, lost>>

ApplyConfig(c) ==
  /\ Valid(c)
  /\ Handler
  /\ mem' = [mem EXCEPT !.cfg = c]
  /\ dirty' = [dirty EXCEPT !.cfg = TRUE]

(* The end of a gain measurement, or the reset of the gains. *)
SetGains(c) ==
  /\ c # mem.cal
  /\ Handler
  /\ mem' = [mem EXCEPT !.cal = c]
  /\ dirty' = [dirty EXCEPT !.cal = TRUE]

-----------------------------------------------------------------------------
(* saveDirty, every kLogPeriodMs on loopTask. *)

Order == [p \in Parts |-> IF p = "cfg" THEN ConfigOrder \o <<"_v">> ELSE CalOrder]

TakeDirty ==
  /\ saver.pc = "idle"
  /\ dirty.cfg \/ dirty.cal \/ mem.cfg["source"] # sampler
  /\ saver' = [pc |-> "save", cfg |-> mem.cfg, cal |-> mem.cal,
               todo |-> [p \in Parts |-> IF dirty[p] THEN Order[p] ELSE <<>>]]
  /\ dirty' = [cfg |-> FALSE, cal |-> FALSE]
  /\ lost' = {p \in lost : ~dirty[p]}
  /\ UNCHANGED <<flash, mem, sampler, changes, cuts, failed>>

(* nvsSaveConfig, and then nvsSaveCal: the part that is being written, and *)
(* the key that is next.                                                   *)
Part == IF saver.todo.cfg # <<>> THEN "cfg" ELSE "cal"
Todo == saver.todo[Part]
Key == Head(Todo)

(* Variant: the calibration written is the present one. *)
ToWriteLive(k) ==
  IF k \in ConfigKeys THEN saver.cfg[k] ELSE IF k = "_v" THEN 1 ELSE mem.cal[k]

ToWrite(k) ==
  IF k \in ConfigKeys THEN saver.cfg[k] ELSE IF k = "_v" THEN 1 ELSE saver.cal[k]

WriteKey ==
  /\ Todo # <<>>
  /\ flash' = [flash EXCEPT ![Key] = ToWrite(Key)]
  /\ saver' = [saver EXCEPT !.todo[Part] = Tail(@)]
  /\ UNCHANGED <<mem, dirty, sampler, changes, cuts, failed, lost>>

(* begin fails: nothing of this part is written. *)
OpenFails ==
  /\ Todo # <<>> /\ Todo = Order[Part]
  /\ Fails("open")
  /\ saver' = [saver EXCEPT !.todo[Part] = <<>>]
  /\ lost' = lost \cup {Part}
  /\ UNCHANGED <<flash, mem, dirty, sampler, changes, cuts>>

(* What putFloat and the others return is not looked at. *)
PutFails ==
  /\ Todo # <<>> /\ flash[Key] # ToWrite(Key)
  /\ Fails("put")
  /\ saver' = [saver EXCEPT !.todo[Part] = Tail(@)]
  /\ lost' = lost \cup {Part}
  /\ UNCHANGED <<flash, mem, dirty, sampler, changes, cuts>>

(* All written.  A source other than the running one takes a restart, 200  *)
(* ms later.  Variants: the flags are cleared only now; no restart.        *)
WrittenClears ==
  /\ saver.pc = "save" /\ Todo = <<>>
  /\ saver' = [saver EXCEPT !.pc = IF saver.cfg["source"] # sampler THEN "restart" ELSE "idle"]
  /\ dirty' = [cfg |-> FALSE, cal |-> FALSE]
  /\ UNCHANGED <<flash, mem, sampler, changes, cuts, failed, lost>>

WrittenStays ==
  /\ saver.pc = "save" /\ Todo = <<>>
  /\ saver' = [saver EXCEPT !.pc = "idle"]
  /\ UNCHANGED <<flash, mem, dirty, sampler, changes, cuts, failed, lost>>

Written ==
  /\ saver.pc = "save" /\ Todo = <<>>
  /\ saver' = [saver EXCEPT !.pc = IF saver.cfg["source"] # sampler THEN "restart" ELSE "idle"]
  /\ UNCHANGED <<flash, mem, dirty, sampler, changes, cuts, failed, lost>>

Restart == saver.pc = "restart" /\ Setup /\ UNCHANGED <<flash, changes, cuts>>

PowerCut == cuts < MaxCuts /\ cuts' = cuts + 1 /\ Setup /\ UNCHANGED <<flash, changes>>

-----------------------------------------------------------------------------
Handlers ==
  \/ \E c \in Config : ApplyConfig(c)
  \/ \E m \in Measurements : SetGains(Measured(m))
  \/ SetGains(NoGains)

LoopTask == TakeDirty \/ WriteKey \/ OpenFails \/ PutFails \/ Written \/ Restart

Next == Handlers \/ LoopTask \/ PowerCut

Spec == Init /\ [][Next]_vars

(* loop() never stops: it waits for no other task. *)
FairSpec == Spec /\ WF_vars(LoopTask)

-----------------------------------------------------------------------------
(* Every part keeps its range, the configuration in use is one that        *)
(* validates, and only the keys that are left of a save are to be written. *)
TypeOK ==
  /\ flash \in [Keys -> Int]
  /\ mem \in [cfg : Config, cal : [CalKeys -> Int]]
  /\ Valid(mem.cfg)
  /\ dirty \in [cfg : BOOLEAN, cal : BOOLEAN]
  /\ sampler \in Sources
  /\ saver \in [pc : {"idle", "save", "restart"}, cfg : Config,
                cal : [CalKeys -> Int], todo : [Parts -> Seq(Keys)]]
  /\ changes \in 0 .. MaxChanges
  /\ cuts \in 0 .. MaxCuts
  /\ failed \in [open : Nat, put : Nat] /\ failed.open + failed.put <= MaxFailures
  /\ lost \subseteq Parts

(* Between two saves, a part that is not marked dirty is what the next     *)
(* start will read: a change made while a save is writing is marked again  *)
(* and never mistaken for written, whenever the power was cut.  A part     *)
(* whose last save or load met a failure is left out, until it is saved    *)
(* again; the other part is not.                                           *)
ConfigKept == mem.cfg = Configured(nvsLoadConfig(flash))
CalKept == mem.cal = nvsLoadCal(flash)
FlashFollows ==
  saver.pc # "save" =>
    /\ ~dirty.cfg /\ "cfg" \notin lost => ConfigKept
    /\ ~dirty.cal /\ "cal" \notin lost => CalKept

(* The gains in use are of one measurement, or none: they are a ratio      *)
(* between the channels.  So it is as long as no save of theirs is cut     *)
(* short or loses a key; one that does not open the flash does no harm.    *)
GainsWhole == \A k, l \in GainKeys : mem.cal[k] = mem.cal[l]
GainsWholeUncut == cuts = 0 /\ failed.put = 0 => GainsWhole

(* Once the handlers and the power are left alone, all of it is saved but  *)
(* for what a failure lost, the source that was chosen is the one that     *)
(* runs, and the restarts have come to an end; unless a cut or a put that  *)
(* failed has left a configuration torn between two keys that validation   *)
(* rejects.                                                                *)
AtRest ==
  /\ saver.pc = "idle" /\ mem.cfg["source"] = sampler
  /\ ~dirty.cfg /\ ~dirty.cal
  /\ "cfg" \notin lost => mem.cfg = nvsLoadConfig(flash)
  /\ "cal" \notin lost => CalKept
Torn == cuts + failed.put > 0 /\ ~Valid(nvsLoadConfig(flash))
Settles == <>[]AtRest \/ <>[]Torn
=============================================================================
