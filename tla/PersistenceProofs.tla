------------------------- MODULE PersistenceProofs -------------------------
(***************************************************************************)
(* What is saved is what was in use, proved for any number of changes, of  *)
(* cuts of the power and of failures of Preferences, and any values of the *)
(* settings.                                                               *)
(***************************************************************************)
EXTENDS Persistence, SequenceTheorems, TLAPS

USE DEF ConfigKeys, GainKeys, CalKeys, Keys, Parts

-----------------------------------------------------------------------------
(* Configurations. *)

LEMMA ConfigIs ==
  ASSUME NEW c
  PROVE  c \in Config <=>
           /\ c = [k \in ConfigKeys |-> c[k]]
           /\ c["tol_green_kpa"] \in Limits /\ c["tol_yellow_kpa"] \in Limits
           /\ c["source"] \in Sources
BY DEF Config

LEMMA DefaultConfig ==
  /\ Default \in Config /\ Valid(Default)
  /\ \A s \in Sources : [Default EXCEPT !["source"] = s] \in Config
                        /\ Valid([Default EXCEPT !["source"] = s])
BY PersistenceAssumption DEF PersistenceAssumption, Default, Config, Valid

(* A configuration key of the flash is missing, or in its range. *)
InRange(f) ==
  /\ f["tol_green_kpa"] \in Limits \cup {Missing}
  /\ f["tol_yellow_kpa"] \in Limits \cup {Missing}
  /\ f["source"] \in Sources \cup {Missing}

LEMMA StartConfig == Start \in Config /\ Valid(Start)
BY DefaultConfig, PersistenceAssumption DEF PersistenceAssumption, Start

LEMMA LoadConfig ==
  ASSUME NEW f, InRange(f)
  PROVE  nvsLoadConfig(f) \in Config
<1> DEFINE c == [k \in ConfigKeys |-> IF f[k] = Missing THEN Start[k] ELSE f[k]]
<1>1. /\ Start["tol_green_kpa"] \in Limits /\ Start["tol_yellow_kpa"] \in Limits
      /\ Start["source"] \in Sources
  BY StartConfig, ConfigIs
<1>2. c \in Config
  BY <1>1 DEF InRange, Config
<1> QED
  BY <1>2, StartConfig DEF nvsLoadConfig

LEMMA ConfiguredValid ==
  ASSUME NEW c \in Config
  PROVE  Configured(c) \in Config /\ Valid(Configured(c))
BY DefaultConfig DEF Configured

LEMMA ConfigInts == ASSUME NEW c \in Config PROVE \A k \in ConfigKeys : c[k] \in Int
<1>1. Limits \subseteq Int /\ Sources \subseteq Int
  BY PersistenceAssumption DEF PersistenceAssumption
<1>2. /\ c["tol_green_kpa"] \in Limits /\ c["tol_yellow_kpa"] \in Limits
      /\ c["source"] \in Sources
  BY ConfigIs
<1> QED
  BY <1>1, <1>2

LEMMA LoadCal == ASSUME NEW f \in [Keys -> Int] PROVE nvsLoadCal(f) \in [CalKeys -> Int]
BY DEF nvsLoadCal

LEMMA GainTypes ==
  /\ NoGains \in [CalKeys -> Int]
  /\ \A m \in Measurements : Measured(m) \in [CalKeys -> Int]
  /\ \A c \in [CalKeys -> Int] : Sanitized(c) \in [CalKeys -> Int]
BY PersistenceAssumption DEF PersistenceAssumption, NoGains, Measured, Sanitized

-----------------------------------------------------------------------------
(* The keys of a save. *)

PartKeys(p) == IF p = "cfg" THEN ConfigKeys \cup {"_v"} ELSE CalKeys

LEMMA Orders ==
  /\ Order \in [Parts -> Seq(Keys)]
  /\ \A p \in Parts : Order[p] \in Seq(PartKeys(p))
  /\ NothingToDo \in [Parts -> Seq(Keys)]
<1>1. ConfigOrder \o <<"_v">> \in Seq(Keys) /\ CalOrder \in Seq(Keys) /\ <<>> \in Seq(Keys)
  BY DEF ConfigOrder, CalOrder
<1>2. /\ ConfigOrder \o <<"_v">> \in Seq(ConfigKeys \cup {"_v"})
      /\ CalOrder \in Seq(CalKeys)
  BY DEF ConfigOrder, CalOrder
<1> QED
  BY <1>1, <1>2 DEF Order, NothingToDo, PartKeys

LEMMA TodoTail ==
  ASSUME NEW S, NEW s \in Seq(S), s # <<>>
  PROVE  /\ Head(s) \in S /\ Head(s) = s[1] /\ 1 \in 1 .. Len(s)
         /\ Tail(s) \in Seq(S)
         /\ Len(s) \in Nat /\ Len(Tail(s)) = Len(s) - 1
         /\ \A i \in 1 .. Len(Tail(s)) : Tail(s)[i] = s[i + 1]
BY HeadTailProperties, LenProperties, ElementOfSeq, EmptySeq

Marked(s, k) == \E i \in 1 .. Len(s) : s[i] = k

LEMMA MarkedEmpty == ASSUME NEW k PROVE ~Marked(<<>>, k)
BY DEF Marked

LEMMA MarkedIn == ASSUME NEW S, NEW s \in Seq(S), NEW k, Marked(s, k) PROVE k \in S
BY ElementOfSeq DEF Marked

LEMMA MarkedApart ==
  ASSUME NEW p \in Parts, NEW q \in Parts \ {p}, NEW s \in Seq(PartKeys(q)),
         NEW k \in PartKeys(p)
  PROVE  ~Marked(s, k)
<1>1. Marked(s, k) => k \in PartKeys(q)
  BY MarkedIn
<1>2. k \notin PartKeys(q)
  BY DEF PartKeys
<1> QED
  BY <1>1, <1>2

LEMMA MarkedTail ==
  ASSUME NEW S, NEW s \in Seq(S), s # <<>>, NEW k
  PROVE  Marked(s, k) <=> k = Head(s) \/ Marked(Tail(s), k)
<1>1. /\ Head(s) = s[1] /\ 1 \in 1 .. Len(s)
      /\ Len(Tail(s)) = Len(s) - 1 /\ Len(s) \in Nat
      /\ \A i \in 1 .. Len(Tail(s)) : Tail(s)[i] = s[i + 1]
  BY TodoTail
<1>2. k = Head(s) => Marked(s, k)
  BY <1>1 DEF Marked
<1>3. ASSUME Marked(Tail(s), k) PROVE Marked(s, k)
  <2>1. PICK i \in 1 .. Len(Tail(s)) : Tail(s)[i] = k
    BY <1>3 DEF Marked
  <2>2. s[i + 1] = k /\ i + 1 \in 1 .. Len(s)
    BY <2>1, <1>1
  <2> QED
    BY <2>2 DEF Marked
<1>4. ASSUME Marked(s, k), k # Head(s) PROVE Marked(Tail(s), k)
  <2>1. PICK i \in 1 .. Len(s) : s[i] = k
    BY <1>4 DEF Marked
  <2>2. i - 1 \in 1 .. Len(Tail(s)) /\ (i - 1) + 1 = i
    BY <2>1, <1>4, <1>1
  <2>3. Tail(s)[i - 1] = k
    BY <2>1, <2>2, <1>1
  <2> QED
    BY <2>2, <2>3 DEF Marked
<1> QED
  BY <1>2, <1>3, <1>4

(* All the keys of a part are written, and no other. *)
LEMMA Complete ==
  ASSUME NEW p \in Parts, NEW k
  PROVE  Marked(Order[p], k) <=> k \in PartKeys(p)
<1>1. /\ Len(ConfigOrder \o <<"_v">>) = 4
      /\ (ConfigOrder \o <<"_v">>)[1] = "tol_green_kpa"
      /\ (ConfigOrder \o <<"_v">>)[2] = "tol_yellow_kpa"
      /\ (ConfigOrder \o <<"_v">>)[3] = "source" /\ (ConfigOrder \o <<"_v">>)[4] = "_v"
  BY DEF ConfigOrder
<1>2. /\ Len(CalOrder) = 4 /\ CalOrder[1] = "_g0" /\ CalOrder[2] = "_g1"
      /\ CalOrder[3] = "_g2" /\ CalOrder[4] = "_gv"
  BY DEF CalOrder
<1>3. Marked(ConfigOrder \o <<"_v">>, k) <=> k \in ConfigKeys \cup {"_v"}
  BY <1>1 DEF Marked
<1>4. Marked(CalOrder, k) <=> k \in CalKeys
  BY <1>2 DEF Marked
<1> QED
  BY <1>3, <1>4 DEF Order, PartKeys

-----------------------------------------------------------------------------
(* The types, with a flash whose configuration keys are in their ranges,   *)
(* each part's own keys to write, and nothing to write but in a save.      *)
Todos ==
  /\ \A p \in Parts : saver.todo[p] \in Seq(PartKeys(p))
  /\ saver.pc # "save" => \A p \in Parts : saver.todo[p] = <<>>

TInv == TypeOK /\ InRange(flash) /\ Todos

LEMMA OneMoreFailure ==
  ASSUME TypeOK, NEW call \in {"open", "put"}, Fails(call)
  PROVE  failed' \in [open : Nat, put : Nat] /\ failed'.open + failed'.put <= MaxFailures
<1>1. failed \in [open : Nat, put : Nat] /\ MaxFailures \in Nat
  BY PersistenceAssumption DEF TypeOK, PersistenceAssumption
<1>2. CASE call = "open"
  BY <1>1, <1>2 DEF Fails
<1>3. CASE call = "put"
  BY <1>1, <1>3 DEF Fails
<1> QED
  BY <1>2, <1>3

LEMMA SetupFails ==
  ASSUME TypeOK, Setup
  PROVE  /\ failed' \in [open : Nat, put : Nat] /\ failed'.open + failed'.put <= MaxFailures
         /\ \E unread \in SUBSET Parts : Boot(flash, unread)
<1>1. CASE Boot(flash, {}) /\ UNCHANGED failed
  BY <1>1 DEF TypeOK
<1>2. ASSUME NEW unread \in (SUBSET Parts) \ {{}}, Boot(flash, unread), Fails("open")
      PROVE  /\ failed' \in [open : Nat, put : Nat]
             /\ failed'.open + failed'.put <= MaxFailures
  BY <1>2, OneMoreFailure
<1> QED
  BY <1>1, <1>2 DEF Setup

LEMMA BootTypes ==
  ASSUME TInv, Setup, UNCHANGED flash, changes' \in 0 .. MaxChanges,
         cuts' \in 0 .. MaxCuts
  PROVE  TInv'
<1>0. PICK unread \in SUBSET Parts : Boot(flash, unread)
  BY SetupFails DEF TInv
<1> DEFINE cfg == IF "cfg" \in unread THEN Start ELSE nvsLoadConfig(flash)
           cal == IF "cal" \in unread THEN NoGains ELSE nvsLoadCal(flash)
<1>1. cfg \in Config
  BY LoadConfig, StartConfig DEF TInv
<1>2. cal \in [CalKeys -> Int]
  BY LoadCal, GainTypes DEF TInv, TypeOK
<1> HIDE DEF cfg, cal
<1>3. /\ sampler' = cfg["source"] /\ mem' = [cfg |-> Configured(cfg), cal |-> Sanitized(cal)]
      /\ dirty' = [cfg |-> FALSE, cal |-> Sanitized(cal) # cal]
      /\ saver' = Idle /\ lost' = unread
  BY <1>0 DEF Boot, cfg, cal
<1>4. sampler' \in Sources
  BY <1>1, <1>3, ConfigIs
<1>5. mem' \in [cfg : Config, cal : [CalKeys -> Int]] /\ Valid(mem'.cfg)
  BY <1>1, <1>2, <1>3, ConfiguredValid, GainTypes
<1>6. dirty' \in [cfg : BOOLEAN, cal : BOOLEAN]
  BY <1>3
<1>7. /\ saver' \in [pc : {"idle", "save", "restart"}, cfg : Config,
                     cal : [CalKeys -> Int], todo : [Parts -> Seq(Keys)]]
      /\ saver'.todo = NothingToDo
  BY <1>3, DefaultConfig, GainTypes, Orders DEF Idle
<1>8. Todos'
  BY <1>7, EmptySeq DEF Todos, NothingToDo
<1>9. failed' \in [open : Nat, put : Nat] /\ failed'.open + failed'.put <= MaxFailures
  BY SetupFails DEF TInv
<1> QED
  BY <1>3, <1>4, <1>5, <1>6, <1>7, <1>8, <1>9 DEF TInv, TypeOK, InRange

LEMMA TInvInit == Init => TInv
<1> SUFFICES ASSUME Init PROVE TInv
  OBVIOUS
<1>1. Blank \in [Keys -> Int] /\ InRange(Blank)
  BY DEF Blank, InRange, Missing
<1>2. nvsLoadConfig(Blank) = Start
  BY DEF nvsLoadConfig, Blank
<1>3. /\ mem \in [cfg : Config, cal : [CalKeys -> Int]] /\ Valid(mem.cfg)
  BY <1>2, StartConfig, GainTypes DEF Init
<1>4. /\ saver \in [pc : {"idle", "save", "restart"}, cfg : Config,
                    cal : [CalKeys -> Int], todo : [Parts -> Seq(Keys)]]
      /\ saver.todo = NothingToDo
  BY DefaultConfig, GainTypes, Orders DEF Init, Idle
<1>5. Todos
  BY <1>4, EmptySeq DEF Todos, NothingToDo
<1>6. failed \in [open : Nat, put : Nat] /\ failed.open + failed.put <= MaxFailures
  BY PersistenceAssumption DEF Init, PersistenceAssumption
<1> QED
  BY <1>1, <1>3, <1>4, <1>5, <1>6, PersistenceAssumption
     DEF Init, TInv, TypeOK, PersistenceAssumption

LEMMA OneMoreChange == TInv /\ Handler => changes' \in 0 .. MaxChanges
<1> SUFFICES ASSUME TInv, Handler PROVE changes' \in 0 .. MaxChanges
  OBVIOUS
<1>1. changes \in 0 .. MaxChanges
  BY DEF TInv, TypeOK
<1>2. changes < MaxChanges /\ changes' = changes + 1
  BY DEF Handler
<1> QED
  BY <1>1, <1>2, PersistenceAssumption DEF PersistenceAssumption

(* What the three ends of a key share: the part it is of goes on. *)
LEMMA OneOfTodo ==
  ASSUME TInv, Todo # <<>>
  PROVE  /\ Part \in Parts /\ saver.pc = "save"
         /\ Todo = saver.todo[Part] /\ Todo \in Seq(PartKeys(Part)) /\ Todo \in Seq(Keys)
         /\ Key \in PartKeys(Part) /\ Key \in Keys
         /\ Tail(Todo) \in Seq(PartKeys(Part)) /\ Tail(Todo) \in Seq(Keys)
<1>1. Part \in Parts /\ Todo = saver.todo[Part]
  BY DEF Part, Todo
<1>2. Todo \in Seq(PartKeys(Part)) /\ Todo \in Seq(Keys) /\ saver.pc = "save"
  BY <1>1 DEF TInv, TypeOK, Todos
<1> QED
  BY <1>1, <1>2, TodoTail DEF Key

LEMMA KeyGone ==
  ASSUME TInv, Todo # <<>>, NEW rest \in {Tail(Todo), <<>>},
         saver' = [saver EXCEPT !.todo[Part] = rest]
  PROVE  /\ saver' \in [pc : {"idle", "save", "restart"}, cfg : Config,
                        cal : [CalKeys -> Int], todo : [Parts -> Seq(Keys)]]
         /\ saver'.pc = "save" /\ saver'.cfg = saver.cfg /\ saver'.cal = saver.cal
         /\ \A p \in Parts : saver'.todo[p] = IF p = Part THEN rest ELSE saver.todo[p]
         /\ Todos'
<1>1. /\ Part \in Parts /\ saver.pc = "save"
      /\ rest \in Seq(PartKeys(Part)) /\ rest \in Seq(Keys)
  BY OneOfTodo, EmptySeq
<1>2. saver \in [pc : {"idle", "save", "restart"}, cfg : Config,
                 cal : [CalKeys -> Int], todo : [Parts -> Seq(Keys)]]
  BY DEF TInv, TypeOK
<1>3. /\ saver'.pc = "save" /\ saver'.cfg = saver.cfg /\ saver'.cal = saver.cal
      /\ saver'.todo = [saver.todo EXCEPT ![Part] = rest]
      /\ saver' \in [pc : {"idle", "save", "restart"}, cfg : Config,
                     cal : [CalKeys -> Int], todo : [Parts -> Seq(Keys)]]
  BY <1>1, <1>2
<1>4. \A p \in Parts : saver'.todo[p] = IF p = Part THEN rest ELSE saver.todo[p]
  BY <1>1, <1>2, <1>3
<1>5. Todos'
  BY <1>1, <1>3, <1>4 DEF TInv, Todos
<1> QED
  BY <1>3, <1>4, <1>5

LEMMA WriteTypes == TInv /\ WriteKey => TInv'
<1> SUFFICES ASSUME TInv, WriteKey PROVE TInv'
  OBVIOUS
<1>1. /\ Todo # <<>> /\ flash' = [flash EXCEPT ![Key] = ToWrite(Key)]
      /\ saver' = [saver EXCEPT !.todo[Part] = Tail(Todo)]
      /\ UNCHANGED <<mem, dirty, sampler, changes, cuts, failed, lost>>
  BY DEF WriteKey, Todo
<1>2. /\ saver' \in [pc : {"idle", "save", "restart"}, cfg : Config,
                     cal : [CalKeys -> Int], todo : [Parts -> Seq(Keys)]]
      /\ Todos'
  BY <1>1, KeyGone
<1>3. Key \in Keys
  BY <1>1, OneOfTodo
<1>4. saver.cfg \in Config /\ saver.cal \in [CalKeys -> Int] /\ flash \in [Keys -> Int]
  BY DEF TInv, TypeOK
<1>5. ToWrite(Key) \in Int
  <2>1. \A j \in ConfigKeys : saver.cfg[j] \in Int
    BY <1>4, ConfigInts
  <2>2. Key \in ConfigKeys \/ Key = "_v" \/ Key \in CalKeys
    BY <1>3
  <2> QED
    BY <1>4, <2>1, <2>2 DEF ToWrite
<1>6. flash' \in [Keys -> Int]
  BY <1>1, <1>3, <1>4, <1>5
<1>7. InRange(flash')
  <2>1. \A j \in ConfigKeys : flash'[j] = IF j = Key THEN saver.cfg[j] ELSE flash[j]
    BY <1>1, <1>3, <1>4 DEF ToWrite
  <2>2. InRange(flash)
    BY DEF TInv
  <2> QED
    BY <1>4, <2>1, <2>2, ConfigIs DEF InRange
<1> QED
  BY <1>1, <1>2, <1>6, <1>7 DEF TInv, TypeOK, InRange

LEMMA FailTypes == TInv /\ (OpenFails \/ PutFails) => TInv'
<1> SUFFICES ASSUME TInv, OpenFails \/ PutFails PROVE TInv'
  OBVIOUS
<1>1. /\ Todo # <<>> /\ lost' = lost \cup {Part}
      /\ UNCHANGED <<flash, mem, dirty, sampler, changes, cuts>>
      /\ \E rest \in {Tail(Todo), <<>>} : saver' = [saver EXCEPT !.todo[Part] = rest]
      /\ \E call \in {"open", "put"} : Fails(call)
  BY DEF OpenFails, PutFails, Todo
<1>2. /\ saver' \in [pc : {"idle", "save", "restart"}, cfg : Config,
                     cal : [CalKeys -> Int], todo : [Parts -> Seq(Keys)]]
      /\ Todos'
  BY <1>1, KeyGone
<1>3. failed' \in [open : Nat, put : Nat] /\ failed'.open + failed'.put <= MaxFailures
  BY <1>1, OneMoreFailure DEF TInv
<1>4. Part \in Parts
  BY <1>1, OneOfTodo
<1> QED
  BY <1>1, <1>2, <1>3, <1>4 DEF TInv, TypeOK, InRange

LEMMA TInvStep == TInv /\ [Next]_vars => TInv'
<1> SUFFICES ASSUME TInv, [Next]_vars PROVE TInv'
  OBVIOUS
<1>1. ASSUME NEW c \in Config, ApplyConfig(c) PROVE TInv'
  <2>1. changes' \in 0 .. MaxChanges
    BY <1>1, OneMoreChange DEF ApplyConfig
  <2> QED
    BY <1>1, <2>1 DEF ApplyConfig, Handler, TInv, TypeOK, InRange, Todos
<1>2. ASSUME NEW c \in [CalKeys -> Int], SetGains(c) PROVE TInv'
  <2>1. changes' \in 0 .. MaxChanges
    BY <1>2, OneMoreChange DEF SetGains
  <2> QED
    BY <1>2, <2>1 DEF SetGains, Handler, TInv, TypeOK, InRange, Todos
<1>3. CASE TakeDirty
  <2>1. /\ saver'.pc = "save" /\ saver'.cfg = mem.cfg /\ saver'.cal = mem.cal
        /\ saver'.todo = [p \in Parts |-> IF dirty[p] THEN Order[p] ELSE <<>>]
        /\ saver' = [pc |-> "save", cfg |-> mem.cfg, cal |-> mem.cal, todo |-> saver'.todo]
        /\ dirty' = [cfg |-> FALSE, cal |-> FALSE] /\ lost' \subseteq lost
        /\ UNCHANGED <<flash, mem, sampler, changes, cuts, failed>>
    BY <1>3 DEF TakeDirty
  <2>2. saver'.todo \in [Parts -> Seq(Keys)]
    BY <2>1, Orders, EmptySeq
  <2>3. Todos'
    BY <2>1, Orders, EmptySeq DEF Todos
  <2> QED
    BY <2>1, <2>2, <2>3 DEF TInv, TypeOK, InRange
<1>4. CASE WriteKey \/ OpenFails \/ PutFails
  BY <1>4, WriteTypes, FailTypes
<1>5. CASE Written
  <2>1. Todos'
    <3>1. saver'.todo = saver.todo /\ Todo = <<>>
      BY <1>5 DEF Written, TInv, TypeOK
    <3>2. \A p \in Parts : saver.todo[p] = <<>>
      BY <3>1 DEF Todo, Part
    <3> QED
      BY <3>1, <3>2, EmptySeq DEF Todos
  <2> QED
    BY <1>5, <2>1 DEF Written, TInv, TypeOK, InRange
<1>6. CASE Restart
  BY <1>6, BootTypes DEF Restart, TInv, TypeOK
<1>7. CASE PowerCut
  <2>1. cuts < MaxCuts /\ cuts' = cuts + 1 /\ Setup /\ UNCHANGED <<flash, changes>>
    BY <1>7 DEF PowerCut
  <2>2. cuts \in 0 .. MaxCuts /\ changes \in 0 .. MaxChanges
    BY DEF TInv, TypeOK
  <2>3. cuts' \in 0 .. MaxCuts
    BY <2>1, <2>2, PersistenceAssumption DEF PersistenceAssumption
  <2> QED
    BY <2>1, <2>2, <2>3, BootTypes
<1>8. CASE UNCHANGED vars
  BY <1>8 DEF vars, TInv, TypeOK, InRange, Todos
<1> QED
  BY <1>1, <1>2, <1>3, <1>4, <1>5, <1>6, <1>7, <1>8, GainTypes
     DEF Next, Handlers, LoopTask

(* Whatever is changed, whenever the power is cut and whichever opens and  *)
(* puts fail, every part keeps its range and the configuration in use is   *)
(* one that validates.                                                     *)
THEOREM Types == Spec => []TypeOK
<1>1. TInv => TypeOK
  BY DEF TInv
<1> QED
  BY <1>1, TInvInit, TInvStep, PTL DEF Spec
-----------------------------------------------------------------------------
(* The flash as it will be when the save under way is done: this a key     *)
(* written does not change, and a failure only in the keys of its part.    *)
Left == {k \in Keys : \E p \in Parts : Marked(saver.todo[p], k)}
Will == [k \in Keys |-> IF k \in Left THEN ToWrite(k) ELSE flash[k]]

LEMMA NothingLeft ==
  ASSUME TInv, \A p \in Parts : saver.todo[p] = <<>>
  PROVE  Will = flash
<1>1. Left = {}
  BY MarkedEmpty DEF Left
<1> QED
  BY <1>1 DEF Will, TInv, TypeOK

LEMMA NothingLeftOf ==
  ASSUME TInv, NEW p \in Parts, saver.todo[p] = <<>>, NEW k \in PartKeys(p)
  PROVE  Will[k] = flash[k]
<1>1. k \in Keys
  BY DEF PartKeys
<1>2. ~Marked(saver.todo[p], k)
  BY MarkedEmpty
<1>3. ASSUME NEW q \in Parts, q # p PROVE ~Marked(saver.todo[q], k)
  BY <1>3, MarkedApart DEF TInv, Todos
<1>4. k \notin Left
  BY <1>2, <1>3 DEF Left
<1> QED
  BY <1>1, <1>4 DEF Will

LEMMA WillStands == TInv /\ WriteKey => Will' = Will
<1> SUFFICES ASSUME TInv, WriteKey PROVE Will' = Will
  OBVIOUS
<1>1. /\ Todo # <<>> /\ flash' = [flash EXCEPT ![Key] = ToWrite(Key)]
      /\ saver' = [saver EXCEPT !.todo[Part] = Tail(Todo)] /\ mem' = mem
  BY DEF WriteKey, Todo
<1>2. /\ saver'.cfg = saver.cfg /\ saver'.cal = saver.cal
      /\ \A p \in Parts : saver'.todo[p] = IF p = Part THEN Tail(Todo) ELSE saver.todo[p]
  BY <1>1, KeyGone
<1>3. Part \in Parts /\ Todo = saver.todo[Part] /\ Todo \in Seq(Keys) /\ Key \in Keys
  BY <1>1, OneOfTodo
<1>4. \A k \in Keys : flash'[k] = IF k = Key THEN ToWrite(k) ELSE flash[k]
  BY <1>1, <1>3 DEF TInv, TypeOK
<1>5. ASSUME NEW k \in Keys PROVE k \in Left <=> k = Key \/ k \in Left'
  <2>1. Marked(Todo, k) <=> k = Key \/ Marked(Tail(Todo), k)
    BY <1>1, <1>3, MarkedTail DEF Key
  <2>2. \A p \in Parts : Marked(saver'.todo[p], k)
          <=> IF p = Part THEN Marked(Tail(Todo), k) ELSE Marked(saver.todo[p], k)
    BY <1>2
  <2>3. k \in Left' <=> \E p \in Parts : Marked(saver'.todo[p], k)
    BY DEF Left
  <2>4. k \in Left <=> \E p \in Parts : Marked(saver.todo[p], k)
    BY DEF Left
  <2> QED
    BY <1>3, <2>1, <2>2, <2>3, <2>4
<1>6. ASSUME NEW k \in Keys PROVE ToWrite(k)' = ToWrite(k)
  BY <1>2 DEF ToWrite
<1>7. \A k \in Keys :
        (IF k \in Left THEN ToWrite(k) ELSE flash[k])
           = IF k \in Left' THEN ToWrite(k)' ELSE flash'[k]
  BY <1>4, <1>5, <1>6
<1> QED
  BY <1>7, Zenon DEF Will

(* A failure: what will be in the flash stands but for the keys of the     *)
(* part that it hit.                                                       *)
LEMMA WillFails ==
  ASSUME TInv, OpenFails \/ PutFails
  PROVE  \A p \in Parts \ {Part} : \A k \in PartKeys(p) : Will'[k] = Will[k]
<1>1. /\ Todo # <<>> /\ UNCHANGED <<flash, mem>>
      /\ \E rest \in {Tail(Todo), <<>>} : saver' = [saver EXCEPT !.todo[Part] = rest]
  BY DEF OpenFails, PutFails, Todo
<1>2. PICK rest \in {Tail(Todo), <<>>} : saver' = [saver EXCEPT !.todo[Part] = rest]
  BY <1>1
<1>3. /\ saver'.cfg = saver.cfg /\ saver'.cal = saver.cal
      /\ \A p \in Parts : saver'.todo[p] = IF p = Part THEN rest ELSE saver.todo[p]
      /\ Todos'
  BY <1>1, <1>2, KeyGone
<1> SUFFICES ASSUME NEW p \in Parts, p # Part, NEW k \in PartKeys(p)
             PROVE  Will'[k] = Will[k]
  OBVIOUS
<1>4. k \in Keys /\ Part \in Parts
  BY <1>1, OneOfTodo DEF PartKeys
<1>6. ~Marked(saver.todo[Part], k) /\ ~Marked(saver'.todo[Part], k)
  BY <1>3, <1>4, MarkedApart DEF TInv, Todos
<1>7. k \in Left' <=> k \in Left
  <2>1. k \in Left' <=> \E q \in Parts : Marked(saver'.todo[q], k)
    BY <1>4 DEF Left
  <2>2. k \in Left <=> \E q \in Parts : Marked(saver.todo[q], k)
    BY <1>4 DEF Left
  <2>3. \A q \in Parts : Marked(saver'.todo[q], k) <=> Marked(saver.todo[q], k)
    BY <1>3, <1>6
  <2> QED
    BY <2>1, <2>2, <2>3
<1>8. ToWrite(k)' = ToWrite(k)
  BY <1>1, <1>3 DEF ToWrite
<1> QED
  BY <1>1, <1>4, <1>7, <1>8 DEF Will

-----------------------------------------------------------------------------
(* While a save is under way, its copies are what the next start will read *)
(* once it is done, but for a part that met a failure, and what is not     *)
(* marked again is still as copied.                                        *)
SaveFollows ==
  saver.pc = "save" =>
    /\ "cfg" \notin lost => saver.cfg = Configured(nvsLoadConfig(Will))
    /\ "cal" \notin lost => saver.cal = nvsLoadCal(Will)
    /\ ~dirty.cfg => mem.cfg = saver.cfg
    /\ ~dirty.cal => mem.cal = saver.cal

Follows == TInv /\ FlashFollows /\ SaveFollows

(* What a start reads depends on the keys of the part alone. *)
LEMMA LoadsPart ==
  ASSUME NEW f, NEW g
  PROVE  /\ (\A k \in PartKeys("cfg") : f[k] = g[k]) => nvsLoadConfig(f) = nvsLoadConfig(g)
         /\ (\A k \in PartKeys("cal") : f[k] = g[k]) => nvsLoadCal(f) = nvsLoadCal(g)
<1>1. ASSUME \A k \in PartKeys("cfg") : f[k] = g[k]
      PROVE  nvsLoadConfig(f) = nvsLoadConfig(g)
  <2>1. f["_v"] = g["_v"] /\ \A k \in ConfigKeys : f[k] = g[k]
    BY <1>1 DEF PartKeys
  <2>2. [k \in ConfigKeys |-> IF f[k] = Missing THEN Start[k] ELSE f[k]]
          = [k \in ConfigKeys |-> IF g[k] = Missing THEN Start[k] ELSE g[k]]
    BY <2>1
  <2> QED
    BY <2>1, <2>2 DEF nvsLoadConfig
<1>2. ASSUME \A k \in PartKeys("cal") : f[k] = g[k]
      PROVE  nvsLoadCal(f) = nvsLoadCal(g)
  BY <1>2 DEF nvsLoadCal, PartKeys
<1> QED
  BY <1>1, <1>2

LEMMA BootFollows ==
  ASSUME TInv, Setup, UNCHANGED flash
  PROVE  FlashFollows' /\ SaveFollows'
<1>0. PICK unread \in SUBSET Parts : Boot(flash, unread)
  BY SetupFails DEF TInv
<1>1. saver'.pc = "idle" /\ lost' = unread
  BY <1>0 DEF Boot, Idle
<1>2. "cfg" \notin unread => mem'.cfg = Configured(nvsLoadConfig(flash'))
  BY <1>0 DEF Boot
<1>3. "cal" \notin unread /\ ~dirty'.cal => mem'.cal = nvsLoadCal(flash')
  BY <1>0 DEF Boot
<1> QED
  BY <1>1, <1>2, <1>3 DEF FlashFollows, SaveFollows, ConfigKept, CalKept

LEMMA TakenFollows ==
  ASSUME Follows, TakeDirty
  PROVE  FlashFollows' /\ SaveFollows'
<1>1. /\ saver.pc = "idle" /\ saver'.pc = "save" /\ saver'.cfg = mem.cfg
      /\ saver'.cal = mem.cal /\ mem' = mem /\ flash' = flash
      /\ saver'.todo = [p \in Parts |-> IF dirty[p] THEN Order[p] ELSE <<>>]
      /\ lost' = {p \in lost : ~dirty[p]}
  BY DEF TakeDirty
<1>2. /\ dirty \in [cfg : BOOLEAN, cal : BOOLEAN]
      /\ dirty["cfg"] = dirty.cfg /\ dirty["cal"] = dirty.cal
      /\ mem.cfg \in Config /\ Valid(mem.cfg) /\ mem.cal \in [CalKeys -> Int]
      /\ flash \in [Keys -> Int]
  BY DEF Follows, TInv, TypeOK
<1>3. TInv'
  BY TInvStep DEF Follows, Next, LoopTask
<1>4. ASSUME NEW p \in Parts, dirty[p], NEW k \in PartKeys(p)
      PROVE  Will'[k] = ToWrite(k)'
  <2>1. saver'.todo[p] = Order[p]
    BY <1>1, <1>4
  <2>2. Marked(saver'.todo[p], k)
    BY <2>1, <1>4, Complete
  <2>3. k \in Keys
    BY <1>4 DEF PartKeys
  <2>4. k \in Left'
    BY <2>2, <2>3 DEF Left
  <2> QED
    BY <2>3, <2>4 DEF Will
<1>5. ASSUME NEW p \in Parts, ~dirty[p], NEW k \in PartKeys(p)
      PROVE  Will'[k] = flash[k]
  <2>1. saver'.todo[p] = <<>>
    BY <1>1, <1>5
  <2>2. ASSUME NEW q \in Parts, q # p PROVE ~Marked(saver'.todo[q], k)
    BY <2>2, <1>3, <1>5, MarkedApart DEF TInv, Todos
  <2>3. ~Marked(saver'.todo[p], k)
    BY <2>1, MarkedEmpty
  <2>4. k \notin Left' /\ k \in Keys
    BY <1>5, <2>2, <2>3 DEF Left, PartKeys
  <2> QED
    BY <1>1, <2>4 DEF Will
<1>6. \A k \in Keys : ToWrite(k)' = IF k \in ConfigKeys THEN mem.cfg[k]
                                    ELSE IF k = "_v" THEN 1 ELSE mem.cal[k]
  BY <1>1 DEF ToWrite
<1>7. ASSUME "cfg" \notin lost' PROVE saver'.cfg = Configured(nvsLoadConfig(Will'))
  <2>1. CASE dirty["cfg"]
    <3>1. Will'["_v"] = 1 /\ \A k \in ConfigKeys : Will'[k] = mem.cfg[k]
      BY <2>1, <1>4, <1>6 DEF PartKeys
    <3>2. \A k \in ConfigKeys : mem.cfg[k] # Missing
      BY <1>2, PersistenceAssumption DEF Config, PersistenceAssumption, Missing
    <3>3. nvsLoadConfig(Will') = [k \in ConfigKeys |-> mem.cfg[k]]
      BY <3>1, <3>2 DEF nvsLoadConfig
    <3>4. nvsLoadConfig(Will') = mem.cfg
      BY <3>3, <1>2, ConfigIs
    <3> QED
      BY <3>4, <1>1, <1>2 DEF Configured
  <2>2. CASE ~dirty["cfg"]
    <3>1. nvsLoadConfig(Will') = nvsLoadConfig(flash)
      BY <2>2, <1>5, LoadsPart
    <3>2. mem.cfg = Configured(nvsLoadConfig(flash))
      BY <2>2, <1>1, <1>2, <1>7 DEF Follows, FlashFollows, ConfigKept
    <3> QED
      BY <3>1, <3>2, <1>1
  <2> QED
    BY <2>1, <2>2
<1>8. ASSUME "cal" \notin lost' PROVE saver'.cal = nvsLoadCal(Will')
  <2>1. CASE dirty["cal"]
    <3>1. \A k \in CalKeys : Will'[k] = mem.cal[k]
      BY <2>1, <1>4, <1>6 DEF PartKeys
    <3> QED
      BY <3>1, <1>1, <1>2 DEF nvsLoadCal
  <2>2. CASE ~dirty["cal"]
    <3>1. nvsLoadCal(Will') = nvsLoadCal(flash)
      BY <2>2, <1>5, LoadsPart
    <3>2. mem.cal = nvsLoadCal(flash)
      BY <2>2, <1>1, <1>2, <1>8 DEF Follows, FlashFollows, CalKept
    <3> QED
      BY <3>1, <3>2, <1>1
  <2> QED
    BY <2>1, <2>2
<1> QED
  BY <1>1, <1>7, <1>8 DEF FlashFollows, SaveFollows

LEMMA FailsFollow ==
  ASSUME Follows, OpenFails \/ PutFails
  PROVE  FlashFollows' /\ SaveFollows'
<1>0. TInv
  BY DEF Follows
<1>1. /\ Todo # <<>> /\ lost' = lost \cup {Part}
      /\ UNCHANGED <<flash, mem, dirty>>
      /\ \E rest \in {Tail(Todo), <<>>} : saver' = [saver EXCEPT !.todo[Part] = rest]
  BY DEF OpenFails, PutFails, Todo
<1>2. /\ saver.pc = "save" /\ saver'.pc = "save"
      /\ saver'.cfg = saver.cfg /\ saver'.cal = saver.cal
  BY <1>0, <1>1, KeyGone, OneOfTodo
<1>3. "cfg" \notin lost' => nvsLoadConfig(Will') = nvsLoadConfig(Will)
  BY <1>0, <1>1, WillFails, LoadsPart
<1>4. "cal" \notin lost' => nvsLoadCal(Will') = nvsLoadCal(Will)
  BY <1>0, <1>1, WillFails, LoadsPart
<1> QED
  BY <1>1, <1>2, <1>3, <1>4 DEF Follows, FlashFollows, SaveFollows

LEMMA FollowsInit == Init => Follows
<1> SUFFICES ASSUME Init PROVE Follows
  OBVIOUS
<1>1. nvsLoadConfig(Blank) = Start
  BY DEF nvsLoadConfig, Blank
<1>2. Configured(nvsLoadConfig(Blank)) = nvsLoadConfig(Blank)
  BY <1>1, StartConfig DEF Configured
<1>3. nvsLoadCal(Blank) = NoGains
  BY DEF nvsLoadCal, Blank, NoGains
<1>4. saver.pc = "idle"
  BY DEF Init, Idle
<1> QED
  BY <1>2, <1>3, <1>4, TInvInit
     DEF Init, Follows, FlashFollows, SaveFollows, ConfigKept, CalKept

LEMMA FollowsStep == Follows /\ [Next]_vars => Follows'
<1> SUFFICES ASSUME Follows, [Next]_vars PROVE FlashFollows' /\ SaveFollows'
  BY TInvStep DEF Follows
<1>t. TInv /\ FlashFollows /\ SaveFollows
  BY DEF Follows
<1>0. ASSUME UNCHANGED <<flash, saver>> PROVE Will' = Will
  BY <1>0 DEF Will, Left, ToWrite
<1>1. ASSUME NEW c \in Config, ApplyConfig(c) PROVE FlashFollows' /\ SaveFollows'
  <2>1. /\ UNCHANGED <<flash, saver, lost>> /\ dirty'.cfg /\ dirty'.cal = dirty.cal
        /\ mem'.cal = mem.cal
    BY <1>1, <1>t DEF ApplyConfig, Handler, TInv, TypeOK
  <2> QED
    BY <2>1, <1>0, <1>t DEF FlashFollows, SaveFollows, ConfigKept, CalKept
<1>2. ASSUME NEW c, SetGains(c) PROVE FlashFollows' /\ SaveFollows'
  <2>1. /\ UNCHANGED <<flash, saver, lost>> /\ dirty'.cal /\ dirty'.cfg = dirty.cfg
        /\ mem'.cfg = mem.cfg
    BY <1>2, <1>t DEF SetGains, Handler, TInv, TypeOK
  <2> QED
    BY <2>1, <1>0, <1>t DEF FlashFollows, SaveFollows, ConfigKept, CalKept
<1>3. CASE TakeDirty
  BY <1>3, TakenFollows
<1>4. CASE WriteKey
  <2>1. /\ Will' = Will /\ Todo # <<>> /\ saver' = [saver EXCEPT !.todo[Part] = Tail(Todo)]
        /\ UNCHANGED <<mem, dirty, lost>>
    BY <1>4, <1>t, WillStands DEF WriteKey, Todo
  <2>2. /\ saver.pc = "save" /\ saver'.pc = "save"
        /\ saver'.cfg = saver.cfg /\ saver'.cal = saver.cal
    BY <2>1, <1>t, KeyGone, OneOfTodo
  <2> QED
    BY <2>1, <2>2, <1>t DEF FlashFollows, SaveFollows
<1>5. CASE OpenFails \/ PutFails
  BY <1>5, FailsFollow
<1>6. CASE Written
  <2>1. saver.pc = "save" /\ Todo = <<>>
    BY <1>6 DEF Written
  <2>2. \A p \in Parts : saver.todo[p] = <<>>
    BY <2>1 DEF Todo, Part
  <2>3. Will = flash
    BY <2>2, <1>t, NothingLeft
  <2>4. saver'.pc # "save" /\ UNCHANGED <<mem, dirty, flash, lost>>
    BY <1>6, <1>t DEF Written, TInv, TypeOK
  <2> QED
    BY <2>1, <2>3, <2>4, <1>t DEF FlashFollows, SaveFollows, ConfigKept, CalKept
<1>7. CASE Restart
  BY <1>7, <1>t, BootFollows DEF Restart
<1>8. CASE PowerCut
  BY <1>8, <1>t, BootFollows DEF PowerCut
<1>9. CASE UNCHANGED vars
  BY <1>9, <1>0, <1>t DEF vars, FlashFollows, SaveFollows, ConfigKept, CalKept
<1> QED
  BY <1>1, <1>2, <1>3, <1>4, <1>5, <1>6, <1>7, <1>8, <1>9 DEF Next, Handlers, LoopTask

(* Between two saves, what is not marked dirty is what the next start will *)
(* read, however the handlers, the cuts and the failures fell into the     *)
(* saves before, but for a part whose last save or load met a failure.     *)
THEOREM NothingForgotten == Spec => []FlashFollows
<1>1. Follows => FlashFollows
  BY DEF Follows
<1> QED
  BY <1>1, FollowsInit, FollowsStep, PTL DEF Spec

-----------------------------------------------------------------------------
(* While the power is never cut and no put fails, the gains in use, those  *)
(* copied and those that will be in the flash are each of one measurement; *)
(* those that are in the flash too, but while they are being written.      *)
Whole(c) == \A k, l \in GainKeys : c[k] = c[l]

WholeInv ==
  cuts = 0 /\ failed.put = 0 =>
    /\ Whole(mem.cal) /\ Whole(saver.cal) /\ Whole(Will)
    /\ Len(saver.todo["cal"]) <= 4
    /\ Len(saver.todo["cal"]) \in {0, 4} => Whole(flash)

LEMMA WholeGains ==
  /\ Whole(NoGains) /\ \A m \in Measurements : Whole(Measured(m))
  /\ \A c : Whole(c) => Whole(Sanitized(c))
  /\ \A f : Whole(nvsLoadCal(f)) <=> Whole(f)
  /\ \A f, g : (\A k \in PartKeys("cal") : f[k] = g[k]) => (Whole(f) <=> Whole(g))
BY DEF Whole, NoGains, Measured, Sanitized, nvsLoadCal, PartKeys

LEMMA OrderLengths == Len(Order["cal"]) = 4
BY DEF Order, CalOrder

LEMMA WholeInit == Init => WholeInv
<1> SUFFICES ASSUME Init PROVE WholeInv
  OBVIOUS
<1>1. \A p \in Parts : saver.todo[p] = <<>>
  BY DEF Init, Idle, NothingToDo
<1>2. Will = Blank
  BY <1>1, TInvInit, NothingLeft DEF Init
<1>3. Whole(Blank) /\ Whole(saver.cal) /\ Whole(mem.cal)
  BY WholeGains DEF Init, Idle, Whole, Blank
<1>4. Len(saver.todo["cal"]) = 0
  BY <1>1
<1> QED
  BY <1>2, <1>3, <1>4 DEF Init, WholeInv

LEMMA BootWhole ==
  ASSUME TInv, WholeInv, saver.pc # "save", cuts = 0, failed.put = 0, Setup, UNCHANGED flash
  PROVE  WholeInv'
<1>0. PICK unread \in SUBSET Parts : Boot(flash, unread)
  BY SetupFails DEF TInv
<1>1. saver.todo["cal"] = <<>> /\ Whole(flash)
  BY DEF TInv, Todos, WholeInv
<1>2. /\ mem'.cal = Sanitized(IF "cal" \in unread THEN NoGains ELSE nvsLoadCal(flash))
      /\ saver' = Idle
  BY <1>0 DEF Boot
<1>3. Whole(mem'.cal)
  BY <1>1, <1>2, WholeGains
<1>4. saver'.cal = NoGains /\ \A p \in Parts : saver'.todo[p] = <<>>
  BY <1>2 DEF Idle, NothingToDo
<1>5. Left' = {}
  BY <1>4, MarkedEmpty DEF Left
<1>6. \A k \in Keys : Will'[k] = flash'[k]
  BY <1>5 DEF Will
<1>7. Whole(Will')
  BY <1>1, <1>6 DEF Whole
<1>8. Len(saver'.todo["cal"]) = 0
  BY <1>4
<1> QED
  BY <1>1, <1>3, <1>4, <1>7, <1>8, WholeGains DEF WholeInv

LEMMA WholeTaken ==
  ASSUME TInv, WholeInv, TakeDirty, cuts = 0, failed.put = 0
  PROVE  WholeInv'
<1>1. /\ saver.pc = "idle" /\ saver'.cal = mem.cal /\ mem' = mem /\ flash' = flash
      /\ saver'.todo = [p \in Parts |-> IF dirty[p] THEN Order[p] ELSE <<>>]
  BY DEF TakeDirty
<1>2. TInv'
  BY TInvStep DEF Next, LoopTask
<1>3. Whole(mem.cal) /\ Whole(flash)
  BY <1>1 DEF TInv, Todos, WholeInv
<1>4. saver'.todo["cal"] \in {<<>>, Order["cal"]}
  BY <1>1
<1>5. Len(saver'.todo["cal"]) = 0 \/ Len(saver'.todo["cal"]) = 4
  BY <1>4, OrderLengths
<1>6. Whole(Will')
  <2>1. CASE dirty["cal"]
    <3>1. \A k \in GainKeys : k \in Left'
      BY <1>1, <2>1, Complete DEF Left, PartKeys
    <3>2. \A k \in GainKeys : Will'[k] = mem.cal[k]
      BY <1>1, <3>1 DEF Will, ToWrite
    <3> QED
      BY <3>2, <1>3 DEF Whole
  <2>2. CASE ~dirty["cal"]
    <3>1. \A k \in PartKeys("cal") : ~Marked(saver'.todo["cal"], k)
      BY <1>1, <2>2, MarkedEmpty
    <3>2. \A k \in PartKeys("cal") : ~Marked(saver'.todo["cfg"], k)
      BY <1>2, MarkedApart DEF TInv, Todos
    <3>3. \A k \in PartKeys("cal") : k \in Keys /\ k \notin Left'
      BY <3>1, <3>2 DEF Left, PartKeys
    <3>4. \A k \in PartKeys("cal") : Will'[k] = flash[k]
      BY <3>3, <1>1 DEF Will
    <3> QED
      BY <3>4, <1>3, WholeGains
  <2> QED
    BY <2>1, <2>2
<1>7. Len(saver'.todo["cal"]) <= 4
  <2>1. \A n : n = 0 \/ n = 4 => n <= 4
    OBVIOUS
  <2> QED
    BY <1>5, <2>1
<1>8. Whole(mem'.cal) /\ Whole(saver'.cal) /\ Whole(flash')
  BY <1>1, <1>3
<1> QED
  BY <1>6, <1>7, <1>8 DEF WholeInv

LEMMA WholeWritten ==
  ASSUME TInv, WholeInv, WriteKey, cuts = 0, failed.put = 0
  PROVE  WholeInv'
<1>1. /\ Todo # <<>> /\ flash' = [flash EXCEPT ![Key] = ToWrite(Key)] /\ mem' = mem
      /\ saver' = [saver EXCEPT !.todo[Part] = Tail(Todo)]
  BY DEF WriteKey, Todo
<1>2. /\ saver'.cal = saver.cal
      /\ \A p \in Parts : saver'.todo[p] = IF p = Part THEN Tail(Todo) ELSE saver.todo[p]
  BY <1>1, KeyGone
<1>3. /\ Part \in Parts /\ Todo = saver.todo[Part] /\ Todo \in Seq(PartKeys(Part))
      /\ Key \in PartKeys(Part) /\ Key \in Keys
  BY <1>1, OneOfTodo
<1>4. Whole(Will')
  BY WillStands DEF WholeInv
<1>5. TInv'
  BY WriteTypes
<1>6. CASE Part = "cfg"
  <2>1. \A k \in PartKeys("cal") : flash'[k] = flash[k]
    BY <1>1, <1>3, <1>6 DEF TInv, TypeOK, PartKeys
  <2>2. saver'.todo["cal"] = saver.todo["cal"]
    BY <1>2, <1>6
  <2> QED
    BY <2>1, <2>2, <1>1, <1>2, <1>4, WholeGains DEF WholeInv
<1>7. CASE Part = "cal"
  <2>1. saver'.todo["cal"] = Tail(Todo) /\ Len(Todo) <= 4
    BY <1>2, <1>3, <1>7 DEF WholeInv
  <2>2. Len(Todo) \in Nat /\ Len(Tail(Todo)) = Len(Todo) - 1
    BY <1>1, <1>3, TodoTail
  <2>3. ASSUME Len(saver'.todo["cal"]) \in {0, 4} PROVE Whole(flash')
    <3>0. saver'.todo["cal"] \in Seq(CalKeys)
      BY <1>5 DEF TInv, Todos, PartKeys
    <3>1. Len(saver'.todo["cal"]) = 0
      BY <2>1, <2>2, <2>3
    <3>2. saver'.todo["cal"] = <<>>
      BY <3>0, <3>1, EmptySeq
    <3>3. \A k \in PartKeys("cal") : k \in Keys /\ ~Marked(saver'.todo["cal"], k)
      BY <3>2, MarkedEmpty DEF PartKeys
    <3>4. \A k \in PartKeys("cal") : ~Marked(saver'.todo["cfg"], k)
      BY <1>5, MarkedApart DEF TInv, Todos
    <3>5. \A k \in PartKeys("cal") : k \notin Left'
      BY <3>3, <3>4 DEF Left
    <3>6. \A k \in PartKeys("cal") : Will'[k] = flash'[k]
      BY <3>3, <3>5 DEF Will
    <3> QED
      BY <3>6, <1>4, WholeGains
  <2> QED
    BY <2>1, <2>2, <2>3, <1>1, <1>2, <1>4 DEF WholeInv
<1> QED
  BY <1>3, <1>6, <1>7

(* The flash did not open: nothing of the part has been written, so that   *)
(* its gains, if it is the calibration, are what they were before.         *)
LEMMA WholeUnopened ==
  ASSUME TInv, WholeInv, OpenFails, cuts = 0, failed.put = 0
  PROVE  WholeInv'
<1>1. /\ Todo # <<>> /\ Todo = Order[Part] /\ UNCHANGED <<flash, mem>>
      /\ saver' = [saver EXCEPT !.todo[Part] = <<>>]
  BY DEF OpenFails
<1>2. /\ saver'.cal = saver.cal
      /\ \A p \in Parts : saver'.todo[p] = IF p = Part THEN <<>> ELSE saver.todo[p]
  BY <1>1, KeyGone
<1>3. Part \in Parts /\ Todo = saver.todo[Part]
  BY <1>1, OneOfTodo
<1>4. TInv'
  BY FailTypes
<1>5. CASE Part = "cfg"
  <2>1. \A k \in PartKeys("cal") : Will'[k] = Will[k]
    BY <1>5, WillFails
  <2>2. saver'.todo["cal"] = saver.todo["cal"]
    BY <1>2, <1>5
  <2> QED
    BY <2>1, <2>2, <1>1, <1>2, WholeGains DEF WholeInv
<1>6. CASE Part = "cal"
  <2>1. saver'.todo["cal"] = <<>> /\ Whole(flash)
    BY <1>1, <1>2, <1>3, <1>6, OrderLengths DEF WholeInv
  <2>2. \A k \in PartKeys("cal") : k \in Keys /\ ~Marked(saver'.todo["cal"], k)
    BY <2>1, MarkedEmpty DEF PartKeys
  <2>3. \A k \in PartKeys("cal") : ~Marked(saver'.todo["cfg"], k)
    BY <1>4, MarkedApart DEF TInv, Todos
  <2>4. \A k \in PartKeys("cal") : k \notin Left'
    BY <2>2, <2>3 DEF Left
  <2>5. \A k \in PartKeys("cal") : Will'[k] = flash[k]
    BY <2>2, <2>4, <1>1 DEF Will
  <2>6. Whole(Will')
    BY <2>1, <2>5, WholeGains
  <2>7. Len(saver'.todo["cal"]) = 0
    BY <2>1
  <2> QED
    BY <2>1, <2>6, <2>7, <1>1, <1>2 DEF WholeInv
<1> QED
  BY <1>3, <1>5, <1>6

LEMMA WholeStep == TInv /\ WholeInv /\ [Next]_vars => WholeInv'
<1> SUFFICES ASSUME TInv, WholeInv, [Next]_vars, cuts' = 0, failed'.put = 0
             PROVE  WholeInv'
  BY DEF WholeInv
<1>0. ASSUME UNCHANGED <<flash, saver>> PROVE Will' = Will
  BY <1>0 DEF Will, Left, ToWrite
<1>1. ASSUME NEW c \in Config, ApplyConfig(c) PROVE WholeInv'
  <2>1. UNCHANGED <<flash, saver, cuts, failed>> /\ mem'.cal = mem.cal
    BY <1>1 DEF ApplyConfig, Handler, TInv, TypeOK
  <2> QED
    BY <2>1, <1>0 DEF WholeInv
<1>2. ASSUME NEW c, Whole(c), SetGains(c) PROVE WholeInv'
  <2>1. UNCHANGED <<flash, saver, cuts, failed>> /\ mem'.cal = c
    BY <1>2 DEF SetGains, Handler, TInv, TypeOK
  <2> QED
    BY <2>1, <1>0, <1>2 DEF WholeInv
<1>3. CASE TakeDirty
  BY <1>3, WholeTaken DEF TakeDirty
<1>4. CASE WriteKey
  BY <1>4, WholeWritten DEF WriteKey
<1>5. CASE OpenFails
  <2>1. cuts = 0 /\ failed.put = 0
    BY <1>5 DEF OpenFails, Fails, TInv, TypeOK
  <2> QED
    BY <1>5, <2>1, WholeUnopened
<1>6. CASE PutFails
  <2>1. failed'.put = failed.put + 1 /\ failed.put \in Nat
    BY <1>6 DEF PutFails, Fails, TInv, TypeOK
  <2> QED
    BY <2>1
<1>7. CASE Written
  <2>1. /\ UNCHANGED <<flash, mem, cuts, failed>>
        /\ saver'.cal = saver.cal /\ saver'.cfg = saver.cfg /\ saver'.todo = saver.todo
    BY <1>7 DEF Written, TInv, TypeOK
  <2>2. Will' = Will
    BY <2>1 DEF Will, Left, ToWrite
  <2> QED
    BY <2>1, <2>2 DEF WholeInv
<1>8. CASE Restart
  <2>1. cuts = 0 /\ failed.put = 0 /\ saver.pc # "save" /\ UNCHANGED flash
    <3>1. failed.put = failed'.put
      BY <1>8 DEF Restart, Setup, Fails, TInv, TypeOK
    <3> QED
      BY <1>8, <3>1 DEF Restart
  <2> QED
    BY <1>8, <2>1, BootWhole DEF Restart
<1>9. CASE PowerCut
  BY <1>9, PersistenceAssumption DEF PowerCut, TInv, TypeOK, PersistenceAssumption
<1>10. CASE UNCHANGED vars
  BY <1>10, <1>0 DEF vars, WholeInv
<1> QED
  BY <1>1, <1>2, <1>3, <1>4, <1>5, <1>6, <1>7, <1>8, <1>9, <1>10, WholeGains
     DEF Next, Handlers, LoopTask

(* Without a cut of the power and a key that is lost the gains are never a *)
(* mixture of two measurements: restarts, changes during a save, and saves *)
(* and loads that do not open the flash included.                          *)
THEOREM GainsOfOneMeasurement == Spec => []GainsWholeUncut
<1>1. WholeInv => GainsWholeUncut
  BY DEF WholeInv, GainsWholeUncut, GainsWhole, Whole
<1>2. TInv /\ WholeInv /\ [Next]_vars => (TInv /\ WholeInv)'
  BY TInvStep, WholeStep
<1> QED
  BY <1>1, <1>2, TInvInit, WholeInit, PTL DEF Spec
=============================================================================
