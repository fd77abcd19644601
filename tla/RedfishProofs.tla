---------------------------- MODULE RedfishProofs ----------------------------
(***************************************************************************)
(* Theorems about Redfish, for any requests.                               *)
(***************************************************************************)
EXTENDS Redfish, TLAPS

-----------------------------------------------------------------------------
(* What the parts of a request return *)

\* A request's empty fields keep what the system has, so the result is whole.
LEMMA MergeType ==
    ASSUME NEW old \in BootType, NEW p \in Patches
    PROVE  Merge(old, p) \in BootType
<1> DEFINE t == IF p.target = "" THEN old.target ELSE p.target
           e == IF p.enabled = "" THEN old.enabled ELSE p.enabled
<1>1. old.target \in Targets /\ old.enabled \in Enableds
  BY DEF BootType
<1>2. t \in Targets
  <2>1. CASE p.target = ""
    BY <1>1, <2>1
  <2>2. CASE p.target # ""
    BY <2>2 DEF Targets
  <2> QED
    BY <2>1, <2>2
<1>3. e \in Enableds
  <2>1. CASE p.enabled = ""
    BY <1>1, <2>1
  <2>2. CASE p.enabled # ""
    BY <2>2 DEF Enableds
  <2> QED
    BY <2>1, <2>2
<1>4. Merge(old, p) = [target |-> t, enabled |-> e]
  BY DEF Merge
<1> HIDE DEF t, e
<1> QED
  BY <1>2, <1>3, <1>4 DEF BootType

\* A boot under a one-time override is counted, up to the bound.
LEMMA BootsCounts ==
    ASSUME TypeOK, NEW id \in Systems, Boots(id)
    PROVE  /\ onceBoots' \in [Systems -> 0..MaxBootsCounted]
           /\ boot[id].enabled = "Once" => onceBoots'[id] > 0
<1> DEFINE n == IF boot[id].enabled = "Once" /\ onceBoots[id] < MaxBootsCounted
                  THEN onceBoots[id] + 1 ELSE onceBoots[id]
<1>1. onceBoots \in [Systems -> 0..MaxBootsCounted] /\ onceBoots[id] \in 0..MaxBootsCounted
  BY DEF TypeOK
<1>2. onceBoots' = [onceBoots EXCEPT ![id] = n]
  BY DEF Boots
<1>3. n \in 0..MaxBootsCounted /\ (boot[id].enabled = "Once" => n > 0)
  BY <1>1 DEF MaxBootsCounted
<1> HIDE DEF n
<1> QED
  BY <1>1, <1>2, <1>3

\* What a restart does to the override: a one-time one is disabled, after a boot
\* under it; any other, and those of other systems, stay.
LEMMA RestartConsumes ==
    ASSUME TypeOK, NEW id \in Systems, Restart(id), NEW s \in Systems
    PROVE  /\ boot' \in [Systems -> BootType]
           /\ boot'[s] # boot[s] => Consumed(s)
<1> DEFINE e == IF boot[id].enabled = "Once" THEN "Disabled" ELSE boot[id].enabled
           new == [boot[id] EXCEPT !.enabled = e]
<1>1. boot \in [Systems -> BootType] /\ boot[id] \in BootType
  BY DEF TypeOK
<1>2. boot' = [boot EXCEPT ![id] = new]
  BY DEF Restart
<1>3. new \in BootType
  <2>1. /\ boot[id] = [target |-> boot[id].target, enabled |-> boot[id].enabled]
        /\ boot[id].target \in Targets /\ boot[id].enabled \in Enableds
    BY <1>1 DEF BootType
  <2>2. e \in Enableds
    <3>1. CASE boot[id].enabled = "Once"
      BY <3>1 DEF Enableds
    <3>2. CASE boot[id].enabled # "Once"
      BY <2>1, <3>2
    <3> QED
      BY <3>1, <3>2
  <2> HIDE DEF e
  <2>3. new = [target |-> boot[id].target, enabled |-> e]
    <3> DEFINE b == boot[id]
    <3> HIDE DEF b
    <3>1. b = [target |-> b.target, enabled |-> b.enabled]
      BY <2>1 DEF b
    <3>2. [b EXCEPT !.enabled = e] = [target |-> b.target, enabled |-> e]
      BY <3>1
    <3> QED
      BY <3>2 DEF b
  <2> QED
    BY <2>1, <2>2, <2>3 DEF BootType
<1>4. ASSUME boot[id].enabled # "Once" PROVE new = boot[id]
  BY <1>1, <1>4 DEF BootType
<1>5. ASSUME boot[id].enabled = "Once" PROVE new = [boot[id] EXCEPT !.enabled = "Disabled"]
  BY <1>5
<1> HIDE DEF new
<1>6. boot' \in [Systems -> BootType]
  BY <1>1, <1>2, <1>3
<1>7. ASSUME boot'[s] # boot[s] PROVE Consumed(s)
  <2>1. s = id /\ boot'[s] = new
    BY <1>1, <1>2, <1>7
  <2>2. boot[s].enabled = "Once"
    BY <1>4, <1>7, <2>1
  <2>3. onceBoots'[s] > 0
    BY <2>1, <2>2, BootsCounts DEF Restart
  <2> QED
    BY <1>5, <2>1, <2>2, <2>3 DEF Consumed
<1> QED
  BY <1>6, <1>7

-----------------------------------------------------------------------------
(* Types, and the status beside the power state *)

LEMMA InitType == Init => TypeOK
<1> SUFFICES ASSUME Init PROVE TypeOK
  OBVIOUS
<1>1. [target |-> "None", enabled |-> "Disabled"] \in BootType
  <2>1. "None" \in Targets /\ "Disabled" \in Enableds
    BY DEF Targets, Enableds
  <2> QED
    BY <2>1 DEF BootType
<1>2. 0 \in 0..MaxBootsCounted
  BY DEF MaxBootsCounted
<1>3. /\ power \in [Systems -> {"On", "Off"}]
      /\ state = [s \in Systems |-> "Enabled"]
      /\ boot \in [Systems -> BootType]
      /\ onceBoots \in [Systems -> 0..MaxBootsCounted]
      /\ reply.code = 200
  BY <1>1, <1>2 DEF Init
<1> QED
  BY <1>3 DEF TypeOK

\* A request that is refused, or only reads, changes nothing but the reply.
LEMMA ReplyKeepsType ==
    ASSUME TypeOK, UNCHANGED <<power, state, boot, onceBoots>>,
           reply'.code \in {200, 400, 404}
    PROVE  TypeOK'
<1>1. power' = power /\ state' = state /\ boot' = boot /\ onceBoots' = onceBoots
  OBVIOUS
<1> QED
  BY <1>1 DEF TypeOK

LEMMA RefusalKeepsType ==
    ASSUME TypeOK, NEW code \in {400, 404}, Refuse(code)
    PROVE  TypeOK'
<1>1. reply'.code = code
  BY DEF Refuse, Answer
<1>2. UNCHANGED <<power, state, boot, onceBoots>>
  BY DEF Refuse
<1> QED
  BY <1>1, <1>2, ReplyKeepsType

LEMMA PatchKeepsType ==
    ASSUME TypeOK, NEW id \in Ids, NEW p \in Patches \cup {None}, PatchSystem(id, p)
    PROVE  TypeOK'
<1>1. CASE ~ \E code \in {400, 404} : Refuse(code)
  <2> DEFINE n == IF p.enabled = "" THEN onceBoots[id] ELSE 0
  <2>1. /\ p \in Patches /\ id \in Systems
        /\ boot' = [boot EXCEPT ![id] = Merge(boot[id], p)]
        /\ onceBoots' = [onceBoots EXCEPT ![id] = n]
        /\ Answer(200, boot'[id])
        /\ power' = power /\ state' = state
    BY <1>1 DEF PatchSystem
  <2>2. n = onceBoots[id] \/ n = 0
    OBVIOUS
  <2> HIDE DEF n
  <2>3. boot \in [Systems -> BootType] /\ boot[id] \in BootType
    BY <2>1 DEF TypeOK
  <2>4. Merge(boot[id], p) \in BootType
    BY <2>1, <2>3, MergeType, Zenon
  <2>5. boot' \in [Systems -> BootType]
    BY <2>1, <2>3, <2>4
  <2>6. onceBoots \in [Systems -> 0..MaxBootsCounted] /\ onceBoots[id] \in 0..MaxBootsCounted
    BY <2>1 DEF TypeOK
  <2>7. 0 \in 0..MaxBootsCounted
    BY DEF MaxBootsCounted
  <2>8. n \in 0..MaxBootsCounted
    BY <2>2, <2>6, <2>7
  <2>9. onceBoots' \in [Systems -> 0..MaxBootsCounted]
    BY <2>1, <2>6, <2>8
  <2>10. reply'.code = 200
    BY <2>1 DEF Answer
  <2> QED
    BY <2>1, <2>5, <2>9, <2>10 DEF TypeOK
<1> QED
  BY <1>1, RefusalKeepsType

\* The three resets write power and status together, so none leaves a system that
\* runs in standby.
LEMMA ResetKeepsType ==
    ASSUME TypeOK, NEW id \in Ids, NEW t, ResetSystem(id, t)
    PROVE  TypeOK'
<1>1. ASSUME NEW code \in {400, 404}, Refuse(code) PROVE TypeOK'
  BY <1>1, RefusalKeepsType
<1>2. CASE id \in Systems /\ PowerOn(id) /\ reply'.code = 204
  <2>1. onceBoots' \in [Systems -> 0..MaxBootsCounted]
    BY <1>2, BootsCounts DEF PowerOn, TypeOK
  <2>2. /\ power' = [power EXCEPT ![id] = "On"]
        /\ state' = [state EXCEPT ![id] = "Enabled"]
        /\ boot' = boot
    BY <1>2 DEF PowerOn
  <2> QED
    BY <1>2, <2>1, <2>2 DEF TypeOK
<1>3. CASE id \in Systems /\ PowerOff(id) /\ reply'.code = 204
  BY <1>3 DEF PowerOff, TypeOK
<1>4. CASE id \in Systems /\ Restart(id) /\ reply'.code = 204
  <2>1. onceBoots' \in [Systems -> 0..MaxBootsCounted]
    BY <1>4, BootsCounts DEF Restart
  <2>2. boot' \in [Systems -> BootType]
    BY <1>4, RestartConsumes
  <2> QED
    BY <1>4, <2>1, <2>2 DEF Restart, TypeOK
<1>5. ASSUME Answer(204, None) PROVE reply'.code = 204
  BY <1>5 DEF Answer
<1> QED
  BY <1>1, <1>2, <1>3, <1>4, <1>5 DEF ResetSystem

LEMMA ReadKeepsType ==
    ASSUME TypeOK, NEW id \in Ids, Read(id)
    PROVE  TypeOK'
<1>1. UNCHANGED <<power, state, boot, onceBoots>>
  BY DEF Read
<1>2. reply'.code \in {200, 404}
  BY DEF Read, GetSystem, GetChassis, GetThermal, GetPower, GetNothing, Answer
<1> QED
  BY <1>1, <1>2, ReplyKeepsType

LEMMA StepKeepsType == TypeOK /\ [Next]_vars => TypeOK'
<1> SUFFICES ASSUME TypeOK, [Next]_vars PROVE TypeOK'
  OBVIOUS
<1>1. CASE UNCHANGED vars
  BY <1>1 DEF vars, TypeOK
<1>2. ASSUME NEW id \in Ids, NEW p \in Patches \cup {None}, PatchSystem(id, p)
      PROVE  TypeOK'
  BY <1>2, PatchKeepsType
<1>3. ASSUME NEW id \in Ids, NEW t, ResetSystem(id, t)
      PROVE  TypeOK'
  BY <1>3, ResetKeepsType
<1>4. ASSUME NEW id \in Ids, Read(id) PROVE TypeOK'
  BY <1>4, ReadKeepsType
<1> QED
  BY <1>1, <1>2, <1>3, <1>4 DEF Next

\* Whatever order requests come in, the systems keep their shape, and none that
\* runs is called offline by a read of its chassis.
THEOREM RedfishTypeCorrect == Spec => []TypeOK
<1> QED
  BY InitType, StepKeepsType, PTL DEF Spec

-----------------------------------------------------------------------------
(* The override *)

\* Only a client and a restart of the same system change a system's override, and
\* the restart only a one-time one.
LEMMA OnlyPatchOrRestart ==
    ASSUME TypeOK, Next, NEW s \in Systems, boot'[s] # boot[s]
    PROVE  Consumed(s) \/ \E p \in Patches : PatchSystem(s, p)
<1>1. ASSUME NEW id \in Ids, NEW p \in Patches \cup {None}, PatchSystem(id, p)
      PROVE  p \in Patches /\ PatchSystem(s, p)
  <2>1. boot' # boot
    OBVIOUS
  <2>2. p \in Patches /\ id \in Systems /\ boot' = [boot EXCEPT ![id] = Merge(@, p)]
    BY <1>1, <2>1 DEF PatchSystem, Refuse
  <2>3. id = s
    BY <2>2 DEF TypeOK
  <2> QED
    BY <1>1, <2>2, <2>3
<1>2. ASSUME NEW id \in Ids, NEW t, ResetSystem(id, t)
      PROVE  Consumed(s)
  <2>1. id \in Systems /\ Restart(id)
    BY <1>2 DEF ResetSystem, Refuse, PowerOn, PowerOff
  <2> QED
    BY <2>1, RestartConsumes
<1>3. ASSUME NEW id \in Ids, Read(id) PROVE FALSE
  BY <1>3 DEF Read
<1> QED
  BY <1>1, <1>2, <1>3 DEF Next

\* What a client has set as a system's override stays until a client changes it or
\* a restart consumes a one-time one, under which the system has then booted.
THEOREM OverrideKept == Spec => OverrideIsKept
<1>1. TypeOK /\ [Next]_vars =>
        [\A s \in Systems : boot'[s] # boot[s] =>
            Consumed(s) \/ \E p \in Patches : PatchSystem(s, p)]_vars
  BY OnlyPatchOrRestart
<1> QED
  BY <1>1, RedfishTypeCorrect, PTL DEF Spec, OverrideIsKept
=============================================================================
