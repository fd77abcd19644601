------------------------------- MODULE Redfish -------------------------------
(***************************************************************************)
(* The Redfish simulator: the systems of its store, the requests that      *)
(* change them, and the readings derived from them.  Every store operation *)
(* holds the mutex from its first line to its return, so a request is one  *)
(* action.  A chassis is the system of the same number.                    *)
(***************************************************************************)
EXTENDS Integers

CONSTANTS
    Ids,     \* the ids clients use, those of no system included
    Patches, \* the Boot members of PATCH requests: [target, enabled]
    None     \* a request without the member it needs, a reply without a body

\* The systems of NewHardwareStore.
H100 == "system-1"
A100 == "system-2"
Systems == {H100, A100}

ResetTypes == {"On", "ForceOff", "GracefulShutdown", "GracefulRestart", "ForceRestart"}
\* The store takes any text for either field, so a system holds what it started
\* with, what a restart writes and what clients sent; "" is a field the body does not
\* have, and never stored.
Targets == ({"None"} \cup {p.target : p \in Patches}) \ {""}
Enableds == ({"Disabled"} \cup {p.enabled : p \in Patches}) \ {""}
BootType == [target: Targets, enabled: Enableds]

VARIABLES
    power,     \* PowerState
    state,     \* Status.State
    boot,      \* Boot
    onceBoots, \* boots made under the one-time override that was set last
    reply      \* what the last request was answered

vars == <<power, state, boot, onceBoots, reply>>

Answer(code, body) == reply' = [code |-> code, body |-> body]

Init ==
    /\ power = [s \in Systems |-> IF s = H100 THEN "On" ELSE "Off"]
    /\ state = [s \in Systems |-> "Enabled"]
    /\ boot = [s \in Systems |-> [target |-> "None", enabled |-> "Disabled"]]
    /\ onceBoots = [s \in Systems |-> 0]
    /\ reply = [code |-> 200, body |-> None]

-----------------------------------------------------------------------------
\* Empty fields of the request keep what the system has.
Merge(old, patch) ==
    [target |-> IF patch.target = "" THEN old.target ELSE patch.target,
     enabled |-> IF patch.enabled = "" THEN old.enabled ELSE patch.enabled]

Refuse(code) == Answer(code, None) /\ UNCHANGED <<power, state, boot, onceBoots>>

PatchSystem(id, patch) ==
    \/ patch = None /\ Refuse(400)
    \/ patch # None /\ id \notin Systems /\ Refuse(404)
    \/ /\ patch # None
       /\ id \in Systems
       /\ boot' = [boot EXCEPT ![id] = Merge(@, patch)]
       /\ onceBoots' = [onceBoots EXCEPT ![id] = IF patch.enabled = "" THEN @ ELSE 0]
       /\ Answer(200, boot'[id])
       /\ UNCHANGED <<power, state>>

\* The machine goes through its firmware, which reads the override.  The count
\* stops at MaxBootsCounted.
MaxBootsCounted == 2
Boots(id) ==
    onceBoots' = [onceBoots EXCEPT ![id] =
        IF boot[id].enabled = "Once" /\ @ < MaxBootsCounted THEN @ + 1 ELSE @]

\* Mutant: a power-on leaves the status as it was.
PowerOnAlone(id) ==
    /\ power' = [power EXCEPT ![id] = "On"]
    /\ IF power[id] = "Off" THEN Boots(id) ELSE UNCHANGED onceBoots
    /\ UNCHANGED <<state, boot>>

PowerOn(id) ==
    /\ power' = [power EXCEPT ![id] = "On"]
    /\ state' = [state EXCEPT ![id] = "Enabled"]
    /\ IF power[id] = "Off" THEN Boots(id) ELSE UNCHANGED onceBoots
    /\ UNCHANGED boot

\* Mutant: a shutdown consumes the override, as if it were a reboot.
PowerOffConsumes(id) ==
    /\ power' = [power EXCEPT ![id] = "Off"]
    /\ state' = [state EXCEPT ![id] = "StandbyOffline"]
    /\ boot' = [boot EXCEPT ![id].enabled = IF @ = "Once" THEN "Disabled" ELSE @]
    /\ UNCHANGED onceBoots

PowerOff(id) ==
    /\ power' = [power EXCEPT ![id] = "Off"]
    /\ state' = [state EXCEPT ![id] = "StandbyOffline"]
    /\ UNCHANGED <<boot, onceBoots>>

Restart(id) ==
    /\ power' = [power EXCEPT ![id] = "On"]
    /\ state' = [state EXCEPT ![id] = "Enabled"]
    /\ Boots(id)
    /\ boot' = [boot EXCEPT ![id].enabled = IF @ = "Once" THEN "Disabled" ELSE @]

ResetSystem(id, type) ==
    \/ type \notin ResetTypes /\ Refuse(400)
    \/ type \in ResetTypes /\ id \notin Systems /\ Refuse(404)
    \/ /\ id \in Systems
       /\ \/ type = "On" /\ PowerOn(id)
          \/ type \in {"ForceOff", "GracefulShutdown"} /\ PowerOff(id)
          \/ type \in {"ForceRestart", "GracefulRestart"} /\ Restart(id)
       /\ Answer(204, None)

-----------------------------------------------------------------------------
(***************************************************************************)
(* The reads.                                                              *)
(***************************************************************************)

\* The readings depend on the power state alone; their numbers are left out.
ThermalState(id) == IF power[id] = "On" THEN "Enabled" ELSE "StandbyOffline"
DrawsBase(id) == power[id] # "Off"

GetSystem(id) ==
    /\ id \in Systems
    /\ Answer(200, [power |-> power[id], state |-> state[id], boot |-> boot[id]])

GetChassis(id) == id \in Systems /\ Answer(200, [state |-> state[id]])
GetThermal(id) == id \in Systems /\ Answer(200, [state |-> ThermalState(id)])
GetPower(id) == id \in Systems /\ Answer(200, [draws |-> DrawsBase(id)])
GetNothing(id) == id \notin Systems /\ Answer(404, None)

Read(id) ==
    /\ \/ GetSystem(id) \/ GetChassis(id) \/ GetThermal(id) \/ GetPower(id)
       \/ GetNothing(id)
    /\ UNCHANGED <<power, state, boot, onceBoots>>

Next == \E id \in Ids : \/ \E p \in Patches \cup {None} : PatchSystem(id, p)
                        \/ \E t \in ResetTypes \cup {"Nmi"} : ResetSystem(id, t)
                        \/ Read(id)

Spec == Init /\ [][Next]_vars

-----------------------------------------------------------------------------
\* The shape of the state.  A system in standby is off; whatever order resets come
\* in, no read of the chassis calls a running system offline.
TypeOK ==
    /\ power \in [Systems -> {"On", "Off"}]
    /\ state \in [Systems -> {"Enabled", "StandbyOffline"}]
    /\ boot \in [Systems -> BootType]
    /\ onceBoots \in [Systems -> 0..MaxBootsCounted]
    /\ reply.code \in {200, 204, 400, 404}
    /\ \A s \in Systems : state[s] = "StandbyOffline" => power[s] = "Off"

\* An override a client has set is never lost: besides the client only a restart
\* touches it, a one-time one alone, and then the system has booted under it.  It
\* outlives a shutdown, a failed request, and everything done to other systems.
Consumed(s) ==
    /\ boot[s].enabled = "Once"
    /\ boot'[s] = [boot[s] EXCEPT !.enabled = "Disabled"]
    /\ onceBoots'[s] > 0
OverrideIsKept ==
    [][\A s \in Systems : boot'[s] # boot[s] =>
          Consumed(s) \/ \E p \in Patches : PatchSystem(s, p)]_vars

\* store.go:177 "If boot override was set to "Once", consume it back to Disabled on
\* reset/reboot", and the README's "boot via PXE network boot once": at most one
\* boot happens under one setting of a one-time override.
OnceMeansOnce == \A s \in Systems : onceBoots[s] <= 1
=============================================================================
