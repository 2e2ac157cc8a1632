------------------------- MODULE CampaignProgression -------------------------
(***************************************************************************)
(* A campaign and its save slots: class CampaignProgression after          *)
(* finalize(), and class CampaignSaveStore (src/campaign_progression.cpp). *)
(* Any caller may call any method at any time; a call the code refuses     *)
(* changes nothing and is not a step.                                      *)
(***************************************************************************)
EXTENDS CampaignOps

CONSTANTS
    Slots,   \* the non-zero slot numbers a caller uses
    NoSave   \* what load() answers for a slot that was never saved

VARIABLES
    status,  \* entries_[m].status of every mission m
    slots    \* CampaignSaveStore::slots_

vars == <<status, slots>>

Init ==
    /\ status = Fresh
    /\ slots = [slot \in Slots |-> NoSave]

SetLoadout(m, l) ==
    /\ CanSetLoadout(status, m, l)
    /\ status' = WithLoadout(status, m, l)
    /\ UNCHANGED slots

EnterBriefing(m) ==
    /\ CanEnterBriefing(status, m)
    /\ status' = Briefed(status, m)
    /\ UNCHANGED slots

Begin(m) ==
    /\ CanBegin(status, m)
    /\ status' = Begun(status, m)
    /\ UNCHANGED slots

CompleteObjective(m, i) ==
    /\ CanCompleteObjective(status, m, i)
    /\ status' = ObjectiveCompleted(status, m, i)
    /\ UNCHANGED slots

Complete(m) ==
    /\ CanComplete(status, m)
    /\ status' = Won(status, m)
    /\ UNCHANGED slots

Fail(m) ==
    /\ CanFail(status, m)
    /\ status' = Lost(status, m)
    /\ UNCHANGED slots

\* store.save(slot, campaign.snapshot())
Save(slot) ==
    /\ slots' = [slots EXCEPT ![slot] = SnapshotOf(status)]
    /\ UNCHANGED status

\* campaign.restore(*store.load(slot))
Restore(slot) ==
    /\ slots[slot] # NoSave
    /\ Restorable(slots[slot])
    /\ status' = Restored(slots[slot])
    /\ UNCHANGED slots

Next ==
    \/ \E m \in Missions :
          \/ \E l \in Loadouts : SetLoadout(m, l)
          \/ EnterBriefing(m)
          \/ Begin(m)
          \/ \E i \in 0 .. ObjectiveCount[m] : CompleteObjective(m, i)
          \/ Complete(m)
          \/ Fail(m)
    \/ \E slot \in Slots : Save(slot) \/ Restore(slot)

Spec == Init /\ [][Next]_vars

-----------------------------------------------------------------------------
\* Every status is well formed, a mission's mask holds its own bits only, and a
\* slot is empty or holds a snapshot (campaign_progression.h:41-67, and the
\* index check of complete_objective).
TypeOK ==
    /\ status \in [Missions -> MissionStatus]
    /\ \A m \in Missions : status[m].mask \subseteq Objectives(m)
    /\ slots = [slot \in Slots |-> slots[slot]]
    /\ \A slot \in Slots : slots[slot] = NoSave \/ IsSnapshot(slots[slot])

\* A mission leaves Locked only once every prerequisite is won, and restoring
\* an older save takes the unlocks it no longer justifies back
\* (prerequisites_complete, refresh_unlocks, restore).
UnlockedOnMerit ==
    \A m \in Missions :
        status[m].state # "Locked" =>
            \A p \in Prerequisites[m] : status[p].state = "Completed"

\* No unlock is missed: as long as no mission was lost, some mission can be
\* played unless all are won.  It needs the acyclic table of finalize() and a
\* refresh after every change of a prerequisite.
NeverStuck ==
    \/ \A m \in Missions : status[m].state = "Completed"
    \/ \E m \in Missions : status[m].state = "Failed"
    \/ \E m \in Missions : status[m].state \in {"Available", "Briefing", "Active"}

\* Whatever was saved can be restored: every slot passes the checks that
\* restore() makes (a won mission has its full mask, an active one a loadout).
SavesAreRestorable ==
    \A slot \in Slots : slots[slot] # NoSave => Restorable(slots[slot])

\* Saving and restoring is the identity on everything but the loadout of a
\* mission not yet briefed: the states snapshot() leaves out are exactly the
\* ones restore() derives again.
SaveRestoreIdentity ==
    LET again == Restored(SnapshotOf(status))
    IN \A m \in Missions :
          /\ again[m].state = status[m].state
          /\ again[m].mask = status[m].mask
          /\ status[m].state \in Recorded => again[m].loadout = status[m].loadout

\* Progress is lost only by restoring: a won mission stays won, a lost one
\* stays lost, and objective bits are never cleared.
ProgressOnlyLostByRestore ==
    [][ \/ \E slot \in Slots : Restore(slot)
        \/ \A m \in Missions :
              /\ status[m].state \in {"Completed", "Failed"} =>
                    status'[m].state = status[m].state
              /\ status[m].mask \subseteq status'[m].mask ]_vars
=============================================================================
