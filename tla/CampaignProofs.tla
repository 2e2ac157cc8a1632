--------------------------- MODULE CampaignProofs ---------------------------
(***************************************************************************)
(* The properties of CampaignProgression, proved for every finite table of *)
(* missions whose prerequisites are acyclic, every set of loadouts and     *)
(* every set of save slots.                                                *)
(*                                                                         *)
(* The inductive invariant says that the table is Good: its statuses are   *)
(* consistent, it is unlocked on merit, and no unlock is missing.  A slot  *)
(* is GoodSave: it is what snapshot() can produce from a Good table.  The  *)
(* lemmas show that every method takes a Good table to a Good one, that a  *)
(* snapshot of a Good table is a GoodSave, and that restoring a GoodSave   *)
(* gives a Good table.                                                     *)
(***************************************************************************)
EXTENDS CampaignProgression, TLAPS

\* The part of a status that concerns one mission only.
Consistent(s) ==
    /\ s \in [Missions -> MissionStatus]
    /\ \A m \in Missions :
          /\ s[m].mask \subseteq Objectives(m)
          /\ s[m].state = "Completed" => s[m].mask = Objectives(m)
          /\ s[m].state = "Active" => s[m].loadout \in Loadouts
          /\ s[m].state \in {"Locked", "Available"} => s[m].mask = {}

Merit(s) ==
    \A m \in Missions : s[m].state # "Locked" =>
        \A p \in Prerequisites[m] : s[p].state = "Completed"

NoUnlockMissed(s) ==
    \A m \in Missions : s[m].state = "Locked" =>
        \E p \in Prerequisites[m] : s[p].state # "Completed"

Good(s) == Consistent(s) /\ Merit(s) /\ NoUnlockMissed(s)

GoodSave(x) ==
    /\ IsSnapshot(x)
    /\ \A m \in DOMAIN x :
          /\ x[m].state \in Recorded
          /\ x[m].mask \subseteq Objectives(m)
          /\ x[m].state = "Completed" => x[m].mask = Objectives(m)
          /\ x[m].state = "Active" => x[m].loadout \in Loadouts
          /\ \A p \in Prerequisites[m] :
                p \in DOMAIN x /\ x[p].state = "Completed"

IInv ==
    /\ Good(status)
    /\ slots = [slot \in Slots |-> slots[slot]]
    /\ \A slot \in Slots : slots[slot] = NoSave \/ GoodSave(slots[slot])

-----------------------------------------------------------------------------
\* A refresh keeps a consistent table, unlocked on merit, as it is, and leaves
\* no unlock out (refresh_unlocks).
LEMMA RefreshIsGood ==
    ASSUME NEW s, Consistent(s), Merit(s)
    PROVE  Good(RefreshUnlocks(s))
<1> DEFINE r == RefreshUnlocks(s)
<1>1. \A m \in Missions : r[m] = IF s[m].state = "Locked" /\ PrerequisitesComplete(s, m)
                                 THEN [s[m] EXCEPT !.state = "Available"]
                                 ELSE s[m]
  BY DEF RefreshUnlocks
<1>2. r \in [Missions -> MissionStatus]
  BY DEF RefreshUnlocks, Consistent, MissionStatus, MissionState
<1>3. \A m \in Missions : /\ r[m].mask = s[m].mask
                          /\ r[m].loadout = s[m].loadout
                          /\ r[m].state # s[m].state =>
                                s[m].state = "Locked" /\ r[m].state = "Available"
  BY <1>1 DEF Consistent, MissionStatus
<1>4. \A m \in Missions : r[m].state = "Completed" <=> s[m].state = "Completed"
  BY <1>3
<1>5. Consistent(r)
  BY <1>2, <1>3, <1>4 DEF Consistent
<1>6. Merit(r)
  <2> SUFFICES ASSUME NEW m \in Missions, r[m].state # "Locked",
                      NEW p \in Prerequisites[m]
               PROVE  r[p].state = "Completed"
    BY DEF Merit
  <2>1. p \in Missions
    BY PrerequisitesAssumption
  <2>2. s[p].state = "Completed"
    BY <1>1 DEF Merit, PrerequisitesComplete
  <2> QED BY <2>1, <2>2, <1>4
<1>7. NoUnlockMissed(r)
  <2> SUFFICES ASSUME NEW m \in Missions, r[m].state = "Locked"
               PROVE  \E p \in Prerequisites[m] : r[p].state # "Completed"
    BY DEF NoUnlockMissed
  <2>1. s[m].state = "Locked"
    BY <1>3
  <2>2. ~ PrerequisitesComplete(s, m)
    BY <1>1, <2>1 DEF Consistent, MissionStatus
  <2> QED BY <2>2, <1>4, PrerequisitesAssumption DEF PrerequisitesComplete
<1> QED BY <1>5, <1>6, <1>7 DEF Good

\* The table finalize() leaves is Good.
LEMMA FreshIsGood == Good(Fresh)
<1>1. Consistent(AllLocked)
  BY DEF Consistent, AllLocked, MissionStatus, MissionState
<1>2. Merit(AllLocked)
  BY DEF Merit, AllLocked
<1> QED BY <1>1, <1>2, RefreshIsGood DEF Fresh

\* A change of one mission's status that is consistent, does not lock or win
\* it, and does not lose a win, keeps the table Good.
LEMMA LocalChangeIsGood ==
    ASSUME NEW s, Good(s), NEW m \in Missions, NEW v \in MissionStatus,
           v.mask \subseteq Objectives(m),
           v.state = "Active" => v.loadout \in Loadouts,
           v.state = "Available" => v.mask = {},
           v.state \notin {"Locked", "Completed"},
           s[m].state \notin {"Locked", "Completed"}
    PROVE  Good([s EXCEPT ![m] = v])
<1> DEFINE t == [s EXCEPT ![m] = v]
<1>1. /\ t \in [Missions -> MissionStatus]
      /\ t[m] = v
      /\ \A n \in Missions : n # m => t[n] = s[n]
  BY DEF Good, Consistent
<1>2. \A n \in Missions : /\ t[n].state = "Completed" <=> s[n].state = "Completed"
                          /\ t[n].state = "Locked" <=> s[n].state = "Locked"
  BY <1>1
<1>3. Consistent(t)
  BY <1>1 DEF Good, Consistent
<1>4. Merit(t)
  BY <1>2, PrerequisitesAssumption DEF Good, Merit
<1>5. NoUnlockMissed(t)
  BY <1>2, PrerequisitesAssumption DEF Good, NoUnlockMissed
<1> QED BY <1>3, <1>4, <1>5 DEF Good

\* Winning a mission keeps the table Good: the refresh unlocks what it opens.
LEMMA WonIsGood ==
    ASSUME NEW s, Good(s), NEW m \in Missions, CanComplete(s, m)
    PROVE  Good(Won(s, m))
<1> DEFINE t == [s EXCEPT ![m].state = "Completed"]
<1>1. /\ t \in [Missions -> MissionStatus]
      /\ t[m] = [s[m] EXCEPT !.state = "Completed"]
      /\ \A n \in Missions : n # m => t[n] = s[n]
  BY DEF Good, Consistent, MissionStatus, MissionState
<1>2. /\ t[m].state = "Completed" /\ t[m].mask = s[m].mask
      /\ s[m].state = "Active" /\ s[m].mask = Objectives(m)
  BY <1>1 DEF Good, Consistent, MissionStatus, CanComplete
<1>3. Consistent(t)
  BY <1>1, <1>2 DEF Good, Consistent
<1>4. Merit(t)
  BY <1>1, <1>2, PrerequisitesAssumption DEF Good, Merit
<1> QED BY <1>3, <1>4, RefreshIsGood DEF Won

\* snapshot() of a Good table is a GoodSave.
LEMMA SnapshotIsGood ==
    ASSUME NEW s, Good(s)
    PROVE  GoodSave(SnapshotOf(s))
<1> DEFINE x == SnapshotOf(s)
<1>1. /\ DOMAIN x = {n \in Missions : s[n].state \in Recorded}
      /\ \A m \in DOMAIN x : x[m] = s[m]
  BY DEF SnapshotOf
<1>2. IsSnapshot(x)
  BY <1>1 DEF IsSnapshot, SnapshotOf, Good, Consistent
<1>3. ASSUME NEW m \in DOMAIN x, NEW p \in Prerequisites[m]
      PROVE  p \in DOMAIN x /\ x[p].state = "Completed"
  BY <1>1, <1>3, PrerequisitesAssumption DEF Good, Merit, Recorded
<1> QED BY <1>1, <1>2, <1>3 DEF GoodSave, Good, Consistent

\* restore() of a GoodSave gives a Good table.
LEMMA RestoredIsGood ==
    ASSUME NEW x, GoodSave(x)
    PROVE  Good(Restored(x))
<1> DEFINE t == [m \in Missions |-> IF m \in DOMAIN x THEN x[m] ELSE AllLocked[m]]
<1>1. /\ DOMAIN x \subseteq Missions
      /\ \A m \in DOMAIN x : x[m] \in MissionStatus
  BY DEF GoodSave, IsSnapshot
<1>2. \A m \in Missions : AllLocked[m] \in MissionStatus /\ AllLocked[m].state = "Locked"
                          /\ AllLocked[m].mask = {}
  BY DEF AllLocked, MissionStatus, MissionState
<1>3. Consistent(t)
  BY <1>1, <1>2 DEF GoodSave, Consistent, Recorded
<1>4. Merit(t)
  BY <1>1, <1>2, PrerequisitesAssumption DEF GoodSave, Merit
<1> QED BY <1>3, <1>4, RefreshIsGood DEF Restored

-----------------------------------------------------------------------------
\* The campaign starts with the table of finalize() and empty slots.
LEMMA InitIsGood == Init => IInv
  BY FreshIsGood DEF Init, IInv

\* Every call keeps the table Good and the slots restorable.
LEMMA NextIsGood == IInv /\ [Next]_vars => IInv'
<1> SUFFICES ASSUME IInv, [Next]_vars PROVE IInv'
  OBVIOUS
<1> USE DEF IInv
<1>0. \A m \in Missions : status[m] \in MissionStatus
  BY DEF Good, Consistent
<1>1. ASSUME NEW m \in Missions, NEW l \in Loadouts, SetLoadout(m, l) PROVE IInv'
  <2> DEFINE v == [status[m] EXCEPT !.loadout = l]
  <2>1. v \in MissionStatus /\ v.state = status[m].state /\ v.mask = status[m].mask
    BY <1>0 DEF MissionStatus
  <2>2. status[m].state \in {"Available", "Briefing"}
    BY <1>1 DEF SetLoadout, CanSetLoadout
  <2>3. Good([status EXCEPT ![m] = v])
    <3>1. v.mask \subseteq Objectives(m) /\ (v.state = "Available" => v.mask = {})
      BY <2>1 DEF Good, Consistent
    <3> HIDE DEF v
    <3> QED BY <2>1, <2>2, <3>1, LocalChangeIsGood
  <2>4. status' = [status EXCEPT ![m] = v]
    BY <1>1 DEF SetLoadout, WithLoadout
  <2> QED BY <2>3, <2>4, <1>1 DEF SetLoadout
<1>2. ASSUME NEW m \in Missions, EnterBriefing(m) PROVE IInv'
  <2> DEFINE v == [status[m] EXCEPT !.state = "Briefing"]
  <2>1. v \in MissionStatus /\ v.state = "Briefing" /\ v.mask = status[m].mask
    BY <1>0 DEF MissionStatus, MissionState
  <2>2. status[m].state = "Available"
    BY <1>2 DEF EnterBriefing, CanEnterBriefing
  <2>3. Good([status EXCEPT ![m] = v])
    <3>1. v.mask \subseteq Objectives(m)
      BY <2>1 DEF Good, Consistent
    <3> HIDE DEF v
    <3> QED BY <2>1, <2>2, <3>1, LocalChangeIsGood
  <2>4. status' = [status EXCEPT ![m] = v]
    BY <1>2 DEF EnterBriefing, Briefed
  <2> QED BY <2>3, <2>4, <1>2 DEF EnterBriefing
<1>3. ASSUME NEW m \in Missions, Begin(m) PROVE IInv'
  <2> DEFINE v == [status[m] EXCEPT !.state = "Active"]
  <2>1. v \in MissionStatus /\ v.state = "Active" /\ v.mask = status[m].mask
        /\ v.loadout = status[m].loadout
    BY <1>0 DEF MissionStatus, MissionState
  <2>2. status[m].state = "Briefing" /\ status[m].loadout \in Loadouts
    BY <1>3 DEF Begin, CanBegin
  <2>3. Good([status EXCEPT ![m] = v])
    <3>1. v.mask \subseteq Objectives(m)
      BY <2>1 DEF Good, Consistent
    <3> HIDE DEF v
    <3> QED BY <2>1, <2>2, <3>1, LocalChangeIsGood
  <2>4. status' = [status EXCEPT ![m] = v]
    BY <1>3 DEF Begin, Begun
  <2> QED BY <2>3, <2>4, <1>3 DEF Begin
<1>4. ASSUME NEW m \in Missions, NEW i \in 0 .. ObjectiveCount[m],
             CompleteObjective(m, i) PROVE IInv'
  <2> DEFINE v == [status[m] EXCEPT !.mask = status[m].mask \cup {i}]
  <2>1. status[m].state = "Active" /\ i \in Objectives(m)
    BY <1>4 DEF CompleteObjective, CanCompleteObjective
  <2>2. Objectives(m) \subseteq Bits
    BY ObjectiveCountAssumption DEF Objectives, Bits
  <2>3. v \in MissionStatus /\ v.state = "Active" /\ v.loadout = status[m].loadout
        /\ v.mask = status[m].mask \cup {i}
    BY <1>0, <2>1, <2>2 DEF MissionStatus
  <2>4. Good([status EXCEPT ![m] = v])
    <3>1. v.mask \subseteq Objectives(m) /\ v.loadout \in Loadouts
      BY <2>1, <2>3 DEF Good, Consistent
    <3> HIDE DEF v
    <3> QED BY <2>1, <2>3, <3>1, LocalChangeIsGood
  <2>5. status' = [status EXCEPT ![m] = v]
    BY <1>4 DEF CompleteObjective, ObjectiveCompleted
  <2> QED BY <2>4, <2>5, <1>4 DEF CompleteObjective
<1>5. ASSUME NEW m \in Missions, Complete(m) PROVE IInv'
  BY <1>5, WonIsGood DEF Complete
<1>6. ASSUME NEW m \in Missions, Fail(m) PROVE IInv'
  <2> DEFINE v == [status[m] EXCEPT !.state = "Failed"]
  <2>1. v \in MissionStatus /\ v.state = "Failed" /\ v.mask = status[m].mask
    BY <1>0 DEF MissionStatus, MissionState
  <2>2. status[m].state = "Active"
    BY <1>6 DEF Fail, CanFail
  <2>3. Good([status EXCEPT ![m] = v])
    <3>1. v.mask \subseteq Objectives(m)
      BY <2>1 DEF Good, Consistent
    <3> HIDE DEF v
    <3> QED BY <2>1, <2>2, <3>1, LocalChangeIsGood
  <2>4. status' = [status EXCEPT ![m] = v]
    BY <1>6 DEF Fail, Lost
  <2> QED BY <2>3, <2>4, <1>6 DEF Fail
<1>7. ASSUME NEW slot \in Slots, Save(slot) PROVE IInv'
  <2>1. GoodSave(SnapshotOf(status))
    BY SnapshotIsGood
  <2>2. /\ slots' = [slots EXCEPT ![slot] = SnapshotOf(status)]
        /\ status' = status
    BY <1>7 DEF Save
  <2> QED BY <2>1, <2>2
<1>8. ASSUME NEW slot \in Slots, Restore(slot) PROVE IInv'
  BY <1>8, RestoredIsGood DEF Restore
<1>9. CASE UNCHANGED vars
  BY <1>9 DEF vars
<1> QED BY <1>1, <1>2, <1>3, <1>4, <1>5, <1>6, <1>7, <1>8, <1>9 DEF Next

\* The table stays Good and every slot stays a snapshot of a Good table.
THEOREM Invariance == Spec => []IInv
  BY InitIsGood, NextIsGood, PTL DEF Spec

-----------------------------------------------------------------------------
\* Statuses and slots are well formed, whatever the calls.
THEOREM TypeCorrect == Spec => []TypeOK
<1>1. IInv => TypeOK
  BY DEF IInv, Good, Consistent, GoodSave, TypeOK
<1> QED BY <1>1, Invariance, PTL

\* A mission is unlocked on merit only, through any saves and restores.
THEOREM MeritTheorem == Spec => []UnlockedOnMerit
<1>1. IInv => UnlockedOnMerit
  BY DEF IInv, Good, Merit, UnlockedOnMerit
<1> QED BY <1>1, Invariance, PTL

\* A campaign without a lost mission can always go on: among the missions not
\* won, one has no prerequisite that is not won, so it is not Locked.
THEOREM NeverStuckTheorem == Spec => []NeverStuck
<1>1. IInv => NeverStuck
  <2> SUFFICES ASSUME IInv,
                      NEW n \in Missions, status[n].state # "Completed",
                      \A m \in Missions : status[m].state # "Failed"
               PROVE  \E m \in Missions :
                         status[m].state \in {"Available", "Briefing", "Active"}
    BY DEF NeverStuck
  <2> DEFINE S == {m \in Missions : status[m].state # "Completed"}
  <2>1. PICK m \in S : Prerequisites[m] \cap S = {}
    BY PrerequisitesAssumption
  <2>2. \A p \in Prerequisites[m] : status[p].state = "Completed"
    BY <2>1, PrerequisitesAssumption
  <2>3. status[m].state # "Locked"
    BY <2>1, <2>2 DEF IInv, Good, NoUnlockMissed
  <2>4. status[m].state \in MissionState
    BY <2>1 DEF IInv, Good, Consistent, MissionStatus
  <2> QED BY <2>1, <2>3, <2>4 DEF MissionState
<1> QED BY <1>1, Invariance, PTL

\* Every save that was ever made passes the checks of restore().
THEOREM SavesAreRestorableTheorem == Spec => []SavesAreRestorable
<1>1. IInv => SavesAreRestorable
  BY DEF IInv, GoodSave, IsSnapshot, SavesAreRestorable, Restorable
<1> QED BY <1>1, Invariance, PTL

\* restore() derives again exactly the states that snapshot() leaves out.
THEOREM SaveRestoreTheorem == Spec => []SaveRestoreIdentity
<1>1. IInv => SaveRestoreIdentity
  <2> SUFFICES ASSUME IInv PROVE SaveRestoreIdentity
    OBVIOUS
  <2> DEFINE x == SnapshotOf(status)
             t == [m \in Missions |-> IF m \in DOMAIN x THEN x[m] ELSE AllLocked[m]]
             again == Restored(x)
  <2>1. /\ DOMAIN x = {n \in Missions : status[n].state \in Recorded}
        /\ \A m \in DOMAIN x : x[m] = status[m]
    BY DEF SnapshotOf
  <2>2. \A m \in Missions :
           again[m] = IF t[m].state = "Locked" /\ PrerequisitesComplete(t, m)
                      THEN [t[m] EXCEPT !.state = "Available"]
                      ELSE t[m]
    BY DEF Restored, RefreshUnlocks
  <2>3. \A m \in Missions : t[m].state = "Completed" <=> status[m].state = "Completed"
    BY <2>1 DEF AllLocked, Recorded
  <2>4. \A m \in Missions : PrerequisitesComplete(t, m)
                              <=> PrerequisitesComplete(status, m)
    BY <2>3, PrerequisitesAssumption DEF PrerequisitesComplete
  <2>5. ASSUME NEW m \in Missions, status[m].state \in Recorded
        PROVE  again[m] = status[m]
    <3>1. t[m] = status[m] /\ status[m].state # "Locked"
      BY <2>1, <2>5 DEF Recorded
    <3> QED BY <3>1, <2>2
  <2>6. ASSUME NEW m \in Missions, status[m].state \notin Recorded
        PROVE  again[m].state = status[m].state /\ again[m].mask = status[m].mask
    <3>1. t[m] = AllLocked[m]
      BY <2>1, <2>6
    <3>2. status[m].state \in {"Locked", "Available"} /\ status[m].mask = {}
      BY <2>6 DEF IInv, Good, Consistent, MissionStatus, MissionState, Recorded
    <3>3. PrerequisitesComplete(status, m) <=> status[m].state = "Available"
      BY <3>2 DEF IInv, Good, Merit, NoUnlockMissed, PrerequisitesComplete
    <3>4. AllLocked[m].state = "Locked" /\ AllLocked[m].mask = {}
      BY DEF AllLocked
    <3>5. CASE status[m].state = "Available"
      <4>1. again[m] = [AllLocked[m] EXCEPT !.state = "Available"]
        BY <2>2, <2>4, <3>1, <3>3, <3>4, <3>5
      <4> QED BY <4>1, <3>2, <3>5 DEF AllLocked
    <3>6. CASE status[m].state = "Locked"
      <4>1. again[m] = AllLocked[m]
        BY <2>2, <2>4, <3>1, <3>3, <3>6
      <4> QED BY <4>1, <3>2, <3>4, <3>6
    <3> QED BY <3>2, <3>5, <3>6
  <2> QED BY <2>5, <2>6 DEF SaveRestoreIdentity
<1> QED BY <1>1, Invariance, PTL

\* Only a restore takes a result or an objective back.
THEOREM ProgressTheorem == Spec => ProgressOnlyLostByRestore
<1> DEFINE Kept == \A m \in Missions :
              /\ status[m].state \in {"Completed", "Failed"} =>
                    status'[m].state = status[m].state
              /\ status[m].mask \subseteq status'[m].mask
           Step == (\E slot \in Slots : Restore(slot)) \/ Kept
<1>1. IInv /\ [Next]_vars => [Step]_vars
  <2> SUFFICES ASSUME IInv, Next PROVE Step
    OBVIOUS
  <2>0. /\ status \in [Missions -> MissionStatus]
        /\ \A m \in Missions : status[m] \in MissionStatus
    BY DEF IInv, Good, Consistent
  <2>1. ASSUME NEW m \in Missions, NEW l \in Loadouts, SetLoadout(m, l) PROVE Kept
    BY <2>0, <2>1 DEF SetLoadout, WithLoadout, MissionStatus
  <2>2. ASSUME NEW m \in Missions, EnterBriefing(m) PROVE Kept
    BY <2>0, <2>2 DEF EnterBriefing, CanEnterBriefing, Briefed, MissionStatus
  <2>3. ASSUME NEW m \in Missions, Begin(m) PROVE Kept
    BY <2>0, <2>3 DEF Begin, CanBegin, Begun, MissionStatus
  <2>4. ASSUME NEW m \in Missions, NEW i \in 0 .. ObjectiveCount[m],
               CompleteObjective(m, i) PROVE Kept
    BY <2>0, <2>4 DEF CompleteObjective, ObjectiveCompleted, MissionStatus
  <2>5. ASSUME NEW m \in Missions, Complete(m) PROVE Kept
    <3> DEFINE t == [status EXCEPT ![m].state = "Completed"]
    <3>1. \A n \in Missions : /\ t[n].mask = status[n].mask
                              /\ status[n].state \in {"Completed", "Failed"} =>
                                    t[n].state = status[n].state
      BY <2>0, <2>5 DEF Complete, CanComplete, MissionStatus
    <3>2. \A n \in Missions : t[n] \in MissionStatus
      BY <2>0 DEF MissionStatus, MissionState
    <3>3. status' = RefreshUnlocks(t)
      BY <2>5 DEF Complete, Won
    <3>4. \A n \in Missions : /\ status'[n].mask = t[n].mask
                              /\ t[n].state # "Locked" => status'[n].state = t[n].state
      BY <3>2, <3>3 DEF RefreshUnlocks, MissionStatus
    <3> HIDE DEF t
    <3> QED BY <3>1, <3>4
  <2>6. ASSUME NEW m \in Missions, Fail(m) PROVE Kept
    BY <2>0, <2>6 DEF Fail, CanFail, Lost, MissionStatus
  <2>7. ASSUME NEW slot \in Slots, Save(slot) PROVE Kept
    BY <2>0, <2>7 DEF Save
  <2> QED BY <2>1, <2>2, <2>3, <2>4, <2>5, <2>6, <2>7 DEF Next
<1> QED BY <1>1, Invariance, PTL DEF Spec, ProgressOnlyLostByRestore
=============================================================================
