---------------------------- MODULE RelayPageProofs ----------------------------
(***************************************************************************)
(* The relay and the page above it, for every value of their constants.    *)
(* The relay's requests, sessions, document and breaker come first, then   *)
(* the page's statuses and widens, the choice of snapshots, and the page's *)
(* cache of widget sources.                                                *)
(***************************************************************************)
EXTENDS Relay, Page, WidgetSources, TLAPS, FiniteSetTheorems, SequenceTheorems, NaturalsInduction, WellFoundedInduction

(* The current session holds exactly the pending requests, unless a        *)
(* failing pass is answering them.                                         *)
Tracked ==
  /\ busy \in {"idle", "halt"} /\ ~unloaded => atWorker = pending
  /\ pending \subseteq sent
  /\ state = "halted" => pending = {}

(* Where a boot and a failing pass can be, by the relay's state; and a     *)
(* session is disposed, or dead, only when the relay halted or its death   *)
(* is being handled.                                                       *)
Modes ==
  /\ \A s \in Sessions : s > session => phase[s] = "none" /\ s \notin disposed /\ s \notin dead
  /\ state = "halted" => session \in disposed
  /\ session \in disposed => state = "halted" \/ unloaded
  /\ session \in dead => state = "halted" \/ busy = "death"
  /\ state = "serving" => phase[session] = "done"
  /\ busy \in {"death", "restart"} => state = "rebooting"

(* The recorded text is the client's, and a session whose replay was done  *)
(* has it.                                                                 *)
Given ==
  /\ ~doc => clientText = 0 /\ workerText = 0 /\ lastText.n = 0
  /\ ~ranged => lastText.n = clientText
  /\ (phase[session] = "arm" \/ state = "serving") /\ session \notin disposed /\ ~ranged
       => workerText = clientText

Past == \A d \in deaths : d.at <= now

IInv ==
  /\ TypeOK /\ AnsweredOnce /\ Tracked /\ Modes /\ OneLiveSession /\ Given
  /\ Past /\ Breaker /\ NoteOverNoLiveSession

(* The variable tuples only abbreviate UNCHANGED. *)
USE DEF docVars, reqVars, sessVars, optVars, modeVars, worldVars

(* The deaths counted with a new one are sessions and times of the clock   *)
(* (the filter and the append of onDied).                                  *)
LEMMA CountedType ==
  ASSUME TypeOK PROVE Counted \subseteq [session : Sessions, at : 0..MaxTime]
BY DEF TypeOK, Counted, Recent

(* The relay the constructor makes satisfies the inductive invariant. *)
LEMMA InitIInv == Init => IInv
<1> SUFFICES ASSUME Init PROVE IInv
  OBVIOUS
<1>1. TypeOK
  <2>1. lastText \in Text  BY RelayAssumption DEF Init, Text
  <2>2. session \in Sessions /\ phase \in [Sessions -> {"none", "settle", "start", "arm", "done"}]
    BY RelayAssumption DEF Init, Sessions
  <2>3. 0 \in 0..MaxEdits /\ 0 \in 0..MaxTime  BY RelayAssumption
  <2>4. answered \in [Ids -> Nat]  BY DEF Init
  <2> QED BY <2>1, <2>2, <2>3, <2>4, RelayAssumption DEF Init, TypeOK
<1>2. AnsweredOnce /\ Tracked /\ Given  BY DEF Init, AnsweredOnce, Tracked, Given
<1>3. Modes /\ OneLiveSession /\ Past /\ NoteOverNoLiveSession
  BY DEF Init, Modes, OneLiveSession, Past, NoteOverNoLiveSession
<1>4. Breaker  BY RelayAssumption, FS_EmptySet DEF Init, Breaker
<1> QED BY <1>1, <1>2, <1>3, <1>4 DEF IInv

(* Every handler of the relay, and every turn of a handler that calls      *)
(* listeners, preserves the inductive invariant: one step per action, and  *)
(* under it one per conjunct the action can disturb.                       *)
LEMMA NextIInv == IInv /\ [Next]_vars => IInv'
<1> SUFFICES ASSUME IInv, [Next]_vars PROVE IInv'
  OBVIOUS
<1>0. TypeOK /\ AnsweredOnce /\ Tracked /\ Modes /\ OneLiveSession /\ Given /\ Past /\ Breaker
      /\ NoteOverNoLiveSession
  BY DEF IInv
<1>1. CASE Next
  <2>1. ASSUME NEW i \in Ids, ClientRequest(i) PROVE IInv'
    <3>1. TypeOK'  BY <1>0, <2>1 DEF ClientRequest, TypeOK
    <3>2. AnsweredOnce'  BY <1>0, <2>1 DEF ClientRequest, AnsweredOnce, Tracked, TypeOK
    <3>3. Tracked'  BY <1>0, <2>1 DEF ClientRequest, Tracked, Modes
    <3>4. (Modes /\ OneLiveSession /\ Given /\ Past /\ Breaker /\ NoteOverNoLiveSession)'
      BY <1>0, <2>1
      DEF ClientRequest, Modes, OneLiveSession, Given, Past, Breaker, NoteOverNoLiveSession
    <3> QED BY <3>1, <3>2, <3>3, <3>4 DEF IInv
  <2>2. ASSUME NEW h \in Headers, ClientOpen(h) PROVE IInv'
    <3>1. TypeOK'  BY <1>0, <2>2, RelayAssumption DEF ClientOpen, TypeOK, Text
    <3>2. Given'  BY <1>0, <2>2 DEF ClientOpen, Given, Modes, TypeOK, Text
    <3>3. (AnsweredOnce /\ Tracked /\ Modes /\ OneLiveSession /\ Past /\ Breaker /\ NoteOverNoLiveSession)'
      BY <1>0, <2>2
      DEF ClientOpen, AnsweredOnce, Tracked, Modes, OneLiveSession, Past, Breaker, NoteOverNoLiveSession
    <3> QED BY <3>1, <3>2, <3>3 DEF IInv
  <2>3. ASSUME NEW h \in Headers, NEW full \in BOOLEAN, ClientChange(h, full) PROVE IInv'
    <3>1. TypeOK'
      <4>1. lastText' \in Text /\ clientText' \in 0..MaxEdits
        BY <1>0, <2>3, RelayAssumption DEF ClientChange, TypeOK, Text
      <4>2. CASE RearmFor(lastText')
        BY <1>0, <2>3, <4>1, <4>2, RelayAssumption
        DEF ClientChange, RearmFor, ReusableFor, Reboot, TypeOK, Sessions
      <4>3. CASE state # "halted" /\ UNCHANGED <<state, session, phase, deaths, restartOpts>>
        BY <1>0, <2>3, <4>1, <4>3 DEF ClientChange, TypeOK
      <4> QED BY <2>3, <4>2, <4>3 DEF ClientChange
    <3>2. Tracked'
      BY <1>0, <2>3, RelayAssumption
      DEF ClientChange, RearmFor, ReusableFor, Reboot, Tracked, TypeOK, Sessions
    <3>3. (Modes /\ OneLiveSession)'
      BY <1>0, <2>3, RelayAssumption
      DEF ClientChange, RearmFor, ReusableFor, Reboot, Modes, OneLiveSession, TypeOK, Sessions
    <3>4. Given'
      BY <1>0, <2>3, RelayAssumption
      DEF ClientChange, RearmFor, ReusableFor, Reboot, Given, Modes, TypeOK, Sessions, Text
    <3>5. Breaker'
      <4>1. CASE RearmFor(lastText')
        <5>1. Cardinality(deaths') = 0  BY <4>1, FS_EmptySet DEF RearmFor
        <5> QED BY <4>1, <5>1, RelayAssumption DEF RearmFor, Reboot, Breaker
      <4>2. CASE state # "halted" /\ UNCHANGED <<state, session, phase, deaths, restartOpts>>
        BY <1>0, <2>3, <4>2 DEF ClientChange, Breaker
      <4> QED BY <2>3, <4>1, <4>2 DEF ClientChange
    <3>6. (AnsweredOnce /\ Past /\ NoteOverNoLiveSession)'
      BY <1>0, <2>3
      DEF ClientChange, RearmFor, ReusableFor, Reboot, AnsweredOnce, Past, NoteOverNoLiveSession
    <3> QED BY <3>1, <3>2, <3>3, <3>4, <3>5, <3>6 DEF IInv
  <2>4. ASSUME Restart PROVE IInv'
    <3>1. TypeOK'  BY <1>0, <2>4 DEF Restart, TypeOK, Text
    <3>2. Modes'  BY <1>0, <2>4 DEF Restart, Modes, TypeOK, Sessions
    <3>3. (AnsweredOnce /\ Tracked /\ OneLiveSession /\ Given /\ Past /\ Breaker /\ NoteOverNoLiveSession)'
      BY <1>0, <2>4
      DEF Restart, AnsweredOnce, Tracked, OneLiveSession, Given, Past, Breaker, NoteOverNoLiveSession
    <3> QED BY <3>1, <3>2, <3>3 DEF IInv
  <2>5. ASSUME Rearm PROVE IInv'
    <3>1. TypeOK'
      BY <1>0, <2>5, RelayAssumption DEF Rearm, RearmFor, ReusableFor, Reboot, TypeOK, Sessions
    <3>2. Tracked'
      BY <1>0, <2>5, RelayAssumption
      DEF Rearm, RearmFor, ReusableFor, Reboot, Tracked, TypeOK, Sessions
    <3>3. (Modes /\ OneLiveSession)'
      BY <1>0, <2>5, RelayAssumption
      DEF Rearm, RearmFor, ReusableFor, Reboot, Modes, OneLiveSession, TypeOK, Sessions
    <3>4. Given'
      BY <1>0, <2>5, RelayAssumption
      DEF Rearm, RearmFor, ReusableFor, Reboot, Given, Modes, TypeOK, Sessions, Text
    <3>5. Breaker'
      BY <1>0, <2>5, FS_EmptySet, RelayAssumption
      DEF Rearm, RearmFor, ReusableFor, Reboot, Breaker, TypeOK, Sessions
    <3>6. (AnsweredOnce /\ Past /\ NoteOverNoLiveSession)'
      BY <1>0, <2>5
      DEF Rearm, RearmFor, ReusableFor, Reboot, AnsweredOnce, Past, NoteOverNoLiveSession
    <3> QED BY <3>1, <3>2, <3>3, <3>4, <3>5, <3>6 DEF IInv
  <2>6. ASSUME FailOne PROVE IInv'
    <3>1. TypeOK'  BY <1>0, <2>6 DEF FailOne, TypeOK
    <3>2. AnsweredOnce'  BY <1>0, <2>6 DEF FailOne, AnsweredOnce, Tracked, TypeOK
    <3>3. Tracked'  BY <1>0, <2>6 DEF FailOne, Tracked, TypeOK
    <3>4. (Modes /\ OneLiveSession /\ Given /\ Past /\ Breaker /\ NoteOverNoLiveSession)'
      BY <1>0, <2>6
      DEF FailOne, Modes, OneLiveSession, Given, Past, Breaker, NoteOverNoLiveSession
    <3> QED BY <3>1, <3>2, <3>3, <3>4 DEF IInv
  <2>7. ASSUME DeathPauses PROVE IInv'
    <3>1. TypeOK'  BY <1>0, <2>7, RelayAssumption DEF DeathPauses, DisposeSession, TypeOK
    <3>2. Tracked'
      BY <1>0, <2>7, RelayAssumption DEF DeathPauses, DisposeSession, Tracked, TypeOK
    <3>3. (Modes /\ OneLiveSession /\ NoteOverNoLiveSession)'
      BY <1>0, <2>7, RelayAssumption
      DEF DeathPauses, DisposeSession, Modes, OneLiveSession, NoteOverNoLiveSession, TypeOK, Sessions
    <3>4. Given'
      BY <1>0, <2>7, RelayAssumption DEF DeathPauses, DisposeSession, Given, TypeOK, Text
    <3>5. Breaker'
      BY <1>0, <2>7, RelayAssumption DEF DeathPauses, DisposeSession, Breaker, TypeOK
    <3>6. (AnsweredOnce /\ Past)'
      BY <1>0, <2>7, RelayAssumption DEF DeathPauses, DisposeSession, AnsweredOnce, Past
    <3> QED BY <3>1, <3>2, <3>3, <3>4, <3>5, <3>6 DEF IInv
  <2>8. ASSUME DeathHalts PROVE IInv'
    <3>1. TypeOK'
      <4>1. deaths' \subseteq [session : Sessions, at : 0..MaxTime]
        BY <1>0, <2>8, CountedType DEF DeathHalts
      <4>2. /\ DisposeSession /\ UNCHANGED <<session, phase>>
            /\ state' = "halted" /\ busy' = "halt" /\ restartOpts' = FALSE
        BY <2>8 DEF DeathHalts
      <4>3. /\ disposed' \subseteq Sessions /\ ghosts' \subseteq Ids /\ atWorker' = {}
            /\ workerText' \in 0..MaxEdits
        BY <1>0, <4>2, RelayAssumption DEF DisposeSession, TypeOK
      <4>4. UNCHANGED <<docVars, pending, sent, answered, dead, lastDeath, restartHeader, worldVars>>
        BY <4>2 DEF DisposeSession
      <4> QED BY <1>0, <4>1, <4>2, <4>3, <4>4 DEF TypeOK
    <3>2. Tracked'  BY <1>0, <2>8 DEF DeathHalts, DisposeSession, Tracked, TypeOK
    <3>3. (Modes /\ OneLiveSession /\ NoteOverNoLiveSession)'
      BY <1>0, <2>8
      DEF DeathHalts, DisposeSession, Modes, OneLiveSession, NoteOverNoLiveSession, TypeOK, Sessions
    <3>4. Given'  BY <1>0, <2>8 DEF DeathHalts, DisposeSession, Given, TypeOK, Text
    <3>5. Past'  BY <1>0, <2>8 DEF DeathHalts, DisposeSession, Past, Recent, Counted, TypeOK
    <3>6. Breaker'
      <4>1. \A d, e \in Counted : d.at - e.at < BREAKER_WINDOW
        BY <1>0, RelayAssumption DEF Counted, Recent, Past, TypeOK
      <4> QED BY <1>0, <4>1, <2>8 DEF DeathHalts, DisposeSession, Breaker
    <3>7. (AnsweredOnce)'
      BY <1>0, <2>8 DEF DeathHalts, DisposeSession, AnsweredOnce
    <3> QED BY <3>1, <3>2, <3>3, <3>4, <3>5, <3>6, <3>7 DEF IInv
  <2>9. ASSUME DeathReboots PROVE IInv'
    <3>1. TypeOK'
      BY <1>0, <2>9, RelayAssumption, CountedType
      DEF DeathReboots, DisposeSession, ReusableFor, Reboot, TypeOK, Sessions
    <3>2. Tracked'
      BY <1>0, <2>9, RelayAssumption
      DEF DeathReboots, DisposeSession, ReusableFor, Reboot, Tracked, TypeOK, Sessions
    <3>3. (Modes /\ OneLiveSession /\ NoteOverNoLiveSession)'
      BY <1>0, <2>9, RelayAssumption
      DEF DeathReboots, DisposeSession, ReusableFor, Reboot, Modes, OneLiveSession, NoteOverNoLiveSession, TypeOK, Sessions
    <3>4. Given'
      BY <1>0, <2>9, RelayAssumption
      DEF DeathReboots, DisposeSession, ReusableFor, Reboot, Given, Modes, TypeOK, Sessions, Text
    <3>5. Past'
      BY <1>0, <2>9, RelayAssumption
      DEF DeathReboots, DisposeSession, ReusableFor, Reboot, Past, Recent, Counted, TypeOK, Sessions
    <3>6. Breaker'
      BY <1>0, <2>9, RelayAssumption
      DEF DeathReboots, DisposeSession, ReusableFor, Reboot, Breaker, TypeOK, Sessions
    <3>7. (AnsweredOnce)'
      BY <1>0, <2>9 DEF DeathReboots, DisposeSession, ReusableFor, Reboot, AnsweredOnce
    <3> QED BY <3>1, <3>2, <3>3, <3>4, <3>5, <3>6, <3>7 DEF IInv
  <2>10. ASSUME FinishRestart PROVE IInv'
    <3>1. TypeOK'
      BY <1>0, <2>10, RelayAssumption DEF FinishRestart, DisposeSession, Reboot, TypeOK, Sessions
    <3>2. Tracked'
      BY <1>0, <2>10, RelayAssumption
      DEF FinishRestart, DisposeSession, Reboot, Tracked, TypeOK, Sessions
    <3>3. (Modes /\ OneLiveSession /\ NoteOverNoLiveSession)'
      BY <1>0, <2>10, RelayAssumption
      DEF FinishRestart, DisposeSession, Reboot, Modes, OneLiveSession, NoteOverNoLiveSession, TypeOK, Sessions
    <3>4. Given'
      BY <1>0, <2>10, RelayAssumption
      DEF FinishRestart, DisposeSession, Reboot, Given, Modes, TypeOK, Sessions, Text
    <3>5. Breaker'
      BY <1>0, <2>10, RelayAssumption
      DEF FinishRestart, DisposeSession, Reboot, Breaker, Modes, TypeOK, Sessions
    <3>6. (AnsweredOnce /\ Past)'
      BY <1>0, <2>10 DEF FinishRestart, DisposeSession, Reboot, AnsweredOnce, Past
    <3> QED BY <3>1, <3>2, <3>3, <3>4, <3>5, <3>6 DEF IInv
  <2>11. ASSUME HaltedNote PROVE IInv'
    <3>1. TypeOK'  BY <1>0, <2>11 DEF HaltedNote, TypeOK
    <3>2. Modes'  BY <1>0, <2>11 DEF HaltedNote, Modes, TypeOK, Sessions
    <3>3. NoteOverNoLiveSession'
      BY <1>0, <2>11 DEF HaltedNote, NoteOverNoLiveSession, Modes, TypeOK
    <3>4. (AnsweredOnce /\ Tracked /\ OneLiveSession /\ Given /\ Past /\ Breaker)'
      BY <1>0, <2>11 DEF HaltedNote, AnsweredOnce, Tracked, OneLiveSession, Given, Past, Breaker
    <3> QED BY <3>1, <3>2, <3>3, <3>4 DEF IInv
  <2>12. ASSUME NEW s \in Sessions, busy = "idle", SettleDone(s) PROVE IInv'
    <3>1. TypeOK'  BY <1>0, <2>12 DEF SettleDone, BootMoves, TypeOK
    <3>2. Modes'  BY <1>0, <2>12 DEF SettleDone, BootMoves, Modes, TypeOK, Sessions
    <3>3. Given'  BY <1>0, <2>12 DEF SettleDone, BootMoves, Given, Modes, TypeOK, Text
    <3>4. (AnsweredOnce /\ Tracked /\ OneLiveSession /\ Past /\ Breaker /\ NoteOverNoLiveSession)'
      BY <1>0, <2>12
      DEF SettleDone, BootMoves, AnsweredOnce, Tracked, OneLiveSession, Past, Breaker, NoteOverNoLiveSession
    <3> QED BY <3>1, <3>2, <3>3, <3>4 DEF IInv
  <2>13. ASSUME NEW s \in Sessions, busy = "idle", StartResolves(s) PROVE IInv'
    <3>1. TypeOK'  BY <1>0, <2>13 DEF StartResolves, BootMoves, TypeOK, Text
    <3>2. Modes'  BY <1>0, <2>13 DEF StartResolves, BootMoves, Modes, TypeOK, Sessions
    <3>3. Given'  BY <1>0, <2>13 DEF StartResolves, BootMoves, Given, Modes, TypeOK, Text
    <3>4. (AnsweredOnce /\ Tracked /\ OneLiveSession /\ Past /\ Breaker /\ NoteOverNoLiveSession)'
      BY <1>0, <2>13
      DEF StartResolves, BootMoves, AnsweredOnce, Tracked, OneLiveSession, Past, Breaker, NoteOverNoLiveSession
    <3> QED BY <3>1, <3>2, <3>3, <3>4 DEF IInv
  <2>14. ASSUME NEW s \in Sessions, NEW cause \in Causes, busy = "idle", BootRejects(s, cause) PROVE IInv'
    <3>1. TypeOK'  BY <1>0, <2>14 DEF BootRejects, BootMoves, OnDied, TypeOK, Causes
    <3>2. Tracked'  BY <1>0, <2>14 DEF BootRejects, BootMoves, OnDied, Tracked, TypeOK
    <3>3. Modes'  BY <1>0, <2>14 DEF BootRejects, BootMoves, OnDied, Modes, TypeOK, Sessions
    <3>4. Given'  BY <1>0, <2>14 DEF BootRejects, BootMoves, OnDied, Given, Modes, TypeOK, Text
    <3>5. Breaker'  BY <1>0, <2>14 DEF BootRejects, BootMoves, OnDied, Breaker, TypeOK
    <3>6. (AnsweredOnce /\ OneLiveSession /\ Past /\ NoteOverNoLiveSession)'
      BY <1>0, <2>14
      DEF BootRejects, BootMoves, OnDied, AnsweredOnce, OneLiveSession, Past, NoteOverNoLiveSession
    <3> QED BY <3>1, <3>2, <3>3, <3>4, <3>5, <3>6 DEF IInv
  <2>15. ASSUME NEW s \in Sessions, busy = "idle", ArmResolves(s) PROVE IInv'
    <3>1. TypeOK'  BY <1>0, <2>15 DEF ArmResolves, BootMoves, TypeOK
    <3>2. Tracked'  BY <1>0, <2>15 DEF ArmResolves, BootMoves, Tracked, TypeOK
    <3>3. Modes'  BY <1>0, <2>15 DEF ArmResolves, BootMoves, Modes, TypeOK, Sessions
    <3>4. Given'  BY <1>0, <2>15 DEF ArmResolves, BootMoves, Given, Modes, TypeOK, Text
    <3>5. Breaker'  BY <1>0, <2>15 DEF ArmResolves, BootMoves, Breaker, Modes, TypeOK
    <3>6. (AnsweredOnce /\ OneLiveSession /\ Past /\ NoteOverNoLiveSession)'
      BY <1>0, <2>15
      DEF ArmResolves, BootMoves, AnsweredOnce, OneLiveSession, Past, NoteOverNoLiveSession
    <3> QED BY <3>1, <3>2, <3>3, <3>4, <3>5, <3>6 DEF IInv
  <2>16. ASSUME NEW s \in Sessions, NEW cause \in Causes, busy = "idle", SessionDies(s, cause) PROVE IInv'
    <3>1. TypeOK'  BY <1>0, <2>16 DEF SessionDies, OnDied, TypeOK, Causes
    <3>2. Tracked'  BY <1>0, <2>16 DEF SessionDies, OnDied, Tracked, TypeOK
    <3>3. Modes'  BY <1>0, <2>16 DEF SessionDies, OnDied, Modes, TypeOK, Sessions
    <3>4. Given'  BY <1>0, <2>16 DEF SessionDies, OnDied, Given, TypeOK, Text
    <3>5. Breaker'  BY <1>0, <2>16 DEF SessionDies, OnDied, Breaker, TypeOK
    <3>6. (AnsweredOnce /\ OneLiveSession /\ Past /\ NoteOverNoLiveSession)'
      BY <1>0, <2>16
      DEF SessionDies, OnDied, AnsweredOnce, OneLiveSession, Past, NoteOverNoLiveSession
    <3> QED BY <3>1, <3>2, <3>3, <3>4, <3>5, <3>6 DEF IInv
  <2>17. ASSUME NEW i \in Ids, busy = "idle", ~unloaded, SessionReplies(i) PROVE IInv'
    <3>1. TypeOK'  BY <1>0, <2>17 DEF SessionReplies, TypeOK
    <3>2. (AnsweredOnce /\ Tracked)'
      BY <1>0, <2>17 DEF SessionReplies, AnsweredOnce, Tracked, TypeOK
    <3>3. (Modes /\ OneLiveSession /\ Given /\ Past /\ Breaker /\ NoteOverNoLiveSession)'
      BY <1>0, <2>17
      DEF SessionReplies, Modes, OneLiveSession, Given, Past, Breaker, NoteOverNoLiveSession
    <3> QED BY <3>1, <3>2, <3>3 DEF IInv
  <2>18. ASSUME NEW i \in Ids, busy = "idle", GhostReplies(i) PROVE IInv'
    <3>1. TypeOK'  BY <1>0, <2>18 DEF GhostReplies, TypeOK
    <3>2. (AnsweredOnce /\ Tracked /\ Modes /\ OneLiveSession /\ Given /\ Past /\ Breaker /\ NoteOverNoLiveSession)'
      BY <1>0, <2>18
      DEF GhostReplies, AnsweredOnce, Tracked, Modes, OneLiveSession, Given, Past, Breaker, NoteOverNoLiveSession
    <3> QED BY <3>1, <3>2 DEF IInv
  <2>19. ASSUME busy = "idle", SessionReady PROVE IInv'
    <3>1. TypeOK'  BY <1>0, <2>19 DEF SessionReady, TypeOK
    <3>2. Modes'  BY <1>0, <2>19 DEF SessionReady, Modes, TypeOK, Sessions
    <3>3. Breaker'  BY <1>0, <2>19 DEF SessionReady, Breaker, Modes, TypeOK
    <3>4. (AnsweredOnce /\ Tracked /\ OneLiveSession /\ Given /\ Past /\ NoteOverNoLiveSession)'
      BY <1>0, <2>19
      DEF SessionReady, AnsweredOnce, Tracked, OneLiveSession, Given, Past, NoteOverNoLiveSession
    <3> QED BY <3>1, <3>2, <3>3, <3>4 DEF IInv
  <2>20. ASSUME busy = "idle", Unload PROVE IInv'
    <3>1. TypeOK'  BY <1>0, <2>20, RelayAssumption DEF Unload, TypeOK
    <3>2. (Modes /\ OneLiveSession /\ NoteOverNoLiveSession)'
      BY <1>0, <2>20 DEF Unload, Modes, OneLiveSession, NoteOverNoLiveSession, TypeOK, Sessions
    <3>3. Given'  BY <1>0, <2>20 DEF Unload, Given, TypeOK, Text
    <3>4. (AnsweredOnce /\ Tracked /\ Past /\ Breaker)'
      BY <1>0, <2>20 DEF Unload, AnsweredOnce, Tracked, Past, Breaker
    <3> QED BY <3>1, <3>2, <3>3, <3>4 DEF IInv
  <2>21. ASSUME busy = "idle", Tick PROVE IInv'
    <3>1. TypeOK'  BY <1>0, <2>21, RelayAssumption DEF Tick, TypeOK
    <3>2. Past'  BY <1>0, <2>21 DEF Tick, Past, TypeOK
    <3>3. (AnsweredOnce /\ Tracked /\ Modes /\ OneLiveSession /\ Given /\ Breaker /\ NoteOverNoLiveSession)'
      BY <1>0, <2>21
      DEF Tick, AnsweredOnce, Tracked, Modes, OneLiveSession, Given, Breaker, NoteOverNoLiveSession
    <3> QED BY <3>1, <3>2, <3>3 DEF IInv
  <2> QED
    BY <1>1, <2>1, <2>2, <2>3, <2>4, <2>5, <2>6, <2>7, <2>8, <2>9, <2>10, <2>11, <2>12, <2>13, <2>14,
       <2>15, <2>16, <2>17, <2>18, <2>19, <2>20, <2>21
    DEF Next, Call, Resume, Event, BootStep
<1>2. CASE UNCHANGED vars
  BY <1>0, <1>2 
  DEF vars, IInv, TypeOK, AnsweredOnce, Tracked, Modes, OneLiveSession, Given, Past, Breaker,
      NoteOverNoLiveSession
<1> QED BY <1>1, <1>2

(* The inductive invariant holds throughout. *)
THEOREM RelayInvariant == Spec => []IInv
  BY InitIInv, NextIInv, PTL DEF Spec

(* The relay's state keeps its types, whatever the bounds. *)
THEOREM RelayTypeOK == Spec => []TypeOK
<1>1. IInv => TypeOK  BY DEF IInv
<1> QED BY <1>1, RelayInvariant, PTL

(* No request is lost and none is answered twice, for any number of        *)
(* requests, sessions and deaths (pending, failInFlight, onLsp's filter).  *)
THEOREM RelayAnsweredOnce == Spec => []AnsweredOnce
<1>1. IInv => AnsweredOnce  BY DEF IInv
<1> QED BY <1>1, RelayInvariant, PTL

(* Outside a failing pass no request waits on a session that cannot        *)
(* answer.                                                                 *)
THEOREM RelayNoOrphans == Spec => []NoOrphans
<1>1. IInv => NoOrphans  BY DEF IInv, Tracked, Modes, NoOrphans
<1> QED BY <1>1, RelayInvariant, PTL

(* Whatever replaces a session has disposed it: no runtime is left behind. *)
THEOREM RelayOneLiveSession == Spec => []OneLiveSession
<1>1. IInv => OneLiveSession  BY DEF IInv
<1> QED BY <1>1, RelayInvariant, PTL

(* A serving relay's session lives and has the client's current document,  *)
(* if the client sends full texts only (record, replay, arm).              *)
THEOREM RelayServesTheDocument == Spec => []ServesTheDocument
<1>1. IInv => ServesTheDocument  BY DEF IInv, Modes, Given, ServesTheDocument
<1> QED BY <1>1, RelayInvariant, PTL

(* The breaker trips at exactly BREAKER_DEATHS deaths within the window,   *)
(* for every value of both.                                                *)
THEOREM RelayBreaker == Spec => []Breaker
<1>1. IInv => Breaker  BY DEF IInv
<1> QED BY <1>1, RelayInvariant, PTL

(* The halted note is published only when the current session is disposed. *)
THEOREM RelayNote == Spec => []NoteOverNoLiveSession
<1>1. IInv => NoteOverNoLiveSession  BY DEF IInv
<1> QED BY <1>1, RelayInvariant, PTL

(* A halted relay's session is disposed, so the arm() its boot may still   *)
(* await never resolves.                                                   *)
LEMMA ArmNeedsALiveSession ==
  ASSUME IInv, NEW s \in Sessions, ~unloaded, ArmResolves(s), state = "halted"
  PROVE  state' = "halted"
BY DEF ArmResolves, IInv, Modes

(* Only a re-arm, which makes a new session and forgets the deaths, ends a *)
(* halt.                                                                   *)
THEOREM RelayHaltEndsByRearm == Spec => HaltEndsByRearm
<1> DEFINE Halt == state = "halted" /\ state' # "halted" => session' = session + 1 /\ deaths' = {}
<1>1. ASSUME IInv, [Next]_vars PROVE [Halt]_vars
  <2> SUFFICES ASSUME Next, state = "halted", state' # "halted"
               PROVE  session' = session + 1 /\ deaths' = {}
    BY <1>1
  <2>1. busy \notin {"death", "restart"}  BY <1>1 DEF IInv, Modes
  <2>2. ASSUME NEW h \in Headers, NEW full \in BOOLEAN, ClientChange(h, full)
        PROVE  session' = session + 1 /\ deaths' = {}
    BY <2>2 DEF ClientChange, RearmFor, Reboot
  <2>3. CASE Rearm  BY <2>3 DEF Rearm, RearmFor, Reboot
  <2>4. ~Resume
    BY <2>1 DEF Resume, FailOne, DeathPauses, DeathHalts, DeathReboots, FinishRestart, HaltedNote
  <2>5. ~Event
    BY <1>1, ArmNeedsALiveSession
    DEF Event, BootStep, SettleDone, StartResolves, BootRejects, BootMoves, OnDied, SessionDies,
        SessionReplies, GhostReplies, SessionReady, Unload, Tick, modeVars, Next
  <2>6. ~(\E i \in Ids : ClientRequest(i)) /\ ~(\E h \in Headers : ClientOpen(h)) /\ ~Restart
    BY DEF ClientRequest, ClientOpen, Restart, modeVars
  <2> QED BY <2>2, <2>3, <2>4, <2>5, <2>6 DEF Next, Call
<1> QED BY <1>1, RelayInvariant, PTL DEF Spec, HaltEndsByRearm

-----------------------------------------------------------------------------
(* The page over the relay (Page.tla), for every index of snapshots, every  *)
(* document, every bound and whatever the embedder's listeners do.          *)
(* Types. *)
AllNames == Base \cup Names(Index)
Modules == UNION Imports
RelayStates ==
    [session : Nat, mode : {"rebooting", "serving", "halted"},
     phase : {"booting", "starting", "elaborating", "ready", "headerRefused", "halted"},
     version : Nat, header : Imports, checked : Nat, missing : SUBSET Modules, loaded : SUBSET AllNames,
     kept : SUBSET AllNames, keptFor : Imports \cup {{}}, died : Nat, stack : BOOLEAN]
PageStates ==
    [card : BOOLEAN, boot : {"going", "done", "failed"}, fallback : BOOLEAN, progress : BOOLEAN,
     last : Nat, death : Nat, seen : SUBSET (Nat \X Nat)]
CallStates == [st : {"new", "waiting", "resolved", "rejected"}, want : Nat, after : Nat]
Stages == {"widen", "card", "top", "handle", "status", "final", "ready", "over"}
Events == {"none", "card", "fileProgress", "liveness", "death", "status", "boot", "ready"}
Turns == [at : Stages, s : RelayStates, by : Events]

PageTypeOK ==
    /\ relay \in RelayStates /\ page \in PageStates
    /\ calls \in [Calls -> CallStates]
    /\ due \subseteq Calls
    /\ turn \in Turns \cup {Idle}

-----------------------------------------------------------------------------
(* A session that was widened to serves all of its header that any entry    *)
(* claims, its options are the remembered ones, and what it can refuse is   *)
(* its header's.                                                            *)
Widened(r) ==
    /\ r.keptFor = r.header /\ r.kept = r.loaded /\ r.loaded # Default
    /\ Beyond(Index, r.header) \cap Claimed(Index) \subseteq RootsOf(Index, r.loaded)
    /\ r.missing \subseteq r.header

WidenedOnce == widens \in {0, 1} /\ (widens = 1 => Widened(relay))

(* How a status passes: it is its session's own until a listener replaces   *)
(* the session, and which events can have done so by then.                  *)
Reasons(stage) ==
    CASE stage \in {"widen", "card"} -> {"none"}
      [] stage = "top"               -> {"none", "card"}
      [] stage = "handle"            -> {"none", "fileProgress"}
      [] stage = "status"            -> {"none", "fileProgress", "death", "liveness"}
      [] stage = "final"             -> {"none", "fileProgress", "death", "liveness", "status"}
      [] stage = "ready"             -> {"none", "boot"}
      [] OTHER                       -> Events
Passing ==
    turn # Idle =>
      /\ IF turn.by = "none" THEN turn.s.session = relay.session ELSE turn.s.session < relay.session
      /\ turn.by \in Reasons(turn.at)
      /\ turn.at = "widen" => turn.s = relay

(* The page has heard of no session to come.                                *)
Told == page.last <= relay.session

(* The inductive invariant.                                                 *)
PageIInv == PageTypeOK /\ WidenedOnce /\ Passing /\ Told

-----------------------------------------------------------------------------
(* The choices are of the index's entries.                                  *)
LEMMA ChoiceIsNamed == \A m : chooseSnapshots(Index, m) \in SUBSET AllNames
BY DEF chooseSnapshots, AllNames, Names, ToSet

(* A widen's target serves all of the header that any entry claims; and a   *)
(* session that does is never widened for a part of it.                     *)
LEMMA TargetServes ==
    ASSUME NEW missing, NEW loaded, NEW header, widenTarget(Index, missing, loaded, header) # <<>>
    PROVE  LET e == widenTarget(Index, missing, loaded, header)[1]
           IN  /\ e.name \in Names(Index)
               /\ Beyond(Index, header) \cap Claimed(Index) \subseteq RootsOf(Index, Base \cup {e.name})
<1> DEFINE rivals == {k \in DOMAIN Index : /\ Index[k].name \notin loaded
                                           /\ Required(Index, missing, header) \subseteq Index[k].roots}
           best == {k \in rivals : \A j \in rivals \ {k} : Smaller(Index, k, j)}
<1>1. best # {} /\ widenTarget(Index, missing, loaded, header) = <<Index[CHOOSE k \in best : TRUE]>>
  BY DEF widenTarget
<1>2. PICK k \in best : k = (CHOOSE j \in best : TRUE)
  BY <1>1
<1>3. widenTarget(Index, missing, loaded, header)[1] = Index[k]
  BY <1>1, <1>2
<1>4. k \in DOMAIN Index /\ Required(Index, missing, header) \subseteq Index[k].roots
  OBVIOUS
<1>5. Index[k] \in ToSet(Index)
  BY <1>4 DEF ToSet
<1>6. Index[k].name \in Names(Index) /\ Index[k].roots \subseteq RootsOf(Index, Base \cup {Index[k].name})
  BY <1>5 DEF Names, RootsOf, Named
<1> QED BY <1>3, <1>4, <1>6 DEF Required

(* A session whose environments serve all of its header that any entry      *)
(* claims has no entry to widen to, whatever of the header was refused.     *)
LEMMA ServedIsEnough ==
    ASSUME NEW missing, NEW loaded, NEW header, missing \subseteq header,
           Beyond(Index, header) \cap Claimed(Index) \subseteq RootsOf(Index, loaded)
    PROVE  widenTarget(Index, missing, loaded, header) = <<>>
<1> SUFFICES ASSUME widenTarget(Index, missing, loaded, header) # <<>> PROVE FALSE
  OBVIOUS
<1> DEFINE rivals == {k \in DOMAIN Index : /\ Index[k].name \notin loaded
                                           /\ Required(Index, missing, header) \subseteq Index[k].roots}
<1>1. ~(missing \subseteq InitModules \cup RootsOf(Index, Base \cup loaded)) /\ rivals # {}
  BY DEF widenTarget
<1>2. PICK m \in missing : m \notin InitModules /\ m \notin RootsOf(Index, Base \cup loaded)
  BY <1>1
<1>3. PICK k \in DOMAIN Index : Required(Index, missing, header) \subseteq Index[k].roots
  BY <1>1
<1>4. m \in Claimed(Index)
  <2>1. m \in Index[k].roots /\ Index[k] \in ToSet(Index)
    BY <1>3 DEF Required, ToSet
  <2> QED BY <2>1 DEF Claimed, RootsOf, Named, Names
<1>5. RootsOf(Index, Base) \subseteq RootsOf(Index, Base \cup loaded) /\ RootsOf(Index, loaded) \subseteq RootsOf(Index, Base \cup loaded)
  BY DEF RootsOf, Named
<1>6. m \in Beyond(Index, header)
  BY <1>2, <1>5 DEF Beyond
<1> QED BY <1>2, <1>4, <1>5, <1>6

-----------------------------------------------------------------------------
(* A replacement is the next session of the same document.                  *)
Replaces(r, n) ==
    /\ n \in RelayStates /\ n.session = r.session + 1 /\ n.mode = "rebooting"
    /\ n.header = r.header /\ n.version = r.version /\ n.missing = {}

(* A new session loads what it was asked to, or what the header chooses.     *)
LEMMA NewSessionIs ==
    ASSUME NEW r \in RelayStates, NEW opts \in SUBSET AllNames
    PROVE  LET n == NewSession(r, opts)
           IN  /\ Replaces(r, n) /\ n.kept = r.kept /\ n.keptFor = r.keptFor
               /\ opts # Default => n.loaded = opts
<1>1. PICK l \in SUBSET AllNames : l = IF opts = Default THEN chooseSnapshots(Index, r.header) ELSE opts
  BY ChoiceIsNamed
<1> DEFINE n == [r EXCEPT !.session = @ + 1, !.mode = "rebooting", !.phase = "booting", !.checked = 0,
                          !.missing = {}, !.loaded = l]
<1>2. NewSession(r, opts) = n
  BY <1>1 DEF NewSession
<1>3. /\ n \in RelayStates /\ n.session = r.session + 1 /\ n.mode = "rebooting"
      /\ n.header = r.header /\ n.version = r.version /\ n.missing = {} /\ n.kept = r.kept /\ n.keptFor = r.keptFor
      /\ n.loaded = l
  <2>1. r.session \in Nat /\ r.session + 1 \in Nat
    BY DEF RelayStates
  <2>2. n \in RelayStates
    BY <2>1 DEF RelayStates
  <2>3. DOMAIN r = {"session", "mode", "phase", "version", "header", "checked", "missing", "loaded", "kept", "keptFor", "died", "stack"}
    BY DEF RelayStates
  <2> QED BY <2>2, <2>3
<1> QED BY <1>1, <1>2, <1>3 DEF Replaces

(* A restart under options that serve the header leaves a widened session.  *)
LEMMA RestartedIs ==
    ASSUME NEW r \in RelayStates, NEW opts \in SUBSET AllNames
    PROVE  /\ Replaces(r, Restarted(r, opts))
           /\ opts # Default /\ Beyond(Index, r.header) \cap Claimed(Index) \subseteq RootsOf(Index, opts)
                => Widened(Restarted(r, opts))
<1> DEFINE k == [r EXCEPT !.kept = opts, !.keptFor = r.header]
<1>1. /\ k \in RelayStates /\ k.session = r.session /\ k.header = r.header /\ k.version = r.version
      /\ k.kept = opts /\ k.keptFor = r.header
  BY DEF RelayStates
<1>2. Restarted(r, opts) = NewSession(k, opts)
  BY DEF Restarted
<1> HIDE DEF k
<1> QED BY <1>1, <1>2, NewSessionIs DEF Replaces, Widened

(* A reboot keeps a widened session one: its options are remembered.        *)
LEMMA RebootedIs ==
    ASSUME NEW r \in RelayStates
    PROVE  Replaces(r, Rebooted(r)) /\ (Widened(r) => Widened(Rebooted(r)))
<1>1. Reusable(r) \in SUBSET AllNames
  BY DEF Reusable, Default, RelayStates
<1> DEFINE k == [r EXCEPT !.kept = Reusable(r)]
<1>2. /\ k \in RelayStates /\ k.session = r.session /\ k.header = r.header /\ k.version = r.version
      /\ k.kept = Reusable(r) /\ k.keptFor = r.keptFor
  BY <1>1 DEF RelayStates
<1>3. Rebooted(r) = NewSession(k, Reusable(r))
  BY DEF Rebooted
<1> HIDE DEF k
<1>4. Replaces(r, Rebooted(r)) /\ Rebooted(r).kept = Reusable(r) /\ Rebooted(r).keptFor = r.keptFor
      /\ (Reusable(r) # Default => Rebooted(r).loaded = Reusable(r))
  BY <1>1, <1>2, <1>3, NewSessionIs DEF Replaces
<1>5. Widened(r) => Reusable(r) = r.loaded /\ Reusable(r) = r.kept /\ r.loaded # Default
  BY DEF Widened, Reusable
<1> QED BY <1>4, <1>5 DEF Widened, Replaces

(* What the embedder's restart leaves; one that asks for nothing leaves a   *)
(* widened session's environments.                                          *)
LEMMA ApiRestartIs ==
    ASSUME NEW r \in RelayStates, NEW asked \in Asked, NEW n \in ApiRestart(r, asked)
    PROVE  Replaces(r, n) /\ (asked = Default /\ Widened(r) => Widened(n))
<1>1. CASE r.mode = "halted" /\ asked = Default /\ n = Rebooted(r)
  BY <1>1, RebootedIs
<1>2. CASE r.mode = "serving"
  <2> DEFINE opts == IF asked # Default THEN asked ELSE IF Reusable(r) # Default THEN Reusable(r) ELSE r.loaded
  <2>1. n = Restarted(r, opts)
    BY <1>2 DEF ApiRestart
  <2>2. opts \in SUBSET AllNames
    BY DEF Asked, AllNames, Reusable, Default, RelayStates
  <2>3. asked = Default /\ Widened(r) =>
          opts # Default /\ Beyond(Index, r.header) \cap Claimed(Index) \subseteq RootsOf(Index, opts)
    BY DEF Widened, Reusable
  <2> HIDE DEF opts
  <2> QED BY <2>1, <2>2, <2>3, RestartedIs
<1> QED BY <1>1, <1>2 DEF ApiRestart

(* The pass of a rebooting status.                                          *)
LEMMA HearsIs ==
    ASSUME NEW p \in PageStates, NEW r \in RelayStates, NEW byUser \in BOOLEAN
    PROVE  /\ Hears(p, r, byUser) \in PageStates
           /\ Hears(p, r, byUser).last = r.session /\ Hears(p, r, byUser).seen \subseteq p.seen
<1> DEFINE verdict == r.phase \in Settled
           f == p.fallback /\ ~byUser /\ ~verdict
           c == p.card /\ ~verdict
           b == IF verdict /\ (p.card \/ p.boot = "done") THEN "done" ELSE "going"
           s == IF p.last = r.session THEN p.seen ELSE {}
<1>1. f \in BOOLEAN /\ c \in BOOLEAN /\ b \in {"going", "done"} /\ s \in SUBSET (Nat \X Nat) /\ s \subseteq p.seen
  BY DEF PageStates
<1>2. Hears(p, r, byUser) = [p EXCEPT !.fallback = f, !.card = c, !.boot = b,
                                      !.progress = FALSE, !.last = r.session, !.death = r.died, !.seen = s]
  BY DEF Hears
<1> HIDE DEF f, c, b, s
<1> DEFINE h == [p EXCEPT !.fallback = f, !.card = c, !.boot = b,
                          !.progress = FALSE, !.last = r.session, !.death = r.died, !.seen = s]
<1>3. h \in PageStates /\ h.last = r.session /\ h.seen = s
  BY <1>1 DEF PageStates, RelayStates
<1> QED BY <1>1, <1>2, <1>3

-----------------------------------------------------------------------------
(* What a step leaves of what the page has told, but where it says          *)
(* something itself.                                                        *)
PageKeeps(p) == p.last >= page.last /\ p.seen \subseteq page.seen

(* The first status of a session is not of this page's past.                *)
LEMMA PageInitIInv == PageInit => PageIInv
<1> SUFFICES ASSUME PageInit PROVE PageIInv
  OBVIOUS
<1>1. PICK h \in Imports :
        relay = [session |-> 1, mode |-> "rebooting", phase |-> "booting", version |-> 1,
                 header |-> h, checked |-> 0, missing |-> {}, loaded |-> chooseSnapshots(Index, h),
                 kept |-> Default, keptFor |-> {}, died |-> 0, stack |-> FALSE]
  BY DEF PageInit
<1>2. relay \in RelayStates
  BY <1>1, ChoiceIsNamed DEF RelayStates, Default
<1>3. PageTypeOK
  BY <1>2 DEF PageInit, PageTypeOK, PageStates, CallStates
<1>4. relay.session = 1
  BY <1>1
<1> QED BY <1>3, <1>4 DEF PageInit, PageIInv, WidenedOnce, Passing, Told

(* A task that publishes a status of this session or of the next one.       *)
LEMMA PublishesIInv ==
    ASSUME PageIInv, turn = Idle, NEW r \in RelayStates, r.session >= relay.session, Publishes(r),
           widens' \in {0, widens}, widens' = 1 /\ Widened(relay) => Widened(r)
    PROVE  PageIInv' /\ PageKeeps(page')
<1>1. relay' = r /\ calls' = calls
  BY DEF Publishes
<1>2. WidenedOnce'
  BY <1>1 DEF PageIInv, WidenedOnce
<1>3. relay.session \in Nat /\ r.session \in Nat /\ page.last \in Nat /\ page.last <= relay.session
  BY DEF PageIInv, PageTypeOK, RelayStates, PageStates, Told
<1>4. CASE r.mode = "rebooting"
  <2>1. page' = Hears(page, r, FALSE) /\ due' = Waiting /\ turn' = Idle
    BY <1>4 DEF Publishes
  <2>2. page' \in PageStates /\ page'.last = r.session /\ page'.seen \subseteq page.seen
    BY <2>1, HearsIs DEF PageIInv, PageTypeOK
  <2>3. PageTypeOK'
    BY <1>1, <2>1, <2>2 DEF PageIInv, PageTypeOK, Waiting
  <2>4. Passing'
    BY <2>1 DEF Passing
  <2>5. Told' /\ PageKeeps(page')
    BY <1>1, <1>3, <2>2 DEF Told, PageKeeps
  <2> QED BY <1>2, <2>3, <2>4, <2>5 DEF PageIInv
<1>5. CASE r.mode # "rebooting"
  <2>1. turn' = [at |-> "widen", s |-> r, by |-> "none"] /\ page' = page /\ due' = due
    BY <1>5 DEF Publishes
  <2>2. turn' \in Turns
    BY <2>1 DEF Turns, Stages, Events
  <2>3. PageTypeOK'
    BY <1>1, <2>1, <2>2 DEF PageIInv, PageTypeOK
  <2>4. Passing'
    BY <1>1, <2>1 DEF Passing, Reasons
  <2>5. Told' /\ PageKeeps(page')
    BY <1>1, <1>3, <2>1 DEF Told, PageKeeps
  <2> QED BY <1>2, <2>3, <2>4, <2>5 DEF PageIInv
<1> QED BY <1>4, <1>5

(* A step of the session: what it checks, its verdict, its service.         *)
LEMMA SessionIInv == ASSUME PageIInv, Elaborates \/ Verdict \/ Serves PROVE PageIInv' /\ PageKeeps(page')
<1>1. turn = Idle /\ widens' = widens /\ relay \in RelayStates
  BY DEF Elaborates, Verdict, Serves, Rest, PageIInv, PageTypeOK
<1>2. CASE Elaborates
  <2> DEFINE r == [relay EXCEPT !.phase = "elaborating", !.checked = relay.version, !.missing = relay.header]
  <2>1. /\ r \in RelayStates /\ r.session = relay.session /\ r.header = relay.header /\ r.missing = relay.header
        /\ r.kept = relay.kept /\ r.keptFor = relay.keptFor /\ r.loaded = relay.loaded
    BY <1>1 DEF RelayStates, Modules
  <2>2. Publishes(r)
    BY <1>2 DEF Elaborates
  <2> HIDE DEF r
  <2>3. r.session >= relay.session /\ (Widened(relay) => Widened(r))
    BY <1>1, <2>1 DEF Widened, RelayStates
  <2> QED BY <1>1, <2>1, <2>2, <2>3, PublishesIInv
<1>3. CASE Verdict
  <2>1. \E missing \in SUBSET relay.missing :
           \E r \in {[relay EXCEPT !.phase = "ready", !.died = 0, !.missing = {}],
                     [relay EXCEPT !.phase = "headerRefused", !.missing = missing]} : Publishes(r)
    BY <1>3 DEF Verdict
  <2>a. PICK missing \in SUBSET relay.missing :
           \E r \in {[relay EXCEPT !.phase = "ready", !.died = 0, !.missing = {}],
                     [relay EXCEPT !.phase = "headerRefused", !.missing = missing]} : Publishes(r)
    BY <2>1
  <2>b. PICK r \in {[relay EXCEPT !.phase = "ready", !.died = 0, !.missing = {}],
                    [relay EXCEPT !.phase = "headerRefused", !.missing = missing]} : Publishes(r)
    BY <2>a
  <2>2. relay.missing \in SUBSET Modules /\ missing \in SUBSET Modules
    BY <1>1 DEF RelayStates
  <2>3. /\ r \in RelayStates /\ r.session = relay.session /\ r.header = relay.header /\ r.missing \subseteq relay.missing
        /\ r.kept = relay.kept /\ r.keptFor = relay.keptFor /\ r.loaded = relay.loaded
    <3>1. CASE r = [relay EXCEPT !.phase = "ready", !.died = 0, !.missing = {}]
      BY <1>1, <3>1 DEF RelayStates
    <3>2. CASE r = [relay EXCEPT !.phase = "headerRefused", !.missing = missing]
      BY <1>1, <2>2, <3>2 DEF RelayStates
    <3> QED BY <2>b, <3>1, <3>2
  <2>4. r.session >= relay.session /\ (Widened(relay) => Widened(r))
    BY <1>1, <2>3 DEF Widened, RelayStates
  <2> QED BY <1>1, <2>b, <2>3, <2>4, PublishesIInv
<1>4. CASE Serves
  <2> DEFINE boots == IF relay.phase = "booting" THEN "starting" ELSE relay.phase
             r == [relay EXCEPT !.mode = "serving", !.phase = boots]
  <2>1. boots \in {"starting", "elaborating", "ready", "headerRefused", "halted"}
    BY <1>1 DEF RelayStates
  <2>2. Publishes(r)
    BY <1>4 DEF Serves
  <2> HIDE DEF boots
  <2>3. /\ r \in RelayStates /\ r.session = relay.session /\ r.header = relay.header /\ r.missing = relay.missing
        /\ r.kept = relay.kept /\ r.keptFor = relay.keptFor /\ r.loaded = relay.loaded
    BY <1>1, <2>1 DEF RelayStates
  <2> HIDE DEF r
  <2>4. r.session >= relay.session /\ (Widened(relay) => Widened(r))
    BY <1>1, <2>3 DEF Widened, RelayStates
  <2> QED BY <1>1, <2>2, <2>3, <2>4, PublishesIInv
<1> QED BY <1>2, <1>3, <1>4

(* A death: the next session, or a halt; the breaker forgets the widen.     *)
LEMMA DiesIInv == ASSUME PageIInv, Dies PROVE PageIInv' /\ PageKeeps(page')
<1> DEFINE lost == [relay EXCEPT !.died = relay.session, !.mode = "rebooting"]
<1>1. turn = Idle /\ relay \in RelayStates /\ widens \in {0, 1}
  BY DEF Dies, Rest, PageIInv, PageTypeOK, WidenedOnce
<1>2. /\ lost \in RelayStates /\ lost.session = relay.session /\ lost.header = relay.header /\ lost.missing = relay.missing
      /\ lost.kept = relay.kept /\ lost.keptFor = relay.keptFor /\ lost.loaded = relay.loaded
  <2>1. relay.session \in Nat
    BY <1>1 DEF RelayStates
  <2> QED BY <1>1, <2>1 DEF RelayStates
<1>3. CASE Publishes(Rebooted(lost)) /\ UNCHANGED widens
  <2>1. Widened(relay) => Widened(lost)
    BY <1>2 DEF Widened
  <2>2. Replaces(lost, Rebooted(lost)) /\ (Widened(lost) => Widened(Rebooted(lost)))
    BY <1>2, RebootedIs
  <2>3. Rebooted(lost) \in RelayStates /\ Rebooted(lost).session >= relay.session
    BY <1>1, <1>2, <2>2 DEF Replaces, RelayStates
  <2> HIDE DEF lost
  <2> QED BY <1>1, <1>3, <2>1, <2>2, <2>3, PublishesIInv
<1>4. CASE \E stack \in BOOLEAN :
             /\ Publishes([lost EXCEPT !.mode = "halted", !.phase = "halted", !.stack = stack,
                                       !.kept = IF stack THEN @ ELSE Default])
             /\ widens' = IF stack THEN widens ELSE 0
  <2>1. PICK stack \in BOOLEAN :
             /\ Publishes([lost EXCEPT !.mode = "halted", !.phase = "halted", !.stack = stack,
                                       !.kept = IF stack THEN @ ELSE Default])
             /\ widens' = IF stack THEN widens ELSE 0
    BY <1>4
  <2>2. PICK kept \in SUBSET AllNames : kept = IF stack THEN lost.kept ELSE Default
    BY <1>2 DEF RelayStates, Default
  <2> HIDE DEF lost
  <2> DEFINE r == [lost EXCEPT !.mode = "halted", !.phase = "halted", !.stack = stack, !.kept = kept]
  <2>3. /\ r \in RelayStates /\ r.session = lost.session /\ r.header = lost.header /\ r.missing = lost.missing
        /\ r.kept = kept /\ r.keptFor = lost.keptFor /\ r.loaded = lost.loaded
    BY <1>2 DEF RelayStates
  <2>4. Publishes(r)
    BY <2>1, <2>2
  <2> HIDE DEF r
  <2>5. r.session >= relay.session /\ widens' \in {0, widens}
    BY <1>1, <1>2, <2>1, <2>3 DEF RelayStates
  <2>6. widens' = 1 /\ Widened(relay) => Widened(r)
    BY <1>2, <2>1, <2>2, <2>3 DEF Widened
  <2> QED BY <1>1, <2>3, <2>4, <2>5, <2>6, PublishesIInv
<1> QED BY <1>3, <1>4 DEF Dies

(* A replacement at rest: the page hears of it at once.                     *)
LEMMA ReplacedIInv ==
    ASSUME PageIInv, turn = Idle, turn' = Idle, NEW r \in RelayStates, r.session >= relay.session,
           relay' = r, NEW byUser \in BOOLEAN, page' = Hears(page, r, byUser), due' = Waiting, calls' = calls,
           widens' \in {0, widens}, widens' = 1 => Widened(r)
    PROVE  PageIInv' /\ PageKeeps(page')
<1>1. page' \in PageStates /\ page'.last = r.session /\ page'.seen \subseteq page.seen
  BY HearsIs DEF PageIInv, PageTypeOK
<1>2. relay.session \in Nat /\ r.session \in Nat /\ page.last \in Nat /\ page.last <= relay.session
  BY DEF PageIInv, PageTypeOK, RelayStates, PageStates, Told
<1>3. PageTypeOK'
  BY <1>1 DEF PageIInv, PageTypeOK, Waiting
<1>4. WidenedOnce'
  BY DEF PageIInv, WidenedOnce
<1>5. Passing'
  BY DEF Passing
<1>6. page'.last >= page.last
  BY <1>1, <1>2
<1>7. relay'.session = r.session /\ r.session <= r.session
  BY <1>2
<1>8. Told'
  BY <1>1, <1>7 DEF Told
<1> QED BY <1>1, <1>3, <1>4, <1>5, <1>6, <1>8 DEF PageIInv, PageKeeps

-----------------------------------------------------------------------------
(* A didChange: another version, and a re-arm when the relay is halted.     *)
LEMMA EditsIInv == ASSUME PageIInv, Edits PROVE PageIInv' /\ PageKeeps(page')
<1>1. turn = Idle /\ turn' = Idle /\ calls' = calls /\ relay \in RelayStates /\ widens \in {0, 1}
  BY DEF Edits, Rest, PageIInv, PageTypeOK, WidenedOnce
<1>2. PICK h \in Imports :
        LET r == [relay EXCEPT !.version = @ + 1, !.header = h]
        IN  /\ widens' = IF h = relay.header THEN widens ELSE 0
            /\ IF relay.mode # "halted"
                 THEN relay' = r /\ UNCHANGED <<page, due>>
                 ELSE /\ relay.session < MaxSessions
                      /\ relay' = Rebooted(r)
                      /\ page' = Hears(page, relay', TRUE)
                      /\ due' = Waiting
  BY DEF Edits
<1> DEFINE r == [relay EXCEPT !.version = @ + 1, !.header = h]
<1>3. /\ r \in RelayStates /\ r.session = relay.session /\ r.header = h /\ r.missing = relay.missing
      /\ r.kept = relay.kept /\ r.keptFor = relay.keptFor /\ r.loaded = relay.loaded
  <2>1. relay.version + 1 \in Nat
    BY <1>1 DEF RelayStates
  <2> QED BY <1>1, <2>1 DEF RelayStates
<1>4. widens' \in {0, widens} /\ (widens' = 1 => Widened(r))
  <2>1. widens' = IF h = relay.header THEN widens ELSE 0
    BY <1>2
  <2>2. widens' = 1 => h = relay.header /\ Widened(relay)
    BY <1>1, <2>1 DEF PageIInv, WidenedOnce
  <2> QED BY <2>1, <2>2, <1>3 DEF Widened
<1>5. CASE relay.mode # "halted"
  <2>1. relay' = r /\ page' = page /\ due' = due
    BY <1>2, <1>5
  <2> HIDE DEF r
  <2>2. PageTypeOK'
    BY <1>1, <1>3, <2>1 DEF PageIInv, PageTypeOK
  <2>3. WidenedOnce'
    BY <1>1, <1>4, <2>1 DEF WidenedOnce
  <2>4. page.last \in Nat /\ page.last <= relay.session
    BY DEF PageIInv, PageTypeOK, PageStates, Told
  <2> QED BY <1>1, <1>3, <2>1, <2>2, <2>3, <2>4 DEF PageIInv, Passing, Told, PageKeeps
<1>6. CASE relay.mode = "halted"
  <2>1. relay' = Rebooted(r) /\ page' = Hears(page, Rebooted(r), TRUE) /\ due' = Waiting
    BY <1>2, <1>6
  <2> HIDE DEF r
  <2>2. Replaces(r, Rebooted(r)) /\ (Widened(r) => Widened(Rebooted(r)))
    BY <1>3, RebootedIs
  <2>3. Rebooted(r) \in RelayStates /\ Rebooted(r).session >= relay.session
    BY <1>1, <1>3, <2>2 DEF Replaces, RelayStates
  <2> QED BY <1>1, <1>4, <2>1, <2>2, <2>3, ReplacedIInv
<1> QED BY <1>5, <1>6

(* A restart the embedder asks for between the page's turns.                *)
LEMMA RestartsIInv == ASSUME PageIInv, Restarts PROVE PageIInv' /\ PageKeeps(page')
<1>1. turn = Idle /\ turn' = Idle /\ calls' = calls /\ relay \in RelayStates /\ widens \in {0, 1}
  BY DEF Restarts, Rest, PageIInv, PageTypeOK, WidenedOnce
<1>2. PICK asked \in Asked : \E r \in ApiRestart(relay, asked) :
        /\ relay' = r
        /\ page' = Hears(page, r, TRUE)
        /\ due' = Waiting
        /\ widens' = IF asked = Default THEN widens ELSE 0
  BY DEF Restarts
<1>3. PICK r \in ApiRestart(relay, asked) :
        /\ relay' = r
        /\ page' = Hears(page, r, TRUE)
        /\ due' = Waiting
        /\ widens' = IF asked = Default THEN widens ELSE 0
  BY <1>2
<1>4. Replaces(relay, r) /\ (asked = Default /\ Widened(relay) => Widened(r))
  BY <1>1, ApiRestartIs
<1>5. r \in RelayStates /\ r.session >= relay.session
  BY <1>1, <1>4 DEF Replaces, RelayStates
<1>6. widens' \in {0, widens} /\ (widens' = 1 => Widened(r))
  BY <1>1, <1>3, <1>4 DEF PageIInv, WidenedOnce
<1> QED BY <1>1, <1>3, <1>5, <1>6, ReplacedIInv

(* The tasks that leave the session as it is: progress, the fallback's      *)
(* timer, the calls of settled() and their timeouts.                        *)
LEMMA QuietIInv ==
    ASSUME PageIInv, Progress \/ FallbackFires \/ \E c \in Calls : AsksSettled(c) \/ TimesOut(c)
    PROVE  PageIInv' /\ PageKeeps(page')
<1>1. turn = Idle /\ turn' = Idle /\ relay' = relay /\ widens' = widens
  BY DEF Progress, FallbackFires, AsksSettled, TimesOut, Rest
<1>2. page' \in PageStates /\ page'.last = page.last /\ page'.seen = page.seen
  <2>1. page' \in {page, [page EXCEPT !.progress = TRUE],
                   [page EXCEPT !.fallback = FALSE, !.card = FALSE, !.boot = "done"]}
    BY DEF Progress, FallbackFires, AsksSettled, TimesOut
  <2> QED BY <2>1 DEF PageIInv, PageTypeOK, PageStates
<1>3. due' \subseteq Calls
  BY DEF Progress, FallbackFires, AsksSettled, TimesOut, PageIInv, PageTypeOK, Waiting
<1>4. calls' \in [Calls -> CallStates]
  <2>1. calls \in [Calls -> CallStates] /\ relay.version \in Nat /\ relay.session \in Nat
    BY DEF PageIInv, PageTypeOK, RelayStates
  <2>2. CASE calls' = calls
    BY <2>1, <2>2
  <2>3. CASE \E c \in Calls : AsksSettled(c)
    BY <2>1, <2>3 DEF AsksSettled, CallStates
  <2>4. CASE \E c \in Calls : TimesOut(c)
    BY <2>1, <2>4 DEF TimesOut, CallStates
  <2> QED BY <2>2, <2>3, <2>4 DEF Progress, FallbackFires
<1>5. page.last \in Nat /\ relay.session \in Nat /\ page.last <= relay.session
  BY DEF PageIInv, PageTypeOK, RelayStates, PageStates, Told
<1> QED BY <1>1, <1>2, <1>3, <1>4, <1>5 DEF PageIInv, PageTypeOK, WidenedOnce, Passing, Told, PageKeeps

(* A check of settled()'s.                                                  *)
LEMMA CheckIInv == ASSUME PageIInv, NEW c \in Calls, Check(c) PROVE PageIInv' /\ PageKeeps(page')
<1>1. /\ turn = Idle /\ turn' = Idle /\ relay' = relay /\ page' = page /\ widens' = widens
      /\ due' \subseteq Calls
  BY DEF Check, PageIInv, PageTypeOK
<1>2. Outcome(c) \in {"waiting", "resolved", "rejected"}
  BY DEF Outcome
<1>3. calls \in [Calls -> CallStates] /\ relay.session \in Nat
  BY DEF PageIInv, PageTypeOK, RelayStates
<1> DEFINE new == [calls[c] EXCEPT !.st = Outcome(c)]
<1>5. new \in CallStates
  BY <1>2, <1>3 DEF CallStates
<1>6. calls' = [calls EXCEPT ![c] = new]
  BY <1>3 DEF Check
<1> HIDE DEF new
<1>7. PageTypeOK'
  BY <1>1, <1>3, <1>5, <1>6 DEF PageIInv, PageTypeOK
<1>9. page.last \in Nat
  BY DEF PageIInv, PageTypeOK, PageStates
<1> QED BY <1>1, <1>7, <1>9 DEF PageIInv, WidenedOnce, Passing, Told, PageKeeps
-----------------------------------------------------------------------------
(* A stage of the pass that no listener hears.                              *)
LEMMA PassesKeeps ==
    ASSUME PageIInv, turn # Idle, NEW p \in PageStates, p.last <= relay.session,
           NEW next \in Stages \ {"widen"}, turn.by \in Reasons(next),
           Passes(p, next), UNCHANGED calls
    PROVE  PageIInv'
<1>1. turn \in Turns /\ turn' = [turn EXCEPT !.at = next] /\ relay' = relay /\ page' = p /\ due' = due /\ widens' = widens
  BY DEF Passes, PageIInv, PageTypeOK
<1>2. turn' \in Turns /\ turn'.at = next /\ turn'.s = turn.s /\ turn'.by = turn.by
  BY <1>1 DEF Turns
<1>3. PageTypeOK'
  BY <1>1, <1>2 DEF PageIInv, PageTypeOK
<1>4. Passing'
  BY <1>1, <1>2 DEF PageIInv, Passing
<1> QED BY <1>1, <1>3, <1>4 DEF PageIInv, WidenedOnce, Told

(* An event, whatever its listeners do.                                     *)
LEMMA EmitKeeps ==
    ASSUME PageIInv, turn # Idle, NEW p \in PageStates, p.last <= relay.session,
           NEW next \in Stages \ {"widen"}, NEW event \in Reasons(next) \ {"none"}, turn.by \in Reasons(next),
           Emit(event, p, next), UNCHANGED calls
    PROVE  PageIInv' /\ p.last <= page'.last /\ page'.seen \subseteq p.seen
<1>1. turn \in Turns /\ relay \in RelayStates /\ widens \in {0, 1} /\ turn.by \in Reasons(turn.at)
  BY DEF PageIInv, PageTypeOK, WidenedOnce, Passing
<1>2. PICK asked \in Asked : \E r \in {relay} \cup ApiRestart(relay, asked) :
      /\ relay' = r
      /\ page' = IF r = relay THEN p ELSE Hears(p, r, TRUE)
      /\ widens' = IF r = relay \/ asked = Default THEN widens ELSE 0
      /\ turn' = [turn EXCEPT !.at = next, !.by = IF r # relay /\ @ = "none" THEN event ELSE @]
      /\ due' = IF r # relay \/ event = "status" THEN due \cup Waiting ELSE due
  BY DEF Emit
<1>3. PICK r \in {relay} \cup ApiRestart(relay, asked) :
      /\ relay' = r
      /\ page' = IF r = relay THEN p ELSE Hears(p, r, TRUE)
      /\ widens' = IF r = relay \/ asked = Default THEN widens ELSE 0
      /\ turn' = [turn EXCEPT !.at = next, !.by = IF r # relay /\ @ = "none" THEN event ELSE @]
      /\ due' = IF r # relay \/ event = "status" THEN due \cup Waiting ELSE due
  BY <1>2
<1>4. r # relay => Replaces(relay, r) /\ (asked = Default /\ Widened(relay) => Widened(r))
  BY <1>1, <1>3, ApiRestartIs
<1>5. PICK by : by = IF r # relay /\ turn.by = "none" THEN event ELSE turn.by
  OBVIOUS
<1>6. by \in Reasons(next) /\ by \in Events /\ (by = "none" => r = relay)
  BY <1>1, <1>5 DEF Reasons, Events, Stages
<1>7. turn' = [turn EXCEPT !.at = next, !.by = by]
  BY <1>3, <1>5
<1>8. turn' \in Turns /\ turn'.at = next /\ turn'.s = turn.s /\ turn'.by = by
  BY <1>1, <1>6, <1>7 DEF Turns
<1>9. r \in RelayStates /\ r.session >= relay.session /\ (r # relay => r.session > relay.session)
  BY <1>1, <1>4 DEF Replaces, RelayStates
<1>10. page' \in PageStates /\ page'.last <= r.session /\ p.last <= page'.last /\ page'.seen \subseteq p.seen
  <2>1. CASE r = relay
    BY <1>3, <2>1 DEF PageStates
  <2>2. CASE r # relay
    <3>1. page' = Hears(p, r, TRUE)
      BY <1>3, <2>2
    <3>2. page' \in PageStates /\ page'.last = r.session /\ page'.seen \subseteq p.seen
      BY <1>9, <3>1, HearsIs
    <3>3. p.last \in Nat /\ relay.session \in Nat /\ r.session \in Nat
      BY <1>1, <1>9 DEF PageStates, RelayStates
    <3> QED BY <1>9, <3>2, <3>3
  <2> QED BY <2>1, <2>2
<1>11. due' \subseteq Calls
  BY <1>3 DEF Waiting, PageIInv, PageTypeOK
<1>12. PageTypeOK'
  BY <1>3, <1>8, <1>9, <1>10, <1>11 DEF PageIInv, PageTypeOK
<1>13. WidenedOnce'
  BY <1>3, <1>4 DEF PageIInv, WidenedOnce
<1>14. Passing'
  <2>1. IF by = "none" THEN turn.s.session = r.session ELSE turn.s.session < r.session
    <3>1. relay.session \in Nat /\ r.session \in Nat /\ turn.s.session \in Nat
      BY <1>1, <1>9 DEF RelayStates, Turns
    <3>2. IF turn.by = "none" THEN turn.s.session = relay.session ELSE turn.s.session < relay.session
      BY DEF PageIInv, Passing
    <3> QED BY <1>5, <1>9, <3>1, <3>2
  <2> QED BY <1>1, <1>3, <1>6, <1>8, <2>1 DEF Passing
<1>15. Told'
  BY <1>1, <1>3, <1>10 DEF Told
<1> QED BY <1>10, <1>12, <1>13, <1>14, <1>15 DEF PageIInv
-----------------------------------------------------------------------------
(* The widen itself: a session that was widened to is not widened again,    *)
(* and one that was not is replaced by one that is.                         *)
LEMMA WidenIInv == ASSUME PageIInv, Widen PROVE PageIInv' /\ PageKeeps(page')
<1>1. /\ turn # Idle /\ turn.at = "widen" /\ turn \in Turns /\ calls' = calls
      /\ relay \in RelayStates /\ page \in PageStates /\ page.last <= relay.session
  BY DEF Widen, Widens, At, Idle, PageIInv, PageTypeOK, Told
<1>2. turn.s = relay
  BY <1>1 DEF PageIInv, Passing
<1> DEFINE target == widenTarget(Index, turn.s.missing, relay.loaded, relay.header)
<1>3. CASE Passes(page, "card")
  <2>1. PageIInv'
    BY <1>1, <1>3, PassesKeeps DEF Stages, Reasons, PageIInv, Passing
  <2>2. page' = page /\ page.last \in Nat
    BY <1>1, <1>3 DEF Passes, PageStates
  <2> QED BY <2>1, <2>2 DEF PageKeeps
<1>4. CASE /\ target # <<>>
           /\ relay' = Restarted(relay, Base \cup {target[1].name})
           /\ page' = Hears(page, relay', TRUE)
           /\ widens' = widens + 1
           /\ due' = Waiting
           /\ turn' = Idle
  <2>1. widens = 0
    BY <1>1, <1>2, <1>4, ServedIsEnough DEF PageIInv, WidenedOnce, Widened
  <2>2. PICK opts : opts = Base \cup {target[1].name}
    OBVIOUS
  <2>3. /\ opts \in SUBSET AllNames /\ opts # Default
        /\ Beyond(Index, relay.header) \cap Claimed(Index) \subseteq RootsOf(Index, opts)
    <3>1. /\ target[1].name \in Names(Index)
          /\ Beyond(Index, relay.header) \cap Claimed(Index) \subseteq RootsOf(Index, Base \cup {target[1].name})
      BY <1>4, TargetServes
    <3> HIDE DEF target
    <3> QED BY <2>2, <3>1 DEF AllNames, Default
  <2>4. PICK r : r = Restarted(relay, opts)
    OBVIOUS
  <2>5. Replaces(relay, r) /\ Widened(r)
    BY <1>1, <2>3, <2>4, RestartedIs
  <2>6. r \in RelayStates /\ r.session >= relay.session
    BY <1>1, <2>5 DEF Replaces, RelayStates
  <2>7. relay' = r /\ turn' = Idle /\ due' = Waiting /\ widens' = 1
    BY <1>4, <2>1, <2>2, <2>4
  <2>8. page' = Hears(page, r, TRUE)
    BY <1>4, <2>2, <2>4
  <2>9. page' \in PageStates /\ page'.last = r.session /\ page'.seen \subseteq page.seen
    BY <1>1, <2>6, <2>8, HearsIs
  <2>10. PageTypeOK'
    BY <1>1, <2>6, <2>7, <2>9 DEF PageIInv, PageTypeOK, Waiting
  <2>11. WidenedOnce' /\ Passing'
    BY <1>1, <1>2, <2>5, <2>7 DEF WidenedOnce, Passing
  <2>12. relay.session \in Nat /\ r.session \in Nat /\ page.last \in Nat
    BY <1>1, <2>6 DEF RelayStates, PageStates
  <2>13. page'.last >= page.last
    BY <1>1, <2>6, <2>9, <2>12
  <2>14. Told'
    BY <2>7, <2>9, <2>12 DEF Told
  <2> QED BY <2>9, <2>10, <2>11, <2>13, <2>14 DEF PageIInv, PageKeeps
<1> QED BY <1>3, <1>4 DEF Widen, Widens

(* The boot card's end, and what the sink does between two events.          *)
LEMMA CardIInv == ASSUME PageIInv, Card PROVE PageIInv' /\ PageKeeps(page')
<1>1. /\ turn # Idle /\ turn.at = "card" /\ turn \in Turns /\ calls' = calls
      /\ page \in PageStates /\ page.last <= relay.session /\ page.last \in Nat
  BY DEF Card, At, Idle, PageIInv, PageTypeOK, Told, PageStates
<1>2. /\ "top" \in Stages \ {"widen"} /\ "card" \in Reasons("top") \ {"none"}
      /\ turn.by \in Reasons("top")
  BY <1>1 DEF Stages, Reasons, PageIInv, Passing
<1>3. \E fallback \in BOOLEAN, card \in BOOLEAN, boot \in {"going", "done", "failed"} :
        LET p == [page EXCEPT !.fallback = fallback, !.card = card, !.boot = boot]
        IN  Emit("card", p, "top") \/ Passes(p, "top")
  <2> DEFINE s == turn.s
             ends == page.card /\ (s.phase \in Settled \/ (s.mode = "halted" /\ s.stack))
             fails == page.card /\ s.mode = "halted" /\ ~s.stack
             armed == CASE ~page.card \/ ends -> FALSE
                        [] s.mode = "serving" -> TRUE
                        [] OTHER -> page.fallback
             boot == IF ends THEN "done" ELSE IF fails THEN "failed" ELSE page.boot
             p == [page EXCEPT !.fallback = armed, !.card = page.card /\ ~ends, !.boot = boot]
  <2>1. armed \in BOOLEAN /\ (page.card /\ ~ends) \in BOOLEAN /\ boot \in {"going", "done", "failed"}
    BY <1>1 DEF PageStates
  <2>2. Emit("card", p, "top") \/ Passes(p, "top")
    BY DEF Card
  <2> HIDE DEF armed, boot, ends
  <2> QED BY <2>1, <2>2
<1>4. PICK p \in PageStates :
        /\ p.last = page.last /\ p.seen = page.seen
        /\ Emit("card", p, "top") \/ Passes(p, "top")
  <2>1. PICK fallback \in BOOLEAN, card \in BOOLEAN, boot \in {"going", "done", "failed"} :
          LET p == [page EXCEPT !.fallback = fallback, !.card = card, !.boot = boot]
          IN  Emit("card", p, "top") \/ Passes(p, "top")
    BY <1>3
  <2> DEFINE p == [page EXCEPT !.fallback = fallback, !.card = card, !.boot = boot]
  <2>2. p \in PageStates /\ p.last = page.last /\ p.seen = page.seen
    BY <1>1 DEF PageStates
  <2>3. Emit("card", p, "top") \/ Passes(p, "top")
    BY <2>1
  <2> HIDE DEF p
  <2> QED BY <2>2, <2>3
<1>5. CASE Emit("card", p, "top")
  BY <1>1, <1>2, <1>4, <1>5, EmitKeeps DEF PageKeeps
<1>6. CASE Passes(p, "top")
  <2>1. PageIInv'
    BY <1>1, <1>2, <1>4, <1>6, PassesKeeps
  <2>2. page' = p
    BY <1>6 DEF Passes
  <2> QED BY <1>1, <1>4, <2>1, <2>2 DEF PageKeeps
<1> QED BY <1>4, <1>5, <1>6

(* The head of relayStatus.                                                 *)
LEMMA TopIInv == ASSUME PageIInv, Top PROVE PageIInv' /\ PageKeeps(page')
<1>1. /\ turn # Idle /\ turn.at = "top" /\ turn \in Turns /\ calls' = calls
      /\ page \in PageStates /\ page.last <= relay.session /\ page.last \in Nat
      /\ relay.session \in Nat /\ turn.s.session \in Nat
  BY DEF Top, At, Idle, PageIInv, PageTypeOK, Told, PageStates, Turns, RelayStates
<1>2. CASE Passes(page, "over")
  <2>1. PageIInv'
    BY <1>1, <1>2, PassesKeeps DEF Stages, Reasons, Events, Turns
  <2> QED BY <1>1, <1>2, <2>1 DEF Passes, PageKeeps
<1>3. CASE Stands
  <2>1. turn.by = "none"
    BY <1>1, <1>3 DEF Stands, PageIInv, Passing
  <2>2. CASE Passes(page, "handle")
    <3>1. PageIInv'
      BY <1>1, <2>1, <2>2, PassesKeeps DEF Stages, Reasons
    <3> QED BY <1>1, <2>2, <3>1 DEF Passes, PageKeeps
  <2>3. CASE Emit("fileProgress", [page EXCEPT !.progress = FALSE], "handle")
    <3> DEFINE p == [page EXCEPT !.progress = FALSE]
    <3>1. p \in PageStates /\ p.last = page.last /\ p.seen = page.seen
      BY <1>1 DEF PageStates
    <3>2. Emit("fileProgress", p, "handle")
      BY <2>3
    <3> HIDE DEF p
    <3> QED BY <1>1, <2>1, <3>1, <3>2, EmitKeeps DEF PageKeeps, Stages, Reasons
  <2> QED BY <1>3, <2>2, <2>3 DEF Top
<1> QED BY <1>2, <1>3 DEF Top

(* What the page tells may go back only behind a listener of fileProgress,  *)
(* which has replaced the session whose status the pass goes on with.       *)
LEMMA HandleIInv ==
    ASSUME PageIInv, Handle
    PROVE  PageIInv' /\ (page'.last < page.last => turn.by = "fileProgress") /\ page'.seen \subseteq page.seen
<1>1. /\ turn # Idle /\ turn.at = "handle" /\ turn \in Turns /\ calls' = calls
      /\ page \in PageStates /\ page.last <= relay.session /\ page.last \in Nat
      /\ relay.session \in Nat /\ turn.s.session \in Nat /\ turn.s.died \in Nat
  BY DEF Handle, At, Idle, PageIInv, PageTypeOK, Told, PageStates, Turns, RelayStates
<1>2. turn.by \in {"none", "fileProgress"} /\ turn.s.session <= relay.session
  /\ (turn.by = "none" => turn.s.session = relay.session)
  BY <1>1 DEF PageIInv, Passing, Reasons
<1>3. PICK seen \in SUBSET (Nat \X Nat) : seen = (IF page.last = turn.s.session THEN page.seen ELSE {}) /\ seen \subseteq page.seen
  <2>1. page.seen \in SUBSET (Nat \X Nat)
    BY <1>1 DEF PageStates
  <2>2. CASE page.last = turn.s.session
    BY <2>1, <2>2
  <2>3. CASE page.last # turn.s.session
    <3>1. {} \in SUBSET (Nat \X Nat) /\ {} \subseteq page.seen
      OBVIOUS
    <3> QED BY <2>3, <3>1
  <2> QED BY <2>2, <2>3
<1> DEFINE p == [page EXCEPT !.last = turn.s.session, !.seen = seen, !.death = turn.s.died]
<1>4. p \in PageStates /\ p.last = turn.s.session /\ p.seen = seen
  BY <1>1, <1>3 DEF PageStates
<1>5. PICK event \in {"liveness", "death"} : Emit(event, p, "status")
  BY <1>3 DEF Handle
<1> HIDE DEF p
<1>6. PageIInv' /\ p.last <= page'.last /\ page'.seen \subseteq p.seen
  BY <1>1, <1>2, <1>4, <1>5, EmitKeeps DEF Stages, Reasons
<1>7. page'.last \in Nat
  BY <1>6 DEF PageIInv, PageTypeOK, PageStates
<1> QED BY <1>1, <1>2, <1>3, <1>4, <1>6, <1>7

(* The status event, the verdict that ends a boot, and the end of a pass.   *)
LEMMA StatusIInv == ASSUME PageIInv, StatusEvent PROVE PageIInv' /\ PageKeeps(page')
<1>1. /\ turn # Idle /\ turn.at = "status" /\ turn \in Turns /\ calls' = calls
      /\ page \in PageStates /\ page.last <= relay.session
  BY DEF StatusEvent, At, Idle, PageIInv, PageTypeOK, Told
<1>2. turn.by \in Reasons("final")
  BY <1>1 DEF PageIInv, Passing, Reasons
<1> QED BY <1>1, <1>2, EmitKeeps DEF StatusEvent, PageKeeps, Stages, Reasons

(* The verdict is looked at again once the listeners of the status ran.      *)
LEMMA FinalIInv == ASSUME PageIInv, Final PROVE PageIInv' /\ PageKeeps(page')
<1>1. /\ turn # Idle /\ turn.at = "final" /\ turn \in Turns /\ calls' = calls
      /\ page \in PageStates /\ page.last <= relay.session /\ page.last \in Nat
      /\ relay.session \in Nat /\ turn.s.session \in Nat
  BY DEF Final, At, Idle, PageIInv, PageTypeOK, Told, PageStates, Turns, RelayStates
<1>2. CASE Passes(page, "over")
  <2>1. PageIInv'
    BY <1>1, <1>2, PassesKeeps DEF Stages, Reasons, Events, Turns
  <2> QED BY <1>1, <1>2, <2>1 DEF Passes, PageKeeps
<1>3. CASE Stands
  <2>1. turn.by = "none"
    BY <1>1, <1>3 DEF Stands, PageIInv, Passing
  <2>2. CASE Passes(page, "ready")
    <3>1. PageIInv'
      BY <1>1, <2>1, <2>2, PassesKeeps DEF Stages, Reasons
    <3> QED BY <1>1, <2>2, <3>1 DEF Passes, PageKeeps
  <2>3. CASE Emit("boot", [page EXCEPT !.boot = "done"], "ready")
    <3> DEFINE p == [page EXCEPT !.boot = "done"]
    <3>1. p \in PageStates /\ p.last = page.last /\ p.seen = page.seen
      BY <1>1 DEF PageStates
    <3>2. Emit("boot", p, "ready")
      BY <2>3
    <3> HIDE DEF p
    <3> QED BY <1>1, <2>1, <3>1, <3>2, EmitKeeps DEF PageKeeps, Stages, Reasons
  <2> QED BY <1>2, <1>3, <2>2, <2>3 DEF Final
<1> QED BY <1>2, <1>3 DEF Final

(* A `ready` is its session's, or a listener of the boot's end replaced it. *)
LEMMA ReadyIInv ==
    ASSUME PageIInv, Ready
    PROVE  PageIInv' /\ page'.last >= page.last /\ (Stands \/ turn.by = "boot")
<1>1. /\ turn # Idle /\ turn.at = "ready" /\ turn \in Turns /\ calls' = calls
      /\ page \in PageStates /\ page.last <= relay.session /\ page.last \in Nat
      /\ relay.session \in Nat /\ turn.s.session \in Nat /\ turn.s.checked \in Nat
  BY DEF Ready, At, Idle, PageIInv, PageTypeOK, Told, PageStates, Turns, RelayStates
<1>2. turn.by \in {"none", "boot"} /\ (Stands \/ turn.by = "boot") /\ turn.by \in Events
  BY <1>1 DEF PageIInv, Passing, Reasons, Stands, Events
<1>3. CASE Passes(page, "over")
  <2>1. PageIInv'
    BY <1>1, <1>2, <1>3, PassesKeeps DEF Stages, Reasons
  <2> QED BY <1>1, <1>2, <1>3, <2>1 DEF Passes
<1>4. CASE Emit("ready", [page EXCEPT !.seen = @ \cup {ReadyKey}], "over")
  <2> DEFINE p == [page EXCEPT !.seen = @ \cup {ReadyKey}]
  <2>1. p \in PageStates /\ p.last = page.last
    BY <1>1 DEF PageStates, ReadyKey
  <2>2. Emit("ready", p, "over")
    BY <1>4
  <2> HIDE DEF p
  <2>3. PageIInv' /\ p.last <= page'.last
    BY <1>1, <1>2, <2>1, <2>2, EmitKeeps DEF Stages, Reasons, Events
  <2>4. page'.last \in Nat
    BY <2>3 DEF PageIInv, PageTypeOK, PageStates
  <2> QED BY <1>1, <1>2, <2>1, <2>3, <2>4
<1> QED BY <1>3, <1>4 DEF Ready

(* The end of the turn.                                                     *)
LEMMA OverIInv == ASSUME PageIInv, Over PROVE PageIInv' /\ PageKeeps(page')
<1>1. /\ turn # Idle /\ turn' = Idle /\ calls' = calls
      /\ relay' = relay /\ page' = page /\ due' = due /\ widens' = widens
  BY DEF Over, At, Idle
<1>2. PageTypeOK'
  BY <1>1 DEF PageIInv, PageTypeOK
<1>3. WidenedOnce' /\ Passing' /\ Told'
  BY <1>1 DEF PageIInv, WidenedOnce, Passing, Told
<1>4. page.last \in Nat
  BY DEF PageIInv, PageTypeOK, PageStates
<1> QED BY <1>1, <1>2, <1>3, <1>4 DEF PageIInv, PageKeeps

-----------------------------------------------------------------------------
(* What a step may tell (the action part of VerdictsStand).                 *)
Tells ==
    /\ page'.last < page.last => turn.by = "fileProgress"
    /\ turn.at = "status" => Stands \/ turn.by \in {"fileProgress", "death", "liveness"}
    /\ page'.seen \ page.seen # {} => Stands \/ turn.by = "boot"

(* The invariant is kept, and every step tells only what it may.            *)
LEMMA PageNextIInv == ASSUME PageIInv, [PageNext]_pageVars PROVE PageIInv' /\ Tells
<1>1. page.last \in Nat /\ (PageIInv' => page'.last \in Nat)
  BY DEF PageIInv, PageTypeOK, PageStates
<1>2. turn.at = "status" => Stands \/ turn.by \in {"fileProgress", "death", "liveness"}
  <2>1. turn.at = "status" => turn # Idle
    BY DEF Idle
  <2> QED BY <2>1 DEF PageIInv, Passing, Reasons, Stands
<1>3. PageIInv' /\ PageKeeps(page') => Tells
  BY <1>1, <1>2 DEF PageKeeps, Tells
<1>4. CASE Elaborates \/ Verdict \/ Serves
  BY <1>3, <1>4, SessionIInv
<1>5. CASE Dies \/ Edits \/ Restarts
  BY <1>3, <1>5, DiesIInv, EditsIInv, RestartsIInv
<1>6. CASE Progress \/ FallbackFires \/ \E c \in Calls : AsksSettled(c) \/ TimesOut(c)
  BY <1>3, <1>6, QuietIInv
<1>7. CASE \E c \in Calls : Check(c)
  BY <1>3, <1>7, CheckIInv
<1>8. CASE Widen \/ Card \/ Top
  BY <1>3, <1>8, WidenIInv, CardIInv, TopIInv
<1>9. CASE StatusEvent \/ Final \/ Over
  BY <1>3, <1>9, StatusIInv, FinalIInv, OverIInv
<1>10. CASE Handle
  <2>1. page'.seen \ page.seen = {}
    BY <1>10, HandleIInv
  <2> QED BY <1>2, <1>10, <2>1, HandleIInv DEF Tells
<1>11. CASE Ready
  <2>1. PageIInv' /\ page'.last >= page.last /\ (Stands \/ turn.by = "boot")
    BY <1>11, ReadyIInv
  <2>2. ~(page'.last < page.last)
    BY <1>1, <2>1
  <2> QED BY <1>2, <2>1, <2>2 DEF Tells
<1>12. CASE UNCHANGED pageVars
  <2>1. PageIInv'
    BY <1>12 DEF pageVars, PageIInv, PageTypeOK, WidenedOnce, Passing, Told
  <2> QED BY <1>1, <1>3, <1>12, <2>1 DEF pageVars, PageKeeps
<1> QED BY <1>4, <1>5, <1>6, <1>7, <1>8, <1>9, <1>10, <1>11, <1>12 DEF PageNext, Pass

(* The inductive invariant of the page.                                     *)
THEOREM PageInvariant == PageSpec => []PageIInv
<1>1. PageIInv /\ [PageNext]_pageVars => PageIInv'
  BY PageNextIInv
<1> QED BY PageInitIInv, <1>1, PTL DEF PageSpec

(* A widen is followed by no other for the same imports: the session it      *)
(* makes serves all of the header that any entry claims, and the            *)
(* environments stay remembered through deaths and restarts that ask for    *)
(* nothing, so that no refusal finds a target.                              *)
THEOREM WidensAtMostOnce == PageSpec => []WidensOnce
<1>1. PageIInv => WidensOnce
  BY DEF PageIInv, WidenedOnce, WidensOnce
<1> QED BY PageInvariant, <1>1, PTL

(* What an embedder hears is true: the status and the ready it is told are  *)
(* the current session's, but for the events the code does not look behind; *)
(* and the session told goes back for none but those.                       *)
THEOREM ToldVerdictsStand == PageSpec => VerdictsStand
<1>1. PageIInv /\ [PageNext]_pageVars => [Tells]_pageVars
  BY PageNextIInv
<1> QED BY PageInvariant, <1>1, PTL DEF PageSpec, VerdictsStand, Tells

-----------------------------------------------------------------------------
(* The choice of environments (Snapshots.tla), for every index: entries in  *)
(* a row, with sizes and commits that are naturals.                         *)
AnIndex(index) ==
  \E n \in Nat : /\ DOMAIN index = 1..n
                 /\ \A k \in 1..n : index[k].bytes \in Nat /\ index[k].initialBytes \in Nat

(* A set of naturals has a least element.                                   *)
LEMMA LeastNat ==
  ASSUME NEW T \in SUBSET Nat, T # {}
  PROVE  \E m \in T : \A x \in T : m <= x
<1>1. \E m \in T : \A x \in T : ~(<<x, m>> \in OpToRel(<, Nat))
  BY NatLessThanWellFounded, WFMin
<1>2. PICK m \in T : \A x \in T : ~(<<x, m>> \in OpToRel(<, Nat))
  BY <1>1
<1>3. \A x \in T : x < m => <<x, m>> \in OpToRel(<, Nat)
  BY DEF OpToRel
<1>4. \A x \in T : ~(x < m)
  BY <1>2, <1>3
<1>5. \A x \in T : x \in Nat /\ m \in Nat
  OBVIOUS
<1> QED BY <1>4, <1>5

(* Of some of the entries in a row one is the best: by a count, then by     *)
(* size, then by its place.                                                 *)
LEMMA BestOne ==
  ASSUME NEW n \in Nat, NEW R \in SUBSET (1..n), R # {}, NEW c \in [R -> Nat], NEW b \in [R -> Nat]
  PROVE  \E k \in R : \A j \in R \ {k} :
           c[k] > c[j] \/ (c[k] = c[j] /\ (b[k] < b[j] \/ (b[k] = b[j] /\ k < j)))
<1> DEFINE Beats(k, j) == c[k] > c[j] \/ (c[k] = c[j] /\ (b[k] < b[j] \/ (b[k] = b[j] /\ k < j)))
           Upto(m) == {k \in R : k <= m}
           Best(m) == \E k \in Upto(m) : \A j \in Upto(m) \ {k} : Beats(k, j)
           T == {m \in 1..n : Upto(m) # {} /\ ~Best(m)}
<1>1. \A k \in R : k \in 1..n /\ c[k] \in Nat /\ b[k] \in Nat
  OBVIOUS
<1>2. T = {}
  <2>1. SUFFICES ASSUME T # {} PROVE FALSE
    OBVIOUS
  <2>2. PICK m \in T : \A x \in T : m <= x
    <3>1. T \in SUBSET Nat
      OBVIOUS
    <3> HIDE DEF T
    <3> QED BY <2>1, <3>1, LeastNat
  <2>3. m \in 1..n /\ Upto(m) # {} /\ ~Best(m)
    OBVIOUS
  <2>4. \A k \in R : k <= m <=> k <= m - 1 \/ k = m
    BY <1>1, <2>3
  <2>5. CASE Upto(m - 1) = {}
    <3>1. \A k \in Upto(m) : k = m
      BY <2>4, <2>5
    <3> QED BY <2>3, <3>1
  <2>6. CASE Upto(m - 1) # {}
    <3>1. m - 1 \in 1..n /\ m - 1 \notin T
      <4>1. PICK k \in R : k <= m - 1
        BY <2>6
      <4> HIDE DEF T
      <4> QED BY <1>1, <2>2, <2>3, <4>1
    <3>2. PICK k \in Upto(m - 1) : \A j \in Upto(m - 1) \ {k} : Beats(k, j)
      BY <2>6, <3>1
    <3>3. k \in R /\ k < m /\ k \in Upto(m)
      BY <1>1, <2>3, <3>2
    <3>4. CASE m \notin R
      <4>1. Upto(m) = Upto(m - 1)
        BY <2>4, <3>4
      <4> QED BY <2>3, <3>2, <4>1
    <3>5. CASE m \in R /\ Beats(k, m)
      <4>1. \A j \in Upto(m) \ {k} : Beats(k, j)
        BY <2>4, <3>2, <3>5
      <4> QED BY <2>3, <3>3, <4>1
    <3>6. CASE m \in R /\ ~Beats(k, m)
      <4>1. Beats(m, k)
        BY <1>1, <3>3, <3>6
      <4>2. \A j \in Upto(m) \ {m} : Beats(m, j)
        <5>1. ASSUME NEW j \in Upto(m) \ {m}, j # k PROVE Beats(m, j)
          <6>1. Beats(k, j) /\ j \in R /\ j < m
            BY <1>1, <2>3, <2>4, <3>2, <5>1
          <6> QED BY <1>1, <3>3, <3>6, <4>1, <6>1
        <5> QED BY <4>1, <5>1
      <4>3. m \in Upto(m)
        BY <1>1, <3>6
      <4> QED BY <2>3, <4>2, <4>3
    <3> QED BY <3>4, <3>5, <3>6
  <2> QED BY <2>5, <2>6
<1>3. Upto(n) = R /\ n \in 1..n
  <2>1. PICK k \in R : k \in 1..n
    BY <1>1
  <2>2. n \in 1..n
    BY <2>1
  <2>3. Upto(n) = R
    <3>1. \A j \in R : j <= n
      BY <1>1
    <3> HIDE DEF T, Best, Beats
    <3> QED BY <3>1
  <2> QED BY <2>2, <2>3
<1>4. Best(n)
  BY <1>2, <1>3
<1> QED BY <1>3, <1>4

(* What an entry claims is claimed by the index.                            *)
LEMMA ClaimedBy == ASSUME NEW index, NEW m PROVE m \in Claimed(index) <=> \E k \in DOMAIN index : m \in index[k].roots
BY DEF Claimed, RootsOf, Named, Names, ToSet

(* A base entry claims nothing that is wanted.                              *)
LEMMA BaseClaims ==
  ASSUME NEW index, NEW modules, NEW k \in DOMAIN index, index[k].name \in Base
  PROVE  Beyond(index, modules) \cap index[k].roots = {}
<1>1. index[k].roots \subseteq RootsOf(index, Base)
  BY DEF RootsOf, Named, ToSet
<1> QED BY <1>1 DEF Beyond

(* For every index and header, a session loads the base and one entry more: *)
(* of the entries that claim most of what the base does not serve, the      *)
(* smallest, of those of one size the first; and none when no entry claims  *)
(* any of it (chooseSnapshots).                                             *)
THEOREM ChosenIsBest ==
  ASSUME NEW index, AnIndex(index), NEW modules, IsFiniteSet(modules)
  PROVE  LET wanted == Beyond(index, modules)
             covered(k) == Cardinality(wanted \cap index[k].roots)
         IN  /\ wanted \cap Claimed(index) = {} => chooseSnapshots(index, modules) = Base
             /\ wanted \cap Claimed(index) # {} =>
                  \E k \in DOMAIN index :
                    /\ chooseSnapshots(index, modules) = Base \cup {index[k].name}
                    /\ index[k].name \notin Base /\ covered(k) > 0
                    /\ \A j \in DOMAIN index :
                         \/ covered(j) < covered(k)
                         \/ /\ covered(j) = covered(k) /\ index[k].bytes <= index[j].bytes
                            /\ index[k].bytes = index[j].bytes => k <= j
<1> DEFINE wanted == Beyond(index, modules)
           covered(k) == Cardinality(wanted \cap index[k].roots)
           rivals == {k \in DOMAIN index : index[k].name \notin Base /\ covered(k) > 0}
           Beats(k, j) == \/ covered(k) > covered(j)
                          \/ covered(k) = covered(j) /\ Smaller(index, k, j)
           best == {k \in rivals : \A j \in rivals \ {k} : Beats(k, j)}
<1>1. PICK n \in Nat : DOMAIN index = 1..n /\ \A k \in 1..n : index[k].bytes \in Nat
  BY DEF AnIndex
<1>2. \A k \in DOMAIN index : covered(k) \in Nat /\ (covered(k) = 0 <=> wanted \cap index[k].roots = {})
  <2>1. ASSUME NEW k \in DOMAIN index
        PROVE  covered(k) \in Nat /\ (covered(k) = 0 <=> wanted \cap index[k].roots = {})
    <3>1. wanted \cap index[k].roots \subseteq modules
      BY DEF Beyond
    <3>2. IsFiniteSet(wanted \cap index[k].roots)
      BY <3>1, FS_Subset
    <3> QED BY <3>2, FS_CardinalityType, FS_EmptySet
  <2> QED BY <2>1
<1>3. \A k \in DOMAIN index : index[k].name \in Base => covered(k) = 0
  BY <1>2, BaseClaims
<1>4. chooseSnapshots(index, modules) = Base \cup {index[k].name : k \in best}
  BY DEF chooseSnapshots
<1>5. rivals = {} <=> wanted \cap Claimed(index) = {}
  <2>1. ASSUME NEW m \in wanted \cap Claimed(index) PROVE rivals # {}
    <3>1. PICK k \in DOMAIN index : m \in index[k].roots
      BY ClaimedBy
    <3>2. covered(k) # 0
      BY <1>2, <3>1
    <3>3. covered(k) > 0 /\ index[k].name \notin Base
      BY <1>2, <1>3, <3>2
    <3> QED BY <3>3
  <2>2. ASSUME NEW k \in rivals PROVE wanted \cap Claimed(index) # {}
    <3>1. wanted \cap index[k].roots # {}
      BY <1>2
    <3> QED BY <3>1, ClaimedBy
  <2> QED BY <2>1, <2>2
<1> HIDE DEF wanted, covered
<1>6. CASE rivals = {}
  BY <1>4, <1>5, <1>6 DEF wanted
<1>7. CASE rivals # {}
  <2> DEFINE c == [k \in rivals |-> covered(k)]
             b == [k \in rivals |-> index[k].bytes]
  <2>1. rivals \in SUBSET (1..n) /\ c \in [rivals -> Nat] /\ b \in [rivals -> Nat]
    BY <1>1, <1>2
  <2>2. PICK k \in rivals : \A j \in rivals \ {k} :
          c[k] > c[j] \/ (c[k] = c[j] /\ (b[k] < b[j] \/ (b[k] = b[j] /\ k < j)))
    <3>1. rivals # {}
      BY <1>7
    <3>2. \A R \in SUBSET (1..n) : R # {} => \A x, y \in [R -> Nat] : \E k \in R : \A j \in R \ {k} :
            x[k] > x[j] \/ (x[k] = x[j] /\ (y[k] < y[j] \/ (y[k] = y[j] /\ k < j)))
      BY <1>1, BestOne
    <3> HIDE DEF c, b, rivals
    <3> QED BY <2>1, <3>1, <3>2
  <2>3. \A j \in rivals : c[j] = covered(j) /\ b[j] = index[j].bytes
    OBVIOUS
  <2>4. \A j \in rivals \ {k} : Beats(k, j)
    BY <2>2, <2>3 DEF Smaller
  <2>5. best = {k}
    <3>1. ASSUME NEW j \in best, j # k PROVE FALSE
      <4>1. Beats(j, k) /\ Beats(k, j) /\ j \in 1..n /\ k \in 1..n
        BY <1>1, <2>4, <3>1
      <4>2. /\ covered(j) \in Nat /\ covered(k) \in Nat
            /\ index[j].bytes \in Nat /\ index[k].bytes \in Nat
        BY <1>1, <1>2, <4>1
      <4> HIDE DEF rivals, best
      <4> QED BY <4>1, <4>2 DEF Smaller
    <3> QED BY <2>4, <3>1
  <2>6. chooseSnapshots(index, modules) = Base \cup {index[k].name}
    BY <1>4, <2>5
  <2>7. ASSUME NEW j \in DOMAIN index
        PROVE  \/ covered(j) < covered(k)
               \/ /\ covered(j) = covered(k) /\ index[k].bytes <= index[j].bytes
                  /\ index[k].bytes = index[j].bytes => k <= j
    <3>1. covered(j) \in Nat /\ covered(k) \in Nat /\ covered(k) > 0 /\ j \in 1..n /\ k \in 1..n
          /\ index[j].bytes \in Nat /\ index[k].bytes \in Nat
      BY <1>1, <1>2
    <3>2. CASE j = k
      BY <3>1, <3>2
    <3>3. CASE j \notin rivals
      <4>1. covered(j) = 0
        BY <1>3, <3>1, <3>3
      <4> QED BY <3>1, <4>1
    <3>4. CASE j \in rivals \ {k}
      BY <2>4, <3>1, <3>4 DEF Smaller
    <3> QED BY <3>2, <3>3, <3>4
  <2>8. k \in DOMAIN index /\ index[k].name \notin Base /\ covered(k) > 0 /\ wanted \cap Claimed(index) # {}
    BY <1>5, <1>7
  <2> QED BY <2>6, <2>7, <2>8 DEF wanted, covered
<1> QED BY <1>6, <1>7

(* For every index, header and refusal, a widen serves all it can be asked  *)
(* to, in the smallest entry not loaded that does, and is only made when    *)
(* the loaded entries do not claim what is missing; and the session it      *)
(* boots is never widened again for that header, whichever of its modules   *)
(* the kernel then refuses (widenTarget).                                   *)
THEOREM WidenIsFinal ==
  ASSUME NEW index, AnIndex(index), NEW missing, NEW loaded, NEW modules
  PROVE  LET target == widenTarget(index, missing, loaded, modules)
             serves(e) == missing \cup (Beyond(index, modules) \cap Claimed(index)) \subseteq e.roots
             claimed == InitModules \cup RootsOf(index, Base \cup loaded)
         IN  \/ /\ target = <<>>
                /\ missing \subseteq claimed \/ \A j \in DOMAIN index : index[j].name \in loaded \/ ~serves(index[j])
             \/ \E k \in DOMAIN index :
                  /\ target = <<index[k]>> /\ index[k].name \notin loaded /\ serves(index[k])
                  /\ ~(missing \subseteq claimed)
                  /\ \A j \in DOMAIN index : index[j].name \notin loaded /\ serves(index[j]) =>
                       index[k].bytes <= index[j].bytes /\ (index[k].bytes = index[j].bytes => k <= j)
                  /\ \A refused \in SUBSET modules :
                       widenTarget(index, refused, Base \cup {index[k].name}, modules) = <<>>
<1> DEFINE target == widenTarget(index, missing, loaded, modules)
           serves(e) == missing \cup (Beyond(index, modules) \cap Claimed(index)) \subseteq e.roots
           claimed == InitModules \cup RootsOf(index, Base \cup loaded)
           rivals == {k \in DOMAIN index : index[k].name \notin loaded /\ serves(index[k])}
           best == {k \in rivals : \A j \in rivals \ {k} : Smaller(index, k, j)}
<1>1. PICK n \in Nat : DOMAIN index = 1..n /\ \A k \in 1..n : index[k].bytes \in Nat
  BY DEF AnIndex
<1>2. target = IF missing \subseteq claimed \/ best = {} THEN <<>> ELSE <<index[CHOOSE k \in best : TRUE]>>
  BY DEF widenTarget, Required
<1>3. CASE missing \subseteq claimed
  BY <1>2, <1>3
<1>4. CASE rivals = {}
  BY <1>2, <1>4
<1>5. CASE ~(missing \subseteq claimed) /\ rivals # {}
  <2> DEFINE c == [k \in rivals |-> 0]
             b == [k \in rivals |-> index[k].bytes]
  <2>1. rivals \in SUBSET (1..n) /\ rivals # {} /\ c \in [rivals -> Nat] /\ b \in [rivals -> Nat]
    BY <1>1, <1>5
  <2>2. PICK k \in rivals : \A j \in rivals \ {k} :
          c[k] > c[j] \/ (c[k] = c[j] /\ (b[k] < b[j] \/ (b[k] = b[j] /\ k < j)))
    <3>1. \A R \in SUBSET (1..n) : R # {} => \A x, y \in [R -> Nat] : \E k \in R : \A j \in R \ {k} :
            x[k] > x[j] \/ (x[k] = x[j] /\ (y[k] < y[j] \/ (y[k] = y[j] /\ k < j)))
      BY <1>1, BestOne
    <3> HIDE DEF c, b, rivals
    <3> QED BY <2>1, <3>1
  <2>3. \A j \in rivals : c[j] = 0 /\ b[j] = index[j].bytes
    OBVIOUS
  <2>4. \A j \in rivals \ {k} : Smaller(index, k, j)
    <3>1. k \in rivals
      OBVIOUS
    <3> HIDE DEF c, b, rivals
    <3> QED BY <2>2, <2>3, <3>1 DEF Smaller
  <2>5. best = {k}
    <3>1. ASSUME NEW j \in best, j # k PROVE FALSE
      <4>1. Smaller(index, j, k) /\ Smaller(index, k, j) /\ j \in 1..n /\ k \in 1..n
        BY <1>1, <2>4, <3>1
      <4> QED BY <1>1, <4>1 DEF Smaller
    <3> QED BY <2>4, <3>1
  <2>6. target = <<index[k]>>
    BY <1>2, <1>5, <2>5
  <2>7. \A j \in rivals : index[k].bytes <= index[j].bytes /\ (index[k].bytes = index[j].bytes => k <= j)
    <3>1. ASSUME NEW j \in rivals
          PROVE  index[k].bytes <= index[j].bytes /\ (index[k].bytes = index[j].bytes => k <= j)
      <4>1. j \in 1..n /\ k \in 1..n /\ index[j].bytes \in Nat /\ index[k].bytes \in Nat
        BY <1>1
      <4>2. j = k \/ Smaller(index, k, j)
        BY <2>4
      <4> HIDE DEF rivals
      <4> QED BY <4>1, <4>2 DEF Smaller
    <3> QED BY <3>1
  <2>8. ASSUME NEW refused \in SUBSET modules
        PROVE  widenTarget(index, refused, Base \cup {index[k].name}, modules) = <<>>
    <3> DEFINE kept == Base \cup {index[k].name}
               next == {j \in DOMAIN index : /\ index[j].name \notin kept
                                             /\ Required(index, refused, modules) \subseteq index[j].roots}
    <3>1. CASE next = {}
      BY <3>1 DEF widenTarget
    <3>2. CASE next # {}
      <4>1. PICK j \in DOMAIN index : refused \subseteq index[j].roots
        BY <3>2 DEF Required
      <4>2. refused \subseteq Claimed(index)
        BY <4>1, ClaimedBy
      <4>3. Beyond(index, modules) \cap Claimed(index) \subseteq index[k].roots
        OBVIOUS
      <4>4. index[k].roots \subseteq RootsOf(index, Base \cup kept) /\ RootsOf(index, Base) \subseteq RootsOf(index, Base \cup kept)
        BY DEF RootsOf, Named, ToSet
      <4>5. refused \subseteq InitModules \cup RootsOf(index, Base \cup kept)
        BY <4>2, <4>3, <4>4 DEF Beyond
      <4> QED BY <4>5 DEF widenTarget
    <3> QED BY <3>1, <3>2
  <2> QED BY <1>5, <2>6, <2>7, <2>8
<1> QED BY <1>3, <1>4, <1>5

(* For every index, the commit a session asks for is above nothing and      *)
(* never above the cap, covers what any loaded entry declares within it,    *)
(* and is no more than one of them declares, or the default                 *)
(* (initialBytesForEntries).                                                *)
THEOREM CommitIsBounded ==
  ASSUME NEW index, AnIndex(index), NEW names
  PROVE  LET bytes == initialBytesForEntries(index, names)
         IN  /\ bytes \in 1..Cap
             /\ \A e \in Named(index, names) : e.initialBytes <= Cap => bytes >= e.initialBytes
             /\ \/ \E e \in Named(index, names) : bytes <= e.initialBytes
                \/ bytes = IF names \subseteq Base THEN 1 ELSE 8
<1> DEFINE bytes == initialBytesForEntries(index, names)
           some == {k \in DOMAIN index : index[k].name \in names /\ index[k].initialBytes # 0}
           declared == {e.initialBytes : e \in Named(index, names)} \ {0}
<1>1. PICK n \in Nat : DOMAIN index = 1..n /\ \A k \in 1..n : index[k].initialBytes \in Nat
  BY DEF AnIndex
<1>2. declared = {index[k].initialBytes : k \in some}
  BY DEF Named, ToSet
<1>3. \A e \in Named(index, names) : e.initialBytes \in Nat /\ (e.initialBytes # 0 => e.initialBytes \in declared)
  BY <1>1 DEF Named, ToSet
<1>4. CASE some = {}
  <2>1. declared = {}
    BY <1>2, <1>4
  <2>2. bytes = IF names \subseteq Base THEN 1 ELSE 8
    BY <2>1 DEF initialBytesForEntries
  <2>3. \A e \in Named(index, names) : e.initialBytes = 0
    BY <1>3, <2>1
  <2> QED BY <2>2, <2>3 DEF Cap
<1>5. CASE some # {}
  <2> DEFINE c == [k \in some |-> index[k].initialBytes]
  <2>1. some \in SUBSET (1..n) /\ some # {} /\ c \in [some -> Nat]
    BY <1>1, <1>5
  <2>2. PICK k \in some : \A j \in some \ {k} : c[k] > c[j] \/ c[k] = c[j]
    <3>1. \A R \in SUBSET (1..n) : R # {} => \A x, y \in [R -> Nat] : \E k \in R : \A j \in R \ {k} :
            x[k] > x[j] \/ (x[k] = x[j] /\ (y[k] < y[j] \/ (y[k] = y[j] /\ k < j)))
      BY <1>1, BestOne
    <3> HIDE DEF c, some
    <3> QED BY <2>1, <3>1
  <2> DEFINE m == index[k].initialBytes
  <2>3. m \in declared /\ m \in Nat /\ m > 0 /\ \A x \in declared : x \in Nat /\ m >= x
    <3>1. m \in Nat /\ m # 0 /\ m \in declared
      BY <1>1, <1>2
    <3>2. ASSUME NEW j \in some PROVE index[j].initialBytes \in Nat /\ m >= index[j].initialBytes
      <4>1. j = k \/ c[k] > c[j] \/ c[k] = c[j]
        BY <2>2
      <4>2. c[j] = index[j].initialBytes /\ c[k] = m /\ c[j] \in Nat
        BY <1>1
      <4> HIDE DEF c
      <4> QED BY <3>1, <4>1, <4>2
    <3> QED BY <1>2, <3>1, <3>2
  <2> HIDE DEF m
  <2>4. Max(declared) = m
    <3> HIDE DEF declared
    <3>1. m \in declared /\ \A x \in declared : m >= x
      BY <2>3
    <3>2. Max(declared) \in declared /\ \A x \in declared : Max(declared) >= x
      BY <3>1, Zenon DEF Max
    <3>3. Max(declared) \in Nat /\ Max(declared) >= m /\ m >= Max(declared)
      BY <2>3, <3>2
    <3> QED BY <2>3, <3>3
  <2>5. bytes = Min({Cap, m}) /\ declared # {}
    BY <2>3, <2>4 DEF initialBytesForEntries
  <2>6. bytes = IF m <= Cap THEN m ELSE Cap
    BY <2>3, <2>5 DEF Min, Cap
  <2>7. \E e \in Named(index, names) : e.initialBytes = m
    BY <2>3
  <2>8. bytes \in 1..Cap /\ bytes <= m
    BY <2>3, <2>6 DEF Cap
  <2>9. \A e \in Named(index, names) : e.initialBytes <= Cap => bytes >= e.initialBytes
    <3>1. ASSUME NEW e \in Named(index, names), e.initialBytes <= Cap PROVE bytes >= e.initialBytes
      <4>1. e.initialBytes \in Nat /\ m >= e.initialBytes
        BY <1>3, <2>3
      <4> QED BY <2>3, <2>6, <3>1, <4>1 DEF Cap
    <3> QED BY <3>1
  <2> QED BY <2>7, <2>8, <2>9
<1> QED BY <1>4, <1>5

-----------------------------------------------------------------------------
(* The widget sources (WidgetSources.tla), for any requests of any hashes.  *)
(* Requests, hashes and what is answered.                                   *)
SaidOf(hashOf)    == [id : DOMAIN hashOf, body : [kind : {"result", "error", "cancelled"}, source : Nat]]
FlightOf(hashOf)  == [hash : {hashOf[id] : id \in DOMAIN hashOf}, session : Nat, leader : DOMAIN hashOf,
                      waiters : Seq(DOMAIN hashOf), listed : BOOLEAN]
SourceOf(hashOf)  == [hash : {hashOf[id] : id \in DOMAIN hashOf}, source : Nat]
SourcesOf(hashOf) == [sessionOf : Nat, cache : SUBSET SourceOf(hashOf), flights : SUBSET FlightOf(hashOf)]
PageOf(hashOf)    == [s : SourcesOf(hashOf), session : Nat, asked : [DOMAIN hashOf -> Nat],
                      handed : SUBSET DOMAIN hashOf, said : Seq(SaidOf(hashOf))]

Waits(F, id)   == \E f \in F : \E i \in DOMAIN f.waiters : f.waiters[i] = id
Heard(said, id) == \E i \in DOMAIN said : said[i].id = id

(* The cache is of one session, with one source of a hash.                  *)
CacheIs(s, current) ==
  /\ s.sessionOf <= current
  /\ \A c \in s.cache : c.source = s.sessionOf
  /\ \A c, d \in s.cache : c.hash = d.hash => c = d

(* The requests the relay has lead the flights, one each.                   *)
LeadersIs(F, hashOf, asked, handed) ==
  /\ \A f \in F : f.leader \in handed /\ asked[f.leader] = f.session /\ hashOf[f.leader] = f.hash
  /\ \A f, g \in F : f.leader = g.leader => f = g
  /\ \A id \in handed : \E f \in F : f.leader = id

(* A waiter waits once, for a leader of its own session and hash.           *)
WaitersIs(F, hashOf, asked, handed) ==
  /\ \A f \in F : \A i \in DOMAIN f.waiters :
       asked[f.waiters[i]] = f.session /\ hashOf[f.waiters[i]] = f.hash /\ f.waiters[i] \notin handed
  /\ \A f, g \in F : \A i \in DOMAIN f.waiters, j \in DOMAIN g.waiters : f.waiters[i] = g.waiters[j] => f = g /\ i = j

(* One session has one flight of a hash; an unlisted one is an older one's. *)
FlightsIs(F, current) ==
  /\ \A f \in F : f.session \in 1..current /\ (~f.listed => f.session < current)
  /\ \A f, g \in F : f.hash = g.hash /\ (f.session = g.session \/ (f.listed /\ g.listed)) => f = g

(* Nobody is answered before asking, or twice, or while still waiting, or   *)
(* with another session's source.                                           *)
AnswersIs(said, F, asked, handed) ==
  /\ \A i \in DOMAIN said :
       /\ asked[said[i].id] # 0 /\ said[i].id \notin handed /\ ~Waits(F, said[i].id)
       /\ said[i].body.kind = "result" => said[i].body.source = asked[said[i].id]
  /\ \A i, j \in DOMAIN said : said[i].id = said[j].id => i = j

WInv(p, hashOf) ==
  /\ p \in PageOf(hashOf)
  /\ \A id \in DOMAIN hashOf : p.asked[id] <= p.session
  /\ p.session # 0
  /\ CacheIs(p.s, p.session)
  /\ LeadersIs(p.s.flights, hashOf, p.asked, p.handed)
  /\ WaitersIs(p.s.flights, hashOf, p.asked, p.handed)
  /\ FlightsIs(p.s.flights, p.session)
  /\ AnswersIs(p.said, p.s.flights, p.asked, p.handed)
  /\ \A id \in Made(p) : id \in p.handed \/ Waits(p.s.flights, id) \/ Heard(p.said, id)

(* What may be answered in one more step, after which G are in flight, the  *)
(* requests were asked in next and the relay has given.                     *)
MayBeSaid(hashOf, said, rs, F, G, asked, next, handed, given) ==
  /\ said \in Seq(SaidOf(hashOf)) /\ rs \in Seq(SaidOf(hashOf)) /\ AnswersIs(said, F, asked, handed)
  /\ \A i \in DOMAIN said : /\ said[i].id \notin given /\ ~Waits(G, said[i].id)
                            /\ next[said[i].id] = asked[said[i].id]
  /\ \A i \in DOMAIN rs : /\ next[rs[i].id] # 0 /\ rs[i].id \notin given /\ ~Waits(G, rs[i].id)
                          /\ rs[i].body.kind = "result" => rs[i].body.source = next[rs[i].id]
                          /\ ~Heard(said, rs[i].id)
  /\ \A i, j \in DOMAIN rs : rs[i].id = rs[j].id => i = j

(* And what is so then.                                                     *)
LEMMA SaysMore ==
  ASSUME NEW hashOf, NEW said, NEW rs, NEW F, NEW G, NEW asked, NEW next, NEW handed, NEW given,
         MayBeSaid(hashOf, said, rs, F, G, asked, next, handed, given)
  PROVE  /\ said \o rs \in Seq(SaidOf(hashOf))
         /\ AnswersIs(said \o rs, G, next, given)
         /\ \A id : Heard(said \o rs, id) <=> Heard(said, id) \/ Heard(rs, id)
<1> USE DEF MayBeSaid
<1> DEFINE all == said \o rs
<1>1. all \in Seq(SaidOf(hashOf)) /\ Len(all) = Len(said) + Len(rs)
  OBVIOUS
<1>2. /\ DOMAIN all = 1..(Len(said) + Len(rs)) /\ DOMAIN said = 1..Len(said) /\ DOMAIN rs = 1..Len(rs)
      /\ Len(said) \in Nat /\ Len(rs) \in Nat
  BY <1>1
<1>3. /\ \A i \in DOMAIN said : i \in DOMAIN all /\ all[i] = said[i]
      /\ \A i \in DOMAIN rs : Len(said) + i \in DOMAIN all /\ all[Len(said) + i] = rs[i]
  BY <1>2
<1>4. \A i \in DOMAIN all : \/ i \in DOMAIN said /\ all[i] = said[i]
                            \/ i - Len(said) \in DOMAIN rs /\ all[i] = rs[i - Len(said)]
  BY <1>2
<1>5. ASSUME NEW id PROVE Heard(all, id) <=> Heard(said, id) \/ Heard(rs, id)
  <2> HIDE DEF all
  <2> QED BY <1>3, <1>4 DEF Heard
<1>6. \A i, j \in DOMAIN all : all[i].id = all[j].id => i = j
  <2> SUFFICES ASSUME NEW i \in DOMAIN all, NEW j \in DOMAIN all, all[i].id = all[j].id PROVE i = j
    OBVIOUS
  <2> HIDE DEF all
  <2>1. i \in Int /\ j \in Int
    BY <1>2
  <2>2. CASE i \in DOMAIN said /\ all[i] = said[i] /\ j \in DOMAIN said /\ all[j] = said[j]
    BY <2>2 DEF AnswersIs
  <2>3. CASE i \in DOMAIN said /\ all[i] = said[i] /\ j - Len(said) \in DOMAIN rs /\ all[j] = rs[j - Len(said)]
    BY <2>3 DEF Heard
  <2>4. CASE i - Len(said) \in DOMAIN rs /\ all[i] = rs[i - Len(said)] /\ j \in DOMAIN said /\ all[j] = said[j]
    BY <2>4 DEF Heard
  <2>5. CASE /\ i - Len(said) \in DOMAIN rs /\ all[i] = rs[i - Len(said)]
             /\ j - Len(said) \in DOMAIN rs /\ all[j] = rs[j - Len(said)]
    <3>1. i - Len(said) = j - Len(said)
      BY <2>5
    <3> QED BY <1>2, <2>1, <3>1
  <2> QED BY <1>4, <2>2, <2>3, <2>4, <2>5
<1>7. \A i \in DOMAIN all :
        /\ next[all[i].id] # 0 /\ all[i].id \notin given /\ ~Waits(G, all[i].id)
        /\ all[i].body.kind = "result" => all[i].body.source = next[all[i].id]
  <2> HIDE DEF all
  <2> QED BY <1>4 DEF AnswersIs
<1> QED BY <1>1, <1>5, <1>6, <1>7 DEF AnswersIs

(* A session's cache is empty, or what it was.                              *)
LEMMA SessionCacheIs ==
  ASSUME NEW hashOf, NEW s \in SourcesOf(hashOf), NEW current \in Nat, CacheIs(s, current)
  PROVE  LET n == sessionCache(s, current)
         IN  /\ n \in SourcesOf(hashOf) /\ CacheIs(n, current) /\ n.flights = s.flights
             /\ n.sessionOf = current
<1>1. CASE current = s.sessionOf
  BY <1>1 DEF sessionCache
<1>2. CASE current # s.sessionOf
  <2> DEFINE n == [s EXCEPT !.sessionOf = current, !.cache = {}]
  <2>1. sessionCache(s, current) = n
    BY <1>2 DEF sessionCache
  <2>2. n \in SourcesOf(hashOf)
    BY DEF SourcesOf
  <2>3. n.flights = s.flights /\ n.sessionOf = current /\ n.cache = {}
    BY DEF SourcesOf
  <2> QED BY <2>1, <2>2, <2>3 DEF CacheIs
<1> QED BY <1>1, <1>2

(* A sequence of one set's one element.                                     *)
LEMMA OneOf ==
  ASSUME NEW x
  PROVE  SetToSeq({x}) = <<x>>
<1>1. Cardinality({x}) = 1
  BY FS_Singleton
<1>2. <<x>> \in [1..1 -> {x}]
  BY SMT
<1>3. IsInjective(<<x>>)
  BY DEF IsInjective
<1>4. \A f \in [1..1 -> {x}] : f = <<x>>
  BY SMT
<1> QED BY <1>1, <1>2, <1>3, <1>4 DEF SetToSeq

(* A page's record, part by part.                                           *)
PartsAre(n, hashOf, s, current, asked, handed, said) ==
  /\ n \in PageOf(hashOf)
  /\ n.s = s /\ n.session = current /\ n.asked = asked /\ n.handed = handed /\ n.said = said

(* What a step took.                                                        *)
LEMMA TookIs ==
  ASSUME NEW hashOf, NEW p \in PageOf(hashOf), NEW s \in SourcesOf(hashOf), NEW rs, NEW relayed \in SUBSET DOMAIN hashOf,
         p.said \o rs \in Seq(SaidOf(hashOf))
  PROVE  PartsAre(Took(p, Step(s, rs, relayed)), hashOf, s, p.session, p.asked, p.handed \cup relayed, p.said \o rs)
<1> DEFINE st == Step(s, rs, relayed)
           said == p.said \o rs
           n == [p EXCEPT !.s = s, !.said = said, !.handed = p.handed \cup relayed]
<1>1. Took(p, st) = n
  <2>1. st.s = s /\ st.replies = rs /\ st.relayed = relayed
    BY DEF Step
  <2> HIDE DEF st
  <2> QED BY <2>1 DEF Took
<1> HIDE DEF said, st
<1>2. n \in PageOf(hashOf)
  BY DEF PageOf, said
<1>3. /\ n.s = s /\ n.session = p.session /\ n.asked = p.asked /\ n.handed = p.handed \cup relayed
      /\ n.said = said
  BY DEF PageOf
<1> HIDE DEF n
<1> QED BY <1>1, <1>2, <1>3 DEF said, st, PartsAre

(* The same, for the request that was asked.                                *)
LEMMA AskedIs ==
  ASSUME NEW hashOf, NEW p \in PageOf(hashOf), NEW id \in DOMAIN hashOf,
         NEW s \in SourcesOf(hashOf), NEW rs, NEW relayed \in SUBSET DOMAIN hashOf,
         p.said \o rs \in Seq(SaidOf(hashOf))
  PROVE  PartsAre([Took(p, Step(s, rs, relayed)) EXCEPT !.asked[id] = p.session], hashOf,
                  s, p.session, [p.asked EXCEPT ![id] = p.session], p.handed \cup relayed, p.said \o rs)
<1> DEFINE took == Took(p, Step(s, rs, relayed))
           n == [took EXCEPT !.asked[id] = p.session]
<1>1. /\ took \in PageOf(hashOf)
      /\ took.s = s /\ took.session = p.session /\ took.asked = p.asked /\ took.handed = p.handed \cup relayed
      /\ took.said = p.said \o rs
  BY TookIs DEF PartsAre
<1>2. p.session \in Nat
  BY DEF PageOf
<1> HIDE DEF took
<1>3. n \in PageOf(hashOf)
  BY <1>1, <1>2 DEF PageOf
<1>4. /\ n.s = took.s /\ n.session = took.session /\ n.asked = [took.asked EXCEPT ![id] = p.session]
      /\ n.handed = took.handed /\ n.said = took.said
  BY <1>1 DEF PageOf
<1> HIDE DEF n
<1> QED BY <1>1, <1>3, <1>4 DEF n, took, PartsAre

(* One that is renewed keeps its leader.                                    *)
LEMMA LeadersKept ==
  ASSUME NEW hashOf, NEW F, NEW U, NEW asked, NEW next, NEW handed,
         LeadersIs(F, hashOf, asked, handed), \A id \in handed : next[id] = asked[id],
         \A f \in F : U[f].hash = f.hash /\ U[f].session = f.session /\ U[f].leader = f.leader
  PROVE  LeadersIs({U[f] : f \in F}, hashOf, next, handed)
BY DEF LeadersIs

(* And the flights stay one of a session and hash.                          *)
LEMMA FlightsKept ==
  ASSUME NEW F, NEW U, NEW current, FlightsIs(F, current),
         \A f \in F : /\ U[f].hash = f.hash /\ U[f].session = f.session
                      /\ U[f].listed => f.listed
                      /\ U[f].listed \/ ~f.listed \/ f.session < current
  PROVE  FlightsIs({U[f] : f \in F}, current)
BY DEF FlightsIs

(* What asking may leave: s2, with the replies rs, and the relay given more. *)
MayAsk(hashOf, p, id, s2, rs, relayed) ==
  LET next  == [p.asked EXCEPT ![id] = p.session]
      given == p.handed \cup relayed
  IN  /\ s2 \in SourcesOf(hashOf) /\ rs \in Seq(SaidOf(hashOf)) /\ relayed \in SUBSET DOMAIN hashOf
      /\ CacheIs(s2, p.session) /\ LeadersIs(s2.flights, hashOf, next, given)
      /\ WaitersIs(s2.flights, hashOf, next, given) /\ FlightsIs(s2.flights, p.session)
      /\ \A i \in DOMAIN p.said : p.said[i].id \notin relayed /\ ~Waits(s2.flights, p.said[i].id)
      /\ \A i \in DOMAIN rs : /\ rs[i].id = id /\ id \notin relayed /\ ~Waits(s2.flights, id) /\ i = 1
                              /\ rs[i].body.kind = "result" => rs[i].body.source = p.session
      /\ \A i : Waits(p.s.flights, i) => Waits(s2.flights, i)
      /\ id \in relayed \/ Waits(s2.flights, id) \/ Heard(rs, id)

(* A first request goes to the relay, one that is not the first waits, one  *)
(* whose source is known is answered (interceptIn).                         *)
LEMMA AsksWInv ==
  ASSUME NEW hashOf, NEW p, WInv(p, hashOf), NEW id \in DOMAIN p.asked, id \notin Made(p)
  PROVE  WInv(asks(p, hashOf, id), hashOf)
<1> DEFINE h == hashOf[id]
           s == sessionCache(p.s, p.session)
           F == p.s.flights
           cached == {c \in s.cache : c.hash = h}
           joined == {f \in listed(s, h) : f.session = p.session}
           flight == [hash |-> h, session |-> p.session, leader |-> id, waiters |-> <<>>, listed |-> TRUE]
           asked2 == [p.asked EXCEPT ![id] = p.session]
           n == asks(p, hashOf, id)
<1>1. /\ p \in PageOf(hashOf) /\ p.s \in SourcesOf(hashOf) /\ p.session \in Nat \ {0}
      /\ DOMAIN p.asked = DOMAIN hashOf /\ p.asked \in [DOMAIN hashOf -> Nat] /\ p.handed \in SUBSET DOMAIN hashOf
      /\ p.said \in Seq(SaidOf(hashOf)) /\ F \in SUBSET FlightOf(hashOf)
  BY DEF WInv, PageOf, SourcesOf
<1>2. /\ s \in SourcesOf(hashOf) /\ CacheIs(s, p.session) /\ s.flights = F /\ s.sessionOf = p.session
  BY <1>1, SessionCacheIs DEF WInv
<1>3. /\ id \in DOMAIN hashOf /\ p.asked[id] = 0 /\ h \in {hashOf[i] : i \in DOMAIN hashOf}
  BY <1>1 DEF Made
<1>4. /\ id \notin p.handed /\ ~Waits(F, id) /\ ~Heard(p.said, id)
  <2>1. \A f \in F : f.session # 0
    BY <1>1 DEF WInv, FlightsIs
  <2>2. id \notin p.handed
    BY <2>1, <1>3 DEF WInv, LeadersIs
  <2>3. ~Waits(F, id)
    BY <2>1, <1>3 DEF WInv, WaitersIs, Waits
  <2> QED BY <1>3, <2>2, <2>3 DEF WInv, AnswersIs, Heard
<1>5. /\ asked2 \in [DOMAIN hashOf -> Nat] /\ asked2[id] = p.session
      /\ \A i \in DOMAIN hashOf : i # id => asked2[i] = p.asked[i]
      /\ \A i \in DOMAIN hashOf : asked2[i] <= p.session
  BY <1>1, <1>3 DEF WInv
<1>6. \A i \in DOMAIN p.said : /\ p.said[i].id \in DOMAIN hashOf /\ p.said[i].id # id
                               /\ p.said[i].id \notin p.handed /\ ~Waits(F, p.said[i].id)
                               /\ asked2[p.said[i].id] = p.asked[p.said[i].id]
  <2> SUFFICES ASSUME NEW i \in DOMAIN p.said
               PROVE  /\ p.said[i].id \in DOMAIN hashOf /\ p.said[i].id # id
                      /\ p.said[i].id \notin p.handed /\ ~Waits(F, p.said[i].id)
                      /\ asked2[p.said[i].id] = p.asked[p.said[i].id]
    OBVIOUS
  <2>1. p.said[i] \in SaidOf(hashOf)
    BY <1>1
  <2>2. p.said[i].id \in DOMAIN hashOf /\ p.said[i].id # id
    BY <2>1, <1>4 DEF SaidOf, Heard
  <2> QED BY <2>2, <1>5 DEF WInv, AnswersIs
<1>7. /\ AnswersIs(p.said, F, p.asked, p.handed) /\ LeadersIs(F, hashOf, p.asked, p.handed)
      /\ WaitersIs(F, hashOf, p.asked, p.handed) /\ FlightsIs(F, p.session)
  BY DEF WInv
<1>8. ASSUME NEW s2, NEW rs, NEW relayed, MayAsk(hashOf, p, id, s2, rs, relayed),
             n = [Took(p, Step(s2, rs, relayed)) EXCEPT !.asked[id] = p.session]
      PROVE  WInv(n, hashOf)
  <2>6. /\ s2 \in SourcesOf(hashOf) /\ rs \in Seq(SaidOf(hashOf)) /\ relayed \in SUBSET DOMAIN hashOf
        /\ CacheIs(s2, p.session) /\ LeadersIs(s2.flights, hashOf, asked2, p.handed \cup relayed)
        /\ WaitersIs(s2.flights, hashOf, asked2, p.handed \cup relayed) /\ FlightsIs(s2.flights, p.session)
        /\ \A i \in DOMAIN p.said : p.said[i].id \notin relayed /\ ~Waits(s2.flights, p.said[i].id)
        /\ \A i \in DOMAIN rs : /\ rs[i].id = id /\ id \notin relayed /\ ~Waits(s2.flights, id) /\ i = 1
                                /\ rs[i].body.kind = "result" => rs[i].body.source = p.session
        /\ \A i : Waits(F, i) => Waits(s2.flights, i)
        /\ id \in relayed \/ Waits(s2.flights, id) \/ Heard(rs, id)
    BY <1>8 DEF MayAsk
  <2> HIDE DEF n, asked2, F, s
  <2>1. /\ p.said \o rs \in Seq(SaidOf(hashOf)) /\ AnswersIs(p.said \o rs, s2.flights, asked2, p.handed \cup relayed)
        /\ \A i : Heard(p.said \o rs, i) <=> Heard(p.said, i) \/ Heard(rs, i)
    <3>1. \A i \in DOMAIN p.said :
             /\ p.said[i].id \notin p.handed \cup relayed /\ ~Waits(s2.flights, p.said[i].id)
             /\ asked2[p.said[i].id] = p.asked[p.said[i].id]
      BY <1>6, <2>6
    <3>2. \A i \in DOMAIN rs : /\ asked2[rs[i].id] # 0 /\ rs[i].id \notin p.handed \cup relayed /\ ~Waits(s2.flights, rs[i].id)
                               /\ rs[i].body.kind = "result" => rs[i].body.source = asked2[rs[i].id]
                               /\ ~Heard(p.said, rs[i].id)
      BY <1>1, <1>4, <1>5, <2>6
    <3>3. \A i, j \in DOMAIN rs : rs[i].id = rs[j].id => i = j
      BY <2>6
    <3>4. MayBeSaid(hashOf, p.said, rs, F, s2.flights, p.asked, asked2, p.handed, p.handed \cup relayed)
      BY <1>1, <1>7, <2>6, <3>1, <3>2, <3>3 DEF MayBeSaid
    <3> QED BY <3>4, SaysMore
  <2>2. /\ n \in PageOf(hashOf)
        /\ n.s = s2 /\ n.session = p.session /\ n.asked = asked2
        /\ n.handed = p.handed \cup relayed /\ n.said = p.said \o rs
    <3>1. PartsAre([Took(p, Step(s2, rs, relayed)) EXCEPT !.asked[id] = p.session], hashOf,
                   s2, p.session, [p.asked EXCEPT ![id] = p.session], p.handed \cup relayed, p.said \o rs)
      BY <1>1, <1>3, <2>1, <2>6, AskedIs
    <3> QED BY <1>8, <3>1 DEF asked2, PartsAre
  <2>3. \A i \in Made(n) : i \in n.handed \/ Waits(n.s.flights, i) \/ Heard(n.said, i)
    <3> SUFFICES ASSUME NEW i \in Made(n) PROVE i \in n.handed \/ Waits(n.s.flights, i) \/ Heard(n.said, i)
      OBVIOUS
    <3>1. i \in DOMAIN hashOf /\ asked2[i] # 0
      BY <2>2, <1>5 DEF Made
    <3>2. CASE i = id
      BY <3>2, <2>6, <2>1, <2>2
    <3>3. CASE i # id
      <4>1. i \in Made(p)
        BY <3>1, <3>3, <1>1, <1>5 DEF Made
      <4>2. i \in p.handed \/ Waits(F, i) \/ Heard(p.said, i)
        BY <4>1 DEF WInv, F
      <4> QED BY <4>2, <2>6, <2>1, <2>2
    <3> QED BY <3>2, <3>3
  <2>4. \A i \in DOMAIN hashOf : n.asked[i] <= n.session
    BY <1>5, <2>2
  <2>5. /\ n.session # 0 /\ CacheIs(n.s, n.session) /\ LeadersIs(n.s.flights, hashOf, n.asked, n.handed)
        /\ WaitersIs(n.s.flights, hashOf, n.asked, n.handed) /\ FlightsIs(n.s.flights, n.session)
        /\ AnswersIs(n.said, n.s.flights, n.asked, n.handed)
    BY <1>1, <2>6, <2>1, <2>2
  <2> QED BY <2>2, <2>3, <2>4, <2>5 DEF WInv
<1>9. <<>> \in Seq(SaidOf(hashOf)) /\ {} \in SUBSET DOMAIN hashOf /\ {id} \in SUBSET DOMAIN hashOf
  BY <1>3
<1>10. \A i \in p.handed : asked2[i] = p.asked[i]
  BY <1>1, <1>4, <1>5
<1>11. \A f \in F : \A i \in DOMAIN f.waiters : f.waiters[i] \in DOMAIN hashOf /\ f.waiters[i] # id
  BY <1>1, <1>4 DEF FlightOf, Waits
<1>12. CASE cached # {}
  <2>1. PICK c \in cached : TRUE
    BY <1>12
  <2>2. cached = {c} /\ c.source = p.session
    BY <1>2, <2>1 DEF CacheIs
  <2> DEFINE r == reply(id, Sourced(c.source))
  <2>3. {reply(id, Sourced(d.source)) : d \in cached} = {r}
    BY <2>2
  <2>4. n = [Took(p, Step(s, <<r>>, {})) EXCEPT !.asked[id] = p.session]
    <3>1. SetToSeq({reply(id, Sourced(d.source)) : d \in cached}) = <<r>>
      BY <2>3, OneOf
    <3> QED BY <1>12, <3>1 DEF asks, interceptIn
  <2>5. r \in SaidOf(hashOf) /\ r.id = id /\ r.body.source = p.session
    BY <1>1, <1>3, <2>2 DEF reply, Sourced, SaidOf
  <2> HIDE DEF r
  <2>6. <<r>> \in Seq(SaidOf(hashOf)) /\ DOMAIN <<r>> = {1} /\ <<r>>[1] = r
    BY <2>5
  <2>7. Heard(<<r>>, id)
    BY <2>5, <2>6 DEF Heard
  <2>8. LeadersIs(s.flights, hashOf, asked2, p.handed \cup {})
    BY <1>2, <1>7, <1>10 DEF LeadersIs
  <2>9. WaitersIs(s.flights, hashOf, asked2, p.handed \cup {})
    BY <1>2, <1>5, <1>7, <1>11 DEF WaitersIs
  <2>10. MayAsk(hashOf, p, id, s, <<r>>, {})
    <3> HIDE DEF s
    <3> QED BY <1>2, <1>4, <1>6, <1>7, <1>9, <2>5, <2>6, <2>7, <2>8, <2>9 DEF MayAsk
  <2> QED BY <1>8, <2>4, <2>10
<1>13. CASE cached = {} /\ joined # {}
  <2>1. PICK f \in joined : TRUE
    BY <1>13
  <2>2. f \in F /\ f.listed /\ f.hash = h /\ f.session = p.session
    BY <1>2, <2>1 DEF listed
  <2>3. joined = {f}
    BY <1>2, <1>7, <2>1, <2>2 DEF listed, FlightsIs
  <2> DEFINE f2 == [f EXCEPT !.waiters = Append(@, id)]
             U == [g \in F |-> IF g = f THEN f2 ELSE g]
             G == {U[g] : g \in F}
             s2 == [s EXCEPT !.flights = G]
  <2>4. /\ f2 \in FlightOf(hashOf) /\ f2.hash = f.hash /\ f2.session = f.session /\ f2.leader = f.leader
        /\ f2.listed = f.listed /\ f2.waiters = Append(f.waiters, id)
    <3>1. f \in FlightOf(hashOf) /\ Append(f.waiters, id) \in Seq(DOMAIN hashOf)
      BY <1>1, <1>3, <2>2 DEF FlightOf
    <3> DEFINE ws == Append(f.waiters, id)
    <3> HIDE DEF ws
    <3> QED BY <3>1 DEF FlightOf, ws
  <2>5. /\ f.waiters \in Seq(DOMAIN hashOf) /\ DOMAIN f2.waiters = 1..(Len(f.waiters) + 1)
        /\ DOMAIN f.waiters = 1..Len(f.waiters) /\ Len(f.waiters) \in Nat
        /\ f2.waiters[Len(f.waiters) + 1] = id
        /\ \A i \in DOMAIN f.waiters : f2.waiters[i] = f.waiters[i]
    <3>1. f.waiters \in Seq(DOMAIN hashOf)
      BY <1>1, <2>2 DEF FlightOf
    <3> HIDE DEF f2
    <3> QED BY <1>3, <2>4, <3>1
  <2>6. Swap(s, joined, {[g EXCEPT !.waiters = Append(@, id)] : g \in joined}) = s2
    <3>1. (F \ joined) \cup {[g EXCEPT !.waiters = Append(@, id)] : g \in joined} = G
      BY <2>2, <2>3
    <3> QED BY <1>2, <3>1 DEF Swap
  <2>7. n = [Took(p, Step(s2, <<>>, {})) EXCEPT !.asked[id] = p.session]
    BY <1>13, <2>6 DEF asks, interceptIn
  <2>8. \A g \in F : /\ U[g] \in FlightOf(hashOf) /\ U[g].hash = g.hash /\ U[g].session = g.session
                     /\ U[g].leader = g.leader /\ U[g].listed = g.listed
    BY <1>1, <2>4
  <2>9. s2 \in SourcesOf(hashOf) /\ s2.flights = G /\ CacheIs(s2, p.session)
    <3>1. G \in SUBSET FlightOf(hashOf)
      BY <2>8
    <3> HIDE DEF G
    <3>2. s2 \in SourcesOf(hashOf) /\ s2.flights = G /\ s2.cache = s.cache /\ s2.sessionOf = s.sessionOf
      BY <1>2, <3>1 DEF SourcesOf
    <3> QED BY <1>2, <3>2 DEF CacheIs
  <2>10. LeadersIs(G, hashOf, asked2, p.handed)
    <3> HIDE DEF U, asked2, F
    <3> QED BY <1>7, <1>10, <2>8, LeadersKept
  <2>11. FlightsIs(G, p.session)
    <3> HIDE DEF U, F
    <3> QED BY <1>7, <2>8, FlightsKept
  <2>12. \A g \in F : \A i \in DOMAIN U[g].waiters :
           \/ i \in DOMAIN g.waiters /\ U[g].waiters[i] = g.waiters[i]
           \/ g = f /\ i = Len(f.waiters) + 1 /\ U[g].waiters[i] = id
    BY <2>5
  <2>13. WaitersIs(G, hashOf, asked2, p.handed)
    <3> HIDE DEF U, F, asked2
    <3>1. \A g \in F : \A i \in DOMAIN U[g].waiters :
            /\ asked2[U[g].waiters[i]] = U[g].session /\ hashOf[U[g].waiters[i]] = U[g].hash
            /\ U[g].waiters[i] \notin p.handed
      BY <1>4, <1>5, <1>7, <1>11, <2>2, <2>8, <2>12 DEF WaitersIs
    <3>2. \A g, k \in F : \A i \in DOMAIN U[g].waiters, j \in DOMAIN U[k].waiters :
            U[g].waiters[i] = U[k].waiters[j] => g = k /\ i = j
      BY <1>7, <1>11, <2>12 DEF WaitersIs
    <3> QED BY <3>1, <3>2 DEF WaitersIs
  <2>14. \A i : Waits(G, i) <=> Waits(F, i) \/ i = id
    <3> SUFFICES ASSUME NEW i PROVE Waits(G, i) <=> Waits(F, i) \/ i = id
      OBVIOUS
    <3>1. Waits(G, i) => Waits(F, i) \/ i = id
      <4> HIDE DEF U, F
      <4> QED BY <2>12 DEF Waits
    <3>2. \A g \in F : \A k \in DOMAIN g.waiters : k \in DOMAIN U[g].waiters /\ U[g].waiters[k] = g.waiters[k]
      BY <2>5
    <3>3. Waits(F, i) => Waits(G, i)
      <4> HIDE DEF U, F
      <4> QED BY <3>2 DEF Waits
    <3>4. Waits(G, id)
      <4>1. U[f] \in G /\ U[f] = f2
        BY <2>2
      <4>2. Len(f.waiters) + 1 \in DOMAIN f2.waiters
        BY <2>5
      <4> HIDE DEF U, G, f2
      <4> QED BY <4>1, <4>2, <2>5 DEF Waits
    <3> QED BY <3>1, <3>3, <3>4
  <2>15. p.handed \cup {} = p.handed /\ DOMAIN <<>> = {}
    OBVIOUS
  <2>16. MayAsk(hashOf, p, id, s2, <<>>, {})
    <3> HIDE DEF G, s2
    <3> QED BY <1>6, <1>9, <2>9, <2>10, <2>11, <2>13, <2>14, <2>15 DEF MayAsk
  <2> HIDE DEF s2
  <2> QED BY <1>8, <2>7, <2>16
<1>14. CASE cached = {} /\ joined = {}
  <2> DEFINE L == listed(s, h)
             U == [g \in F |-> IF g \in L THEN [g EXCEPT !.listed = FALSE] ELSE g]
             G == {U[g] : g \in F}
             s2 == [s EXCEPT !.flights = G \cup {flight}]
  <2>1. L = {g \in F : g.listed /\ g.hash = h} /\ \A g \in L : g.session # p.session
    BY <1>2, <1>14 DEF listed
  <2>2. \A g \in F : /\ U[g] \in FlightOf(hashOf) /\ U[g].hash = g.hash /\ U[g].session = g.session
                     /\ U[g].leader = g.leader /\ U[g].waiters = g.waiters
                     /\ U[g].listed = (g.listed /\ g.hash # h)
    <3> SUFFICES ASSUME NEW g \in F
                 PROVE  /\ U[g] \in FlightOf(hashOf) /\ U[g].hash = g.hash /\ U[g].session = g.session
                        /\ U[g].leader = g.leader /\ U[g].waiters = g.waiters
                        /\ U[g].listed = (g.listed /\ g.hash # h)
      OBVIOUS
    <3>1. g \in FlightOf(hashOf)
      BY <1>1
    <3>2. CASE g \in L
      <4>1. U[g] = [g EXCEPT !.listed = FALSE]
        BY <3>2
      <4> HIDE DEF U
      <4> QED BY <2>1, <3>1, <3>2, <4>1 DEF FlightOf
    <3>3. CASE g \notin L
      BY <2>1, <3>1, <3>3 DEF FlightOf
    <3> QED BY <3>2, <3>3
  <2>3. Swap(s, L, {[g EXCEPT !.listed = FALSE] : g \in L} \cup {flight}) = s2
    <3>1. (F \ L) \cup ({[g EXCEPT !.listed = FALSE] : g \in L} \cup {flight}) = G \cup {flight}
      BY <2>1
    <3> QED BY <1>2, <3>1 DEF Swap
  <2>4. n = [Took(p, Step(s2, <<>>, {id})) EXCEPT !.asked[id] = p.session]
    BY <1>14, <2>3 DEF asks, interceptIn
  <2>5. /\ flight \in FlightOf(hashOf) /\ flight.hash = h /\ flight.session = p.session /\ flight.leader = id
        /\ flight.listed /\ DOMAIN flight.waiters = {}
    BY <1>1, <1>3 DEF FlightOf
  <2>6. s2 \in SourcesOf(hashOf) /\ s2.flights = G \cup {flight} /\ CacheIs(s2, p.session)
    <3>1. G \cup {flight} \in SUBSET FlightOf(hashOf)
      <4> HIDE DEF U, flight
      <4> QED BY <2>2, <2>5
    <3> DEFINE H == G \cup {flight}
    <3> HIDE DEF H
    <3>2. s2 \in SourcesOf(hashOf) /\ s2.flights = H /\ s2.cache = s.cache /\ s2.sessionOf = s.sessionOf
      BY <1>2, <3>1 DEF SourcesOf, H
    <3> QED BY <1>2, <3>2 DEF CacheIs, H
  <2>7. LeadersIs(G, hashOf, asked2, p.handed) /\ FlightsIs(G, p.session)
    <3>1. \A g \in F : ~U[g].listed /\ g.listed => g.session < p.session
      BY <1>1, <1>7, <2>1, <2>2 DEF FlightsIs
    <3>2. \A g \in F : (U[g].listed => g.listed) /\ (U[g].listed \/ ~g.listed \/ g.session < p.session)
      BY <2>2, <3>1
    <3> HIDE DEF U, asked2, F
    <3>3. LeadersIs(G, hashOf, asked2, p.handed)
      BY <1>7, <1>10, <2>2, LeadersKept
    <3>4. FlightsIs(G, p.session)
      BY <1>7, <2>2, <3>2, FlightsKept
    <3> QED BY <3>3, <3>4
  <2>8. WaitersIs(G, hashOf, asked2, p.handed)
    <3> HIDE DEF U, asked2, F
    <3> QED BY <1>5, <1>7, <1>11, <2>2 DEF WaitersIs
  <2>9. \A g \in G : /\ g.hash = h => ~g.listed /\ g.session # p.session
                     /\ \A i \in DOMAIN g.waiters : g.waiters[i] # id
    <3>1. \A g \in F : g.hash = h => g.session # p.session
      <4>1. \A g \in F : g.session = p.session => g.listed
        BY <1>1, <1>7 DEF FlightsIs
      <4> QED BY <2>1, <4>1
    <3> HIDE DEF F
    <3>2. \A g \in F : /\ U[g].hash = h => ~U[g].listed /\ U[g].session # p.session
                       /\ \A i \in DOMAIN U[g].waiters : U[g].waiters[i] # id
      <4> HIDE DEF U, h
      <4>1. \A g \in F : U[g].hash = h => ~U[g].listed /\ U[g].session # p.session
        BY <2>2, <3>1
      <4>2. \A g \in F : \A i \in DOMAIN U[g].waiters : U[g].waiters[i] # id
        BY <1>11, <2>2
      <4> QED BY <4>1, <4>2
    <3> QED BY <3>2
  <2>10. \A i : Waits(G \cup {flight}, i) <=> Waits(F, i)
    <3> HIDE DEF U, F, flight
    <3> QED BY <2>2, <2>5 DEF Waits
  <2> HIDE DEF G, L, U, flight
  <2>11. LeadersIs(G \cup {flight}, hashOf, asked2, p.handed \cup {id})
    <3> HIDE DEF asked2
    <3> QED BY <1>4, <1>5, <2>5, <2>7 DEF LeadersIs
  <2>12. FlightsIs(G \cup {flight}, p.session)
    BY <1>1, <2>5, <2>7, <2>9 DEF FlightsIs
  <2>13. WaitersIs(G \cup {flight}, hashOf, asked2, p.handed \cup {id})
    <3> HIDE DEF asked2
    <3> QED BY <2>5, <2>8, <2>9 DEF WaitersIs
  <2>14. MayAsk(hashOf, p, id, s2, <<>>, {id})
    <3> HIDE DEF s2
    <3>1. DOMAIN <<>> = {}
      OBVIOUS
    <3> QED BY <1>4, <1>6, <1>9, <2>6, <2>10, <2>11, <2>12, <2>13, <3>1 DEF MayAsk
  <2> HIDE DEF s2
  <2> QED BY <1>8, <2>4, <2>14
<1> QED BY <1>12, <1>13, <1>14

(* A sequence without the first x in it.                                    *)
LEMMA RemoveFirstIs ==
  ASSUME NEW S, NEW ws \in Seq(S), NEW k \in DOMAIN ws, \A i, j \in DOMAIN ws : ws[i] = ws[j] => i = j
  PROVE  LET ns == RemoveFirst(ws, ws[k])
         IN  /\ ns \in Seq(S) /\ Len(ns) = Len(ws) - 1
             /\ \A i \in DOMAIN ns : IF i < k THEN ns[i] = ws[i] ELSE i + 1 \in DOMAIN ws /\ ns[i] = ws[i + 1]
             /\ \A i \in DOMAIN ws : i < k => i \in DOMAIN ns
             /\ \A i \in DOMAIN ws : i > k => i - 1 \in DOMAIN ns
<1>1. DOMAIN ws = 1..Len(ws) /\ Len(ws) \in Nat /\ k \in 1..Len(ws)
  OBVIOUS
<1>2. {i \in 1..Len(ws) : ws[i] = ws[k]} = {k}
  BY <1>1
<1>3. SelectInSeq(ws, LAMBDA v : v = ws[k]) = k
  <2>1. Min({k}) = k
    BY <1>1 DEF Min
  <2> QED BY <1>2, <2>1 DEF SelectInSeq
<1>4. RemoveFirst(ws, ws[k]) = SubSeq(ws, 1, k - 1) \o SubSeq(ws, k + 1, Len(ws))
  BY <1>1, <1>3 DEF RemoveFirst, RemoveAt
<1> DEFINE u == SubSeq(ws, 1, k - 1)
           v == SubSeq(ws, k + 1, Len(ws))
<1>5. u \in Seq(S) /\ Len(u) = k - 1 /\ \A i \in 1..(k - 1) : u[i] = ws[i]
  BY <1>1
<1>6. v \in Seq(S) /\ Len(v) = Len(ws) - k /\ \A i \in 1..(Len(ws) - k) : v[i] = ws[k + i]
  <2>1. k + 1 \in 1..(Len(ws) + 1) /\ Len(ws) \in k..Len(ws)
    BY <1>1
  <2>2. \A i \in (k + 1)..Len(ws) : ws[i] \in S
    BY <1>1
  <2>3. v \in Seq(S) /\ Len(v) = Len(ws) - k
    BY <1>1, <2>2
  <2>4. \A i \in 1..(Len(ws) - k) : v[i] = ws[k + i]
    BY <1>1
  <2> QED BY <2>3, <2>4
<1> HIDE DEF u, v
<1>7. /\ u \o v \in Seq(S) /\ Len(u \o v) = Len(ws) - 1
      /\ \A i \in 1..(Len(ws) - 1) : (u \o v)[i] = IF i < k THEN ws[i] ELSE ws[i + 1]
  <2>1. Len(u \o v) = Len(u) + Len(v) /\ u \o v \in Seq(S)
    BY <1>5, <1>6
  <2>2. \A i \in 1..(Len(u) + Len(v)) : (u \o v)[i] = IF i <= Len(u) THEN u[i] ELSE v[i - Len(u)]
    <3>1. u \in Seq(S) /\ v \in Seq(S)
      BY <1>5, <1>6
    <3> QED BY ONLY <3>1, ConcatProperties
  <2>3. \A i \in 1..(Len(ws) - 1) : i <= Len(u) <=> i < k
    BY <1>1, <1>5
  <2>4. \A i \in 1..(Len(ws) - 1) : i < k => (u \o v)[i] = ws[i]
    BY <1>1, <1>5, <1>6, <2>2
  <2>5. \A i \in 1..(Len(ws) - 1) : ~(i < k) => (u \o v)[i] = ws[i + 1]
    <3> SUFFICES ASSUME NEW i \in 1..(Len(ws) - 1), ~(i < k) PROVE (u \o v)[i] = ws[i + 1]
      OBVIOUS
    <3>1. (u \o v)[i] = v[i - Len(u)] /\ i - Len(u) \in 1..(Len(ws) - k) /\ k + (i - Len(u)) = i + 1
      <4>1. i \in 1..(Len(u) + Len(v)) /\ ~(i <= Len(u)) /\ i - Len(u) \in 1..(Len(ws) - k) /\ k + (i - Len(u)) = i + 1
        BY <1>1, <1>5, <1>6
      <4> QED BY <2>2, <4>1
    <3> QED BY <1>6, <3>1
  <2> QED BY <1>1, <1>5, <1>6, <2>1, <2>4, <2>5
<1>8. DOMAIN (u \o v) = 1..(Len(ws) - 1)
  BY <1>7
<1> DEFINE ns == u \o v
<1>9. RemoveFirst(ws, ws[k]) = ns
  BY <1>4 DEF u, v
<1>10. /\ ns \in Seq(S) /\ Len(ns) = Len(ws) - 1 /\ DOMAIN ns = 1..(Len(ws) - 1)
       /\ \A i \in 1..(Len(ws) - 1) : ns[i] = IF i < k THEN ws[i] ELSE ws[i + 1]
  BY <1>7, <1>8
<1> HIDE DEF ns
<1>11. \A i \in DOMAIN ns : IF i < k THEN ns[i] = ws[i] ELSE i + 1 \in DOMAIN ws /\ ns[i] = ws[i + 1]
  BY <1>1, <1>10
<1>12. \A i \in DOMAIN ws : (i < k => i \in DOMAIN ns) /\ (i > k => i - 1 \in DOMAIN ns)
  BY <1>1, <1>10
<1> QED BY <1>9, <1>10, <1>11, <1>12

(* The parts of a page that is as it must be.                               *)
GoodParts(hashOf, s, current, asked, handed, said) ==
  /\ CacheIs(s, current) /\ LeadersIs(s.flights, hashOf, asked, handed) /\ WaitersIs(s.flights, hashOf, asked, handed)
  /\ FlightsIs(s.flights, current) /\ AnswersIs(said, s.flights, asked, handed)
  /\ \A id \in DOMAIN hashOf : /\ asked[id] <= current
                               /\ asked[id] # 0 => id \in handed \/ Waits(s.flights, id) \/ Heard(said, id)

(* And a page of such parts.                                                *)
LEMMA OfGoodParts ==
  ASSUME NEW hashOf, NEW n, NEW s, NEW current, NEW asked, NEW handed, NEW said, current # 0,
         PartsAre(n, hashOf, s, current, asked, handed, said), GoodParts(hashOf, s, current, asked, handed, said)
  PROVE  WInv(n, hashOf)
<1>1. /\ n \in PageOf(hashOf) /\ n.s = s /\ n.session = current /\ n.asked = asked /\ n.handed = handed /\ n.said = said
      /\ DOMAIN n.asked = DOMAIN hashOf
  BY DEF PartsAre, PageOf
<1> QED BY <1>1 DEF WInv, GoodParts, Made

(* What a step took, but for what the relay has.                            *)
LEMMA CancelledIs ==
  ASSUME NEW hashOf, NEW p \in PageOf(hashOf), NEW s \in SourcesOf(hashOf), NEW rs, NEW relayed \in SUBSET DOMAIN hashOf,
         p.said \o rs \in Seq(SaidOf(hashOf))
  PROVE  PartsAre([Took(p, Step(s, rs, relayed)) EXCEPT !.handed = p.handed], hashOf,
                  s, p.session, p.asked, p.handed, p.said \o rs)
<1> DEFINE took == Took(p, Step(s, rs, relayed))
           n == [took EXCEPT !.handed = p.handed]
<1>1. /\ took \in PageOf(hashOf)
      /\ took.s = s /\ took.session = p.session /\ took.asked = p.asked /\ took.said = p.said \o rs
  BY TookIs DEF PartsAre
<1>2. p.handed \in SUBSET DOMAIN hashOf
  BY DEF PageOf
<1> HIDE DEF took
<1>3. n \in PageOf(hashOf)
  BY <1>1, <1>2 DEF PageOf
<1>4. /\ n.s = took.s /\ n.session = took.session /\ n.asked = took.asked
      /\ n.handed = p.handed /\ n.said = took.said
  BY <1>1 DEF PageOf
<1> HIDE DEF n
<1> QED BY <1>1, <1>3, <1>4 DEF n, took, PartsAre

(* A waiter that is cancelled is answered so (interceptCancel).             *)
LEMMA CancelsWInv ==
  ASSUME NEW hashOf, NEW p, WInv(p, hashOf), NEW id \in Made(p)
  PROVE  WInv(cancels(p, id), hashOf)
<1> DEFINE F == p.s.flights
           left == waitedBy(p.s, id)
           n == cancels(p, id)
<1>1. /\ p \in PageOf(hashOf) /\ p.s \in SourcesOf(hashOf) /\ p.session \in Nat \ {0}
      /\ DOMAIN p.asked = DOMAIN hashOf /\ p.asked \in [DOMAIN hashOf -> Nat] /\ p.handed \in SUBSET DOMAIN hashOf
      /\ p.said \in Seq(SaidOf(hashOf)) /\ F \in SUBSET FlightOf(hashOf)
  BY DEF WInv, PageOf, SourcesOf
<1>2. id \in DOMAIN hashOf /\ p.asked[id] # 0
  BY <1>1 DEF Made
<1>3. GoodParts(hashOf, p.s, p.session, p.asked, p.handed, p.said)
  BY <1>1 DEF WInv, GoodParts, Made
<1>4. CASE left = {}
  <2>1. n = [Took(p, Step(p.s, <<>>, {id})) EXCEPT !.handed = p.handed]
    BY <1>4 DEF cancels, interceptCancel
  <2>2. p.said \o <<>> = p.said
    BY <1>1
  <2>3. PartsAre(n, hashOf, p.s, p.session, p.asked, p.handed, p.said)
    <3>1. {id} \in SUBSET DOMAIN hashOf /\ p.said \o <<>> \in Seq(SaidOf(hashOf))
      BY <1>1, <1>2, <2>2
    <3>2. PartsAre([Took(p, Step(p.s, <<>>, {id})) EXCEPT !.handed = p.handed], hashOf,
                   p.s, p.session, p.asked, p.handed, p.said \o <<>>)
      BY <1>1, <3>1, CancelledIs
    <3> HIDE DEF n
    <3> QED BY <2>1, <2>2, <3>2
  <2> QED BY <1>1, <1>3, <2>3, OfGoodParts
<1>5. CASE left # {}
  <2>1. PICK f \in left : TRUE
    BY <1>5
  <2>2. f \in F /\ f.listed /\ \E i \in DOMAIN f.waiters : f.waiters[i] = id
    BY <2>1 DEF waitedBy, ToSet
  <2>3. PICK k \in DOMAIN f.waiters : f.waiters[k] = id
    BY <2>2
  <2>4. left = {f}
    <3>1. ASSUME NEW g \in left PROVE g = f
      <4>1. g \in F /\ \E i \in DOMAIN g.waiters : g.waiters[i] = id
        BY DEF waitedBy, ToSet
      <4> QED BY <1>3, <2>2, <2>3, <4>1 DEF GoodParts, WaitersIs
    <3> QED BY <2>1, <3>1
  <2> DEFINE ws == RemoveFirst(f.waiters, id)
             f2 == [f EXCEPT !.waiters = RemoveFirst(@, id)]
             U == [g \in F |-> IF g = f THEN f2 ELSE g]
             G == {U[g] : g \in F}
             s2 == [p.s EXCEPT !.flights = G]
             r == reply(id, Erred("cancelled"))
  <2>5. \A i, j \in DOMAIN f.waiters : f.waiters[i] = f.waiters[j] => i = j
    BY <1>3, <2>2 DEF GoodParts, WaitersIs
  <2>6. f \in FlightOf(hashOf) /\ f.waiters \in Seq(DOMAIN hashOf)
    BY <1>1, <2>2 DEF FlightOf
  <2>7. /\ ws \in Seq(DOMAIN hashOf) /\ Len(ws) = Len(f.waiters) - 1
        /\ \A i \in DOMAIN ws : IF i < k THEN ws[i] = f.waiters[i] ELSE i + 1 \in DOMAIN f.waiters /\ ws[i] = f.waiters[i + 1]
        /\ \A i \in DOMAIN f.waiters : i < k => i \in DOMAIN ws
        /\ \A i \in DOMAIN f.waiters : i > k => i - 1 \in DOMAIN ws
    BY <2>3, <2>5, <2>6, RemoveFirstIs, SMTT(30)
  <2>8. /\ f2 \in FlightOf(hashOf) /\ f2.hash = f.hash /\ f2.session = f.session /\ f2.leader = f.leader
        /\ f2.listed = f.listed /\ f2.waiters = ws
    <3> HIDE DEF ws
    <3>1. f2 = [f EXCEPT !.waiters = ws]
      BY DEF ws
    <3> HIDE DEF f2
    <3> QED BY <2>6, <2>7, <3>1 DEF FlightOf
  <2> HIDE DEF ws
  <2>9. /\ DOMAIN f.waiters = 1..Len(f.waiters) /\ DOMAIN ws = 1..Len(ws) /\ Len(ws) \in Nat
        /\ k \in 1..Len(f.waiters) /\ Len(f.waiters) \in Nat
    BY <2>3, <2>6, <2>7
  <2>10. /\ \A i \in DOMAIN ws : ws[i] # id /\ \E j \in DOMAIN f.waiters : ws[i] = f.waiters[j]
         /\ \A i, j \in DOMAIN ws : ws[i] = ws[j] => i = j
         /\ \A j \in DOMAIN f.waiters : j # k => \E i \in DOMAIN ws : ws[i] = f.waiters[j]
    <3>1. \A i \in DOMAIN ws : ws[i] # id /\ \E j \in DOMAIN f.waiters : ws[i] = f.waiters[j]
      <4> SUFFICES ASSUME NEW i \in DOMAIN ws PROVE ws[i] # id /\ \E j \in DOMAIN f.waiters : ws[i] = f.waiters[j]
        OBVIOUS
      <4>1. CASE i < k
        <5>1. i \in DOMAIN f.waiters /\ i # k
          BY <2>9, <4>1
        <5> QED BY <2>3, <2>5, <2>7, <4>1, <5>1
      <4>2. CASE ~(i < k)
        <5>1. i + 1 # k
          BY <2>9, <4>2
        <5> QED BY <2>3, <2>5, <2>7, <4>2, <5>1
      <4> QED BY <4>1, <4>2
    <3>2. ASSUME NEW i \in DOMAIN ws, NEW j \in DOMAIN ws, ws[i] = ws[j] PROVE i = j
      <4> DEFINE a == IF i < k THEN i ELSE i + 1
                 b == IF j < k THEN j ELSE j + 1
      <4>1. /\ a \in DOMAIN f.waiters /\ ws[i] = f.waiters[a]
            /\ b \in DOMAIN f.waiters /\ ws[j] = f.waiters[b]
        <5>1. \A x \in DOMAIN ws : x < k => x \in DOMAIN f.waiters
          BY <2>7, <2>9
        <5> QED BY <2>7, <5>1
      <4>2. a = b
        <5> HIDE DEF a, b
        <5> QED BY <2>5, <3>2, <4>1
      <4> QED BY <2>9, <4>2
    <3>3. ASSUME NEW j \in DOMAIN f.waiters, j # k PROVE \E i \in DOMAIN ws : ws[i] = f.waiters[j]
      <4>1. CASE j < k
        BY <2>7, <4>1
      <4>2. CASE j > k
        <5>1. j - 1 \in DOMAIN ws /\ ~(j - 1 < k) /\ (j - 1) + 1 = j
          BY <2>7, <2>9, <4>2
        <5> QED BY <2>7, <5>1
      <4> QED BY <2>9, <3>3, <4>1, <4>2
    <3> QED BY <3>1, <3>2, <3>3
  <2>11. n = [Took(p, Step(s2, <<r>>, {})) EXCEPT !.handed = p.handed]
    <3>1. (F \ left) \cup {[g EXCEPT !.waiters = RemoveFirst(@, id)] : g \in left} = G
      BY <2>2, <2>4
    <3>2. Swap(p.s, left, {[g EXCEPT !.waiters = RemoveFirst(@, id)] : g \in left}) = s2
      BY <3>1 DEF Swap
    <3> QED BY <1>5, <3>2 DEF cancels, interceptCancel
  <2>12. \A g \in F : /\ U[g] \in FlightOf(hashOf) /\ U[g].hash = g.hash /\ U[g].session = g.session
                      /\ U[g].leader = g.leader /\ U[g].listed = g.listed
                      /\ U[g].waiters = IF g = f THEN ws ELSE g.waiters
    <3> HIDE DEF f2
    <3> QED BY <1>1, <2>8
  <2> HIDE DEF f2, U
  <2>13. s2 \in SourcesOf(hashOf) /\ s2.flights = G /\ CacheIs(s2, p.session)
    <3>1. G \in SUBSET FlightOf(hashOf)
      BY <2>12
    <3> HIDE DEF G
    <3>2. s2 \in SourcesOf(hashOf) /\ s2.flights = G /\ s2.cache = p.s.cache /\ s2.sessionOf = p.s.sessionOf
      BY <1>1, <3>1 DEF SourcesOf
    <3> QED BY <1>3, <3>2 DEF CacheIs, GoodParts
  <2>14. LeadersIs(G, hashOf, p.asked, p.handed)
    <3> HIDE DEF F
    <3> QED BY <1>3, <2>12, LeadersKept DEF GoodParts, F
  <2>15. FlightsIs(G, p.session)
    <3> HIDE DEF F
    <3> QED BY <1>3, <2>12, FlightsKept DEF GoodParts, F
  <2>16. WaitersIs(G, hashOf, p.asked, p.handed)
    <3>1. WaitersIs(F, hashOf, p.asked, p.handed)
      BY <1>3 DEF GoodParts
    <3> HIDE DEF F
    <3> QED BY <2>2, <2>10, <2>12, <3>1 DEF WaitersIs
  <2>17. \A i : Waits(G, i) <=> Waits(F, i) /\ i # id
    <3>1. WaitersIs(F, hashOf, p.asked, p.handed)
      BY <1>3 DEF GoodParts
    <3> HIDE DEF F
    <3>2. ASSUME NEW i, Waits(G, i) PROVE Waits(F, i) /\ i # id
      BY <2>2, <2>3, <2>10, <2>12, <3>1, <3>2 DEF Waits, WaitersIs
    <3>3. ASSUME NEW i, Waits(F, i), i # id PROVE Waits(G, i)
      BY <2>2, <2>3, <2>10, <2>12, <3>3 DEF Waits
    <3> QED BY <3>2, <3>3
  <2>18. r \in SaidOf(hashOf) /\ r.id = id /\ r.body.kind # "result"
    BY <1>2 DEF reply, Erred, SaidOf
  <2> HIDE DEF r, G, s2, F
  <2>19. <<r>> \in Seq(SaidOf(hashOf)) /\ DOMAIN <<r>> = {1} /\ <<r>>[1] = r
    BY <2>18
  <2>20. id \notin p.handed /\ ~Heard(p.said, id) /\ Waits(F, id)
    <3>1. Waits(F, id)
      BY <2>2, <2>3 DEF Waits, F
    <3> QED BY <1>3, <3>1 DEF GoodParts, WaitersIs, AnswersIs, Waits, Heard, F
  <2>21. MayBeSaid(hashOf, p.said, <<r>>, F, G, p.asked, p.asked, p.handed, p.handed)
    <3>1. AnswersIs(p.said, F, p.asked, p.handed)
      BY <1>3 DEF GoodParts, F
    <3> QED BY <1>1, <1>2, <2>17, <2>18, <2>19, <2>20, <3>1 DEF MayBeSaid, AnswersIs
  <2>22. /\ p.said \o <<r>> \in Seq(SaidOf(hashOf)) /\ AnswersIs(p.said \o <<r>>, G, p.asked, p.handed)
         /\ \A i : Heard(p.said \o <<r>>, i) <=> Heard(p.said, i) \/ Heard(<<r>>, i)
    BY <2>21, SaysMore
  <2>23. Heard(<<r>>, id)
    BY <2>18, <2>19 DEF Heard
  <2>24. GoodParts(hashOf, s2, p.session, p.asked, p.handed, p.said \o <<r>>)
    BY <1>3, <2>13, <2>14, <2>15, <2>16, <2>17, <2>22, <2>23 DEF GoodParts, F
  <2>25. PartsAre(n, hashOf, s2, p.session, p.asked, p.handed, p.said \o <<r>>)
    <3>1. {} \in SUBSET DOMAIN hashOf
      OBVIOUS
    <3>2. PartsAre([Took(p, Step(s2, <<r>>, {})) EXCEPT !.handed = p.handed], hashOf,
                   s2, p.session, p.asked, p.handed, p.said \o <<r>>)
      BY <1>1, <2>13, <2>22, <3>1, CancelledIs
    <3> HIDE DEF n
    <3> QED BY <2>11, <3>2
  <2> QED BY <1>1, <2>24, <2>25, OfGoodParts
<1> QED BY <1>4, <1>5

(* What the relay answers a request: a result of its session, or an error.  *)
Reply(p, id) == {Sourced(p.asked[id]), Erred("error"), Erred("cancelled")}

(* A page whose relay has answered.                                         *)
LEMMA AnsweredIs ==
  ASSUME NEW hashOf, NEW p \in PageOf(hashOf), NEW id \in DOMAIN hashOf, NEW body \in Reply(p, id)
  PROVE  LET r == reply(id, body)
         IN  /\ r \in SaidOf(hashOf) /\ r.id = id /\ r.body = body
             /\ body.kind = "result" => body.source = p.asked[id]
             /\ PartsAre([p EXCEPT !.handed = @ \ {id}, !.said = Append(@, r)], hashOf,
                         p.s, p.session, p.asked, p.handed \ {id}, p.said \o <<r>>)
<1> DEFINE r == reply(id, body)
           said == p.said \o <<r>>
           handed == p.handed \ {id}
           q == [p EXCEPT !.handed = handed, !.said = said]
<1>1. p.asked[id] \in Nat /\ p.said \in Seq(SaidOf(hashOf)) /\ handed \in SUBSET DOMAIN hashOf
  BY DEF PageOf
<1>2. r.id = id /\ r.body = body /\ (body.kind = "result" => body.source = p.asked[id])
  BY DEF reply, Reply, Sourced, Erred
<1>3. r \in SaidOf(hashOf)
  BY <1>1 DEF reply, Reply, Sourced, Erred, SaidOf
<1> HIDE DEF r
<1>4. Append(p.said, r) = said /\ said \in Seq(SaidOf(hashOf))
  BY <1>1, <1>3
<1> HIDE DEF said, handed
<1>5. q \in PageOf(hashOf)
  BY <1>1, <1>4 DEF PageOf
<1>6. q.s = p.s /\ q.session = p.session /\ q.asked = p.asked /\ q.handed = handed /\ q.said = said
  BY DEF PageOf
<1>7. [p EXCEPT !.handed = @ \ {id}, !.said = Append(@, r)] = q
  BY <1>4 DEF handed
<1> HIDE DEF q
<1>8. PartsAre(q, hashOf, p.s, p.session, p.asked, handed, said)
  BY <1>5, <1>6 DEF PartsAre
<1> QED BY <1>2, <1>3, <1>7, <1>8 DEF r, said, handed

(* What the relay answers releases the waiters, with the same answer, or    *)
(* makes the first of them the leader (onOut).                              *)
LEMMA AnswersWInv ==
  ASSUME NEW hashOf, NEW p, WInv(p, hashOf), NEW id \in p.handed, NEW body \in Reply(p, id)
  PROVE  WInv(answers(p, id, body), hashOf)
<1> DEFINE F == p.s.flights
           r == reply(id, body)
           said == p.said \o <<r>>
           handed == p.handed \ {id}
           q == [p EXCEPT !.handed = @ \ {id}, !.said = Append(@, r)]
           n == answers(p, id, body)
<1>1. /\ p \in PageOf(hashOf) /\ p.s \in SourcesOf(hashOf) /\ p.session \in Nat \ {0}
      /\ DOMAIN p.asked = DOMAIN hashOf /\ p.asked \in [DOMAIN hashOf -> Nat] /\ p.handed \in SUBSET DOMAIN hashOf
      /\ p.said \in Seq(SaidOf(hashOf)) /\ F \in SUBSET FlightOf(hashOf)
  BY DEF WInv, PageOf, SourcesOf
<1>2. GoodParts(hashOf, p.s, p.session, p.asked, p.handed, p.said)
  BY <1>1 DEF WInv, GoodParts, Made
<1>3. /\ CacheIs(p.s, p.session) /\ LeadersIs(F, hashOf, p.asked, p.handed) /\ WaitersIs(F, hashOf, p.asked, p.handed)
      /\ FlightsIs(F, p.session) /\ AnswersIs(p.said, F, p.asked, p.handed)
  BY <1>2 DEF GoodParts
<1>4. PICK f \in F : f.leader = id
  BY <1>3 DEF LeadersIs
<1>5. byLeader(p.s, id) = {f}
  BY <1>3, <1>4 DEF byLeader, LeadersIs
<1>6. /\ id \in DOMAIN hashOf /\ p.asked[id] = f.session /\ hashOf[id] = f.hash /\ f.session \in 1..p.session
      /\ f \in FlightOf(hashOf) /\ f.waiters \in Seq(DOMAIN hashOf)
  BY <1>1, <1>3, <1>4 DEF LeadersIs, FlightsIs, FlightOf
<1>7. /\ r \in SaidOf(hashOf) /\ r.id = id /\ r.body = body
      /\ body.kind = "result" => body.source = p.asked[id]
      /\ PartsAre(q, hashOf, p.s, p.session, p.asked, handed, said)
  BY <1>1, <1>6, AnsweredIs
<1>8. q \in PageOf(hashOf) /\ q.s = p.s /\ q.session = p.session /\ q.asked = p.asked /\ q.handed = handed /\ q.said = said
  BY <1>7 DEF PartsAre
<1>9. ASSUME NEW G, NEW given, id \notin given, \A i : Waits(G, i) => Waits(F, i),
             \A i \in given : i \in p.handed \/ Waits(F, i)
      PROVE  /\ said \in Seq(SaidOf(hashOf)) /\ AnswersIs(said, G, p.asked, given)
             /\ \A i : Heard(said, i) <=> Heard(p.said, i) \/ i = id
  <2> HIDE DEF r
  <2>1. <<r>> \in Seq(SaidOf(hashOf)) /\ DOMAIN <<r>> = {1} /\ <<r>>[1] = r
    BY <1>7
  <2>2. ~Waits(F, id) /\ ~Heard(p.said, id)
    BY <1>3 DEF WaitersIs, AnswersIs, Waits, Heard
  <2>3. MayBeSaid(hashOf, p.said, <<r>>, F, G, p.asked, p.asked, p.handed, given)
    <3>1. \A i \in DOMAIN p.said : p.said[i].id \notin given /\ ~Waits(G, p.said[i].id)
      BY <1>3, <1>9 DEF AnswersIs
    <3>2. p.asked[id] # 0
      BY <1>6
    <3> HIDE DEF F
    <3> QED BY <1>1, <1>3, <1>7, <1>9, <2>1, <2>2, <3>1, <3>2 DEF MayBeSaid
  <2>4. \A i : Heard(<<r>>, i) <=> i = id
    BY <1>7, <2>1 DEF Heard
  <2>5. /\ p.said \o <<r>> \in Seq(SaidOf(hashOf))
        /\ AnswersIs(p.said \o <<r>>, G, p.asked, given)
        /\ \A i : Heard(p.said \o <<r>>, i) <=> Heard(p.said, i) \/ Heard(<<r>>, i)
    <3> HIDE DEF F
    <3> QED BY <2>3, SaysMore
  <2> QED BY <2>4, <2>5
<1>10. n = Took(q, onOut(p.s, p.session, id, body))
  BY DEF answers
<1>11. handed \in SUBSET DOMAIN hashOf
  BY <1>1
<1> HIDE DEF F, q, n, said, handed
<1>12. CASE body.kind = "cancelled" /\ f.waiters # <<>> /\ f.session = p.session
  <2> DEFINE w == f.waiters[1]
             next == [f EXCEPT !.leader = w, !.waiters = Tail(@)]
             U == [g \in F |-> IF g = f THEN next ELSE g]
             G == {U[g] : g \in F}
             s2 == [p.s EXCEPT !.flights = G]
  <2>1. /\ DOMAIN f.waiters = 1..Len(f.waiters) /\ Len(f.waiters) \in Nat \ {0} /\ 1 \in DOMAIN f.waiters
        /\ w \in DOMAIN hashOf
    BY <1>6, <1>12
  <2>2. /\ Tail(f.waiters) \in Seq(DOMAIN hashOf) /\ DOMAIN Tail(f.waiters) = 1..(Len(f.waiters) - 1)
        /\ \A i \in DOMAIN Tail(f.waiters) : Tail(f.waiters)[i] = f.waiters[i + 1] /\ i + 1 \in DOMAIN f.waiters /\ i + 1 # 1
    <3> DEFINE ws == Tail(f.waiters)
    <3>1. ws \in Seq(DOMAIN hashOf) /\ Len(ws) = Len(f.waiters) - 1 /\ \A i \in 1..Len(ws) : ws[i] = f.waiters[i + 1]
      BY <1>6, <1>12, HeadTailProperties
    <3> HIDE DEF ws
    <3>2. DOMAIN ws = 1..(Len(f.waiters) - 1)
      BY <3>1
    <3>3. \A i \in DOMAIN ws : i + 1 \in DOMAIN f.waiters /\ i + 1 # 1
      BY <2>1, <3>2
    <3> QED BY <3>1, <3>2, <3>3 DEF ws
  <2>3. /\ next \in FlightOf(hashOf) /\ next.hash = f.hash /\ next.session = f.session /\ next.leader = w
        /\ next.listed = f.listed /\ next.waiters = Tail(f.waiters)
    <3> DEFINE ws == Tail(f.waiters)
    <3> HIDE DEF ws, w
    <3> QED BY <1>6, <2>1, <2>2 DEF FlightOf, ws
  <2>4. onOut(p.s, p.session, id, body) = Step(s2, <<>>, {w})
    <3>1. Swap(p.s, {f}, {next}) = s2
      <4>1. (F \ {f}) \cup {next} = G
        BY <1>4
      <4> HIDE DEF G, next
      <4> QED BY <4>1 DEF Swap, F
    <3>2. (CHOOSE g \in byLeader(p.s, id) : TRUE) = f
      BY <1>5
    <3> HIDE DEF G, s2
    <3> QED BY <1>5, <1>12, <2>3, <3>1, <3>2 DEF onOut
  <2>5. \A g \in F : /\ U[g] \in FlightOf(hashOf) /\ U[g].hash = g.hash /\ U[g].session = g.session
                     /\ U[g].leader = (IF g = f THEN w ELSE g.leader) /\ U[g].listed = g.listed
                     /\ U[g].waiters = IF g = f THEN Tail(f.waiters) ELSE g.waiters
    <3> HIDE DEF next, w
    <3> QED BY <1>1, <2>3
  <2>6. /\ Waits(F, w) /\ w \notin p.handed /\ p.asked[w] = f.session /\ hashOf[w] = f.hash
    BY <1>3, <1>4, <2>1 DEF Waits, WaitersIs
  <2> DEFINE ws == Tail(f.waiters)
  <2>7. \A i \in DOMAIN ws : ws[i] # w /\ ws[i] = f.waiters[i + 1] /\ i + 1 \in DOMAIN f.waiters /\ i \in Int
    BY <1>3, <1>4, <2>1, <2>2 DEF WaitersIs
  <2>8. \A j \in DOMAIN f.waiters : f.waiters[j] # w => j - 1 \in DOMAIN ws /\ ws[j - 1] = f.waiters[j]
    BY <2>1, <2>2
  <2> HIDE DEF next, U, w, ws
  <2>9. s2 \in SourcesOf(hashOf) /\ s2.flights = G /\ CacheIs(s2, p.session)
    <3>1. G \in SUBSET FlightOf(hashOf)
      BY <2>5
    <3> HIDE DEF G
    <3>2. s2 \in SourcesOf(hashOf) /\ s2.flights = G /\ s2.cache = p.s.cache /\ s2.sessionOf = p.s.sessionOf
      BY <1>1, <3>1 DEF SourcesOf
    <3> QED BY <1>3, <3>2 DEF CacheIs
  <2> DEFINE given == handed \cup {w}
  <2>10. LeadersIs(G, hashOf, p.asked, given)
    <3>1. \A g \in F : g # f => g.leader # id
      BY <1>3, <1>4 DEF LeadersIs
    <3> QED BY <1>3, <1>4, <2>5, <2>6, <3>1 DEF LeadersIs, handed
  <2>11. FlightsIs(G, p.session)
    BY <1>3, <2>5, FlightsKept
  <2>12. WaitersIs(G, hashOf, p.asked, given)
    <3>1. \A g \in F : \A i \in DOMAIN U[g].waiters :
            /\ U[g].waiters[i] # w
            /\ \E j \in DOMAIN g.waiters : U[g].waiters[i] = g.waiters[j] /\ (j = IF g = f THEN i + 1 ELSE i)
      <4> SUFFICES ASSUME NEW g \in F, NEW i \in DOMAIN U[g].waiters
                   PROVE  /\ U[g].waiters[i] # w
                          /\ \E j \in DOMAIN g.waiters : U[g].waiters[i] = g.waiters[j] /\ (j = IF g = f THEN i + 1 ELSE i)
        OBVIOUS
      <4>1. CASE g = f
        BY <2>5, <2>7, <4>1 DEF ws
      <4>2. CASE g # f
        <5>1. f.waiters[1] = w /\ 1 \in DOMAIN f.waiters
          BY <2>1 DEF w
        <5> QED BY <1>3, <1>4, <2>5, <4>2, <5>1 DEF WaitersIs
      <4> QED BY <4>1, <4>2
    <3>2. ASSUME NEW g \in F, NEW k \in F, NEW i \in DOMAIN U[g].waiters, NEW j \in DOMAIN U[k].waiters,
                 U[g].waiters[i] = U[k].waiters[j]
          PROVE  U[g] = U[k] /\ i = j
      <4>1. g = k
        BY <1>3, <3>1, <3>2 DEF WaitersIs
      <4>2. CASE g = f
        <5>1. i \in DOMAIN ws /\ j \in DOMAIN ws /\ ws[i] = ws[j]
          BY <2>5, <3>2, <4>1, <4>2 DEF ws
        <5>2. i + 1 = j + 1
          BY <1>3, <1>4, <2>7, <5>1 DEF WaitersIs
        <5> QED BY <2>7, <4>1, <5>1, <5>2
      <4>3. CASE g # f
        BY <1>3, <2>5, <3>2, <4>1, <4>3 DEF WaitersIs
      <4> QED BY <4>1, <4>2, <4>3
    <3>3. \A g \in F : \A i \in DOMAIN U[g].waiters :
            /\ p.asked[U[g].waiters[i]] = U[g].session /\ hashOf[U[g].waiters[i]] = U[g].hash
            /\ U[g].waiters[i] \notin given
      BY <1>3, <2>5, <3>1 DEF WaitersIs, handed
    <3> QED BY <3>2, <3>3 DEF WaitersIs
  <2>13. \A i : Waits(G, i) <=> Waits(F, i) /\ i # w
    <3>1. ASSUME NEW i, Waits(G, i) PROVE Waits(F, i) /\ i # w
      <4>1. PICK g \in F : \E k \in DOMAIN U[g].waiters : U[g].waiters[k] = i
        BY <3>1 DEF Waits
      <4>2. CASE g = f
        <5>1. PICK k \in DOMAIN ws : ws[k] = i
          BY <2>5, <4>1, <4>2 DEF ws
        <5> QED BY <1>4, <2>7, <5>1 DEF Waits
      <4>3. CASE g # f
        <5>1. f.waiters[1] = w /\ 1 \in DOMAIN f.waiters
          BY <2>1 DEF w
        <5> QED BY <1>3, <1>4, <2>5, <4>1, <4>3, <5>1 DEF Waits, WaitersIs
      <4> QED BY <4>2, <4>3
    <3>2. ASSUME NEW i, Waits(F, i), i # w PROVE Waits(G, i)
      <4>1. PICK g \in F : \E k \in DOMAIN g.waiters : g.waiters[k] = i
        BY <3>2 DEF Waits
      <4>2. \E k \in DOMAIN U[g].waiters : U[g].waiters[k] = i
        <5>1. CASE g = f
          <6>1. PICK j \in DOMAIN f.waiters : f.waiters[j] = i
            BY <4>1, <5>1
          <6>2. j - 1 \in DOMAIN ws /\ ws[j - 1] = i
            BY <2>8, <3>2, <6>1
          <6> QED BY <2>5, <5>1, <6>2 DEF ws
        <5>2. CASE g # f
          BY <2>5, <4>1, <5>2
        <5> QED BY <5>1, <5>2
      <4>3. U[g] \in G
        OBVIOUS
      <4> HIDE DEF G
      <4> QED BY <4>2, <4>3 DEF Waits
    <3> QED BY <3>1, <3>2
  <2> HIDE DEF G, s2
  <2>14. /\ said \in Seq(SaidOf(hashOf)) /\ AnswersIs(said, G, p.asked, given)
         /\ \A i : Heard(said, i) <=> Heard(p.said, i) \/ i = id
    <3>1. id \notin given
      BY <2>6 DEF handed
    <3> QED BY <1>9, <2>6, <2>13, <3>1 DEF handed
  <2>15. said \o <<>> = said
    BY <2>14
  <2>16. PartsAre(n, hashOf, s2, p.session, p.asked, given, said)
    <3>1. {w} \in SUBSET DOMAIN hashOf
      BY <2>1
    <3>2. PartsAre(Took(q, Step(s2, <<>>, {w})), hashOf, s2, q.session, q.asked, q.handed \cup {w}, q.said \o <<>>)
      BY <1>8, <2>9, <2>14, <2>15, <3>1, TookIs
    <3> QED BY <1>8, <1>10, <2>4, <2>15, <3>2
  <2>17. GoodParts(hashOf, s2, p.session, p.asked, given, said)
    <3>1. \A i \in DOMAIN hashOf : /\ p.asked[i] <= p.session
                                   /\ p.asked[i] # 0 => i \in given \/ Waits(G, i) \/ Heard(said, i)
      BY <1>2, <2>13, <2>14 DEF GoodParts, handed, F
    <3> HIDE DEF given
    <3>2. LeadersIs(s2.flights, hashOf, p.asked, given) /\ WaitersIs(s2.flights, hashOf, p.asked, given)
      BY <2>9, <2>10, <2>12
    <3>3. FlightsIs(s2.flights, p.session) /\ AnswersIs(said, s2.flights, p.asked, given)
      BY <2>9, <2>11, <2>14
    <3>4. \A i \in DOMAIN hashOf : /\ p.asked[i] <= p.session
                                   /\ p.asked[i] # 0 => i \in given \/ Waits(s2.flights, i) \/ Heard(said, i)
      BY <2>9, <3>1
    <3> QED BY <2>9, <3>2, <3>3, <3>4 DEF GoodParts
  <2> QED BY <1>1, <2>16, <2>17, OfGoodParts DEF n
<1>13. CASE ~(body.kind = "cancelled" /\ f.waiters # <<>> /\ f.session = p.session)
  <2> DEFINE G == F \ {f}
             landed == [p.s EXCEPT !.flights = G]
             c == sessionCache(landed, p.session)
             entry == [hash |-> f.hash, source |-> body.source]
             kept == {e \in c.cache : e.hash # f.hash} \cup {entry}
             s2 == IF body.kind = "result" /\ f.session = p.session THEN [c EXCEPT !.cache = kept] ELSE landed
             rs == [i \in DOMAIN f.waiters |-> reply(f.waiters[i], body)]
  <2>1. onOut(p.s, p.session, id, body) = Step(s2, rs, {})
    <3>1. Swap(p.s, {f}, {}) = landed
      <4>1. (F \ {f}) \cup {} = G
        OBVIOUS
      <4> HIDE DEF G
      <4> QED BY <4>1 DEF Swap, F
    <3>2. (CHOOSE g \in byLeader(p.s, id) : TRUE) = f
      BY <1>5
    <3> HIDE DEF G, landed
    <3> QED BY <1>5, <1>13, <3>1, <3>2 DEF onOut
  <2>2. landed \in SourcesOf(hashOf) /\ landed.flights = G /\ CacheIs(landed, p.session)
    <3>1. G \in SUBSET FlightOf(hashOf)
      BY <1>1
    <3> HIDE DEF G
    <3>2. /\ landed \in SourcesOf(hashOf) /\ landed.flights = G /\ landed.cache = p.s.cache
          /\ landed.sessionOf = p.s.sessionOf
      BY <1>1, <3>1 DEF SourcesOf
    <3> QED BY <1>3, <3>2 DEF CacheIs
  <2> HIDE DEF landed, G
  <2>3. s2 \in SourcesOf(hashOf) /\ s2.flights = G /\ CacheIs(s2, p.session)
    <3>1. CASE ~(body.kind = "result" /\ f.session = p.session)
      BY <2>2, <3>1
    <3>2. CASE body.kind = "result" /\ f.session = p.session
      <4>1. c \in SourcesOf(hashOf) /\ CacheIs(c, p.session) /\ c.flights = G /\ c.sessionOf = p.session
        BY <1>1, <2>2, SessionCacheIs
      <4>2. body.source = p.session
        BY <1>6, <1>7, <3>2
      <4> HIDE DEF c
      <4>3. entry \in SourceOf(hashOf) /\ entry.source = p.session /\ entry.hash = f.hash
        BY <1>1, <1>6, <4>2 DEF SourceOf, FlightOf
      <4> HIDE DEF entry
      <4>4. kept \in SUBSET SourceOf(hashOf)
        BY <4>1, <4>3 DEF SourcesOf
      <4>5. /\ \A x \in kept : x.source = p.session
            /\ \A x, y \in kept : x.hash = y.hash => x = y
        BY <4>1, <4>3 DEF CacheIs
      <4> HIDE DEF kept
      <4> DEFINE k2 == [c EXCEPT !.cache = kept]
      <4>6. k2 \in SourcesOf(hashOf) /\ k2.flights = G /\ k2.cache = kept /\ k2.sessionOf = p.session
        BY <4>1, <4>4 DEF SourcesOf
      <4>7. CacheIs(k2, p.session)
        <5> HIDE DEF k2
        <5> QED BY <1>1, <4>5, <4>6 DEF CacheIs
      <4> QED BY <3>2, <4>6, <4>7
    <3> QED BY <3>1, <3>2
  <2> HIDE DEF s2
  <2>4. LeadersIs(G, hashOf, p.asked, handed) /\ FlightsIs(G, p.session) /\ WaitersIs(G, hashOf, p.asked, handed)
    <3>1. LeadersIs(G, hashOf, p.asked, handed)
      BY <1>3, <1>4 DEF LeadersIs, handed, G
    <3>2. FlightsIs(G, p.session)
      BY <1>3 DEF FlightsIs, G
    <3>3. WaitersIs(G, hashOf, p.asked, handed)
      BY <1>3 DEF WaitersIs, handed, G
    <3> QED BY <3>1, <3>2, <3>3
  <2>5. \A i : Waits(F, i) <=> Waits(G, i) \/ \E k \in DOMAIN f.waiters : f.waiters[k] = i
    BY <1>4 DEF Waits, G
  <2>6. \A k \in DOMAIN f.waiters : ~Waits(G, f.waiters[k])
    BY <1>3, <1>4 DEF Waits, WaitersIs, G
  <2>7. /\ said \in Seq(SaidOf(hashOf)) /\ AnswersIs(said, G, p.asked, handed)
        /\ \A i : Heard(said, i) <=> Heard(p.said, i) \/ i = id
    <3>1. id \notin handed /\ \A i \in handed : i \in p.handed
      BY DEF handed
    <3>2. \A i : Waits(G, i) => Waits(F, i)
      BY <2>5
    <3> QED BY <1>9, <3>1, <3>2
  <2>8. rs \in Seq(SaidOf(hashOf)) /\ DOMAIN rs = DOMAIN f.waiters
        /\ \A k \in DOMAIN f.waiters : rs[k].id = f.waiters[k] /\ rs[k].body = body
    <3>1. \A k \in DOMAIN f.waiters : rs[k].id = f.waiters[k] /\ rs[k].body = body
      BY DEF reply
    <3>2. \A k \in DOMAIN f.waiters : reply(f.waiters[k], body) \in SaidOf(hashOf)
      <4>1. body \in [kind : {"result", "error", "cancelled"}, source : Nat]
        BY <1>7 DEF SaidOf
      <4> QED BY <1>6, <4>1 DEF reply, SaidOf
    <3>3. DOMAIN f.waiters = 1..Len(f.waiters) /\ Len(f.waiters) \in Nat
      BY <1>6
    <3>4. rs \in Seq(SaidOf(hashOf))
      <4> DEFINE Said == SaidOf(hashOf)
      <4> HIDE DEF Said
      <4> QED BY <3>2, <3>3 DEF Said
    <3> QED BY <3>1, <3>4
  <2> HIDE DEF rs
  <2>9. MayBeSaid(hashOf, said, rs, G, G, p.asked, p.asked, handed, handed)
    <3>1. \A i, j \in DOMAIN rs : rs[i].id = rs[j].id => i = j
      BY <1>3, <1>4, <2>8 DEF WaitersIs
    <3>2. \A k \in DOMAIN rs : /\ p.asked[rs[k].id] = p.asked[id] /\ p.asked[id] # 0
                               /\ rs[k].id \notin p.handed /\ Waits(F, rs[k].id)
      BY <1>3, <1>4, <1>6, <2>8 DEF WaitersIs, Waits
    <3>3. \A k \in DOMAIN rs : ~Heard(said, rs[k].id)
      <4>1. \A i : i \in DOMAIN hashOf /\ Waits(F, i) => ~Heard(p.said, i)
        BY <1>3 DEF AnswersIs, Heard
      <4>2. \A k \in DOMAIN rs : rs[k].id \in DOMAIN hashOf /\ rs[k].id # id
        BY <1>6, <2>8, <3>2
      <4> QED BY <2>7, <3>2, <4>1, <4>2
    <3>4. \A k \in DOMAIN rs : rs[k].body.kind = "result" => rs[k].body.source = p.asked[rs[k].id]
      BY <1>7, <2>8, <3>2
    <3>5. \A k \in DOMAIN rs : ~Waits(G, rs[k].id) /\ rs[k].id \notin handed
      BY <2>6, <2>8, <3>2 DEF handed
    <3>6. \A i \in DOMAIN said : said[i].id \notin handed /\ ~Waits(G, said[i].id)
      BY <2>7 DEF AnswersIs
    <3> QED BY <2>7, <2>8, <3>1, <3>2, <3>3, <3>4, <3>5, <3>6 DEF MayBeSaid
  <2>10. /\ said \o rs \in Seq(SaidOf(hashOf)) /\ AnswersIs(said \o rs, G, p.asked, handed)
         /\ \A i : Heard(said \o rs, i) <=> Heard(said, i) \/ Heard(rs, i)
    BY <2>9, SaysMore
  <2>11. PartsAre(n, hashOf, s2, p.session, p.asked, handed, said \o rs)
    <3>1. {} \in SUBSET DOMAIN hashOf /\ q.handed \cup {} = handed
      BY <1>8
    <3>2. PartsAre(Took(q, Step(s2, rs, {})), hashOf, s2, q.session, q.asked, q.handed \cup {}, q.said \o rs)
      BY <1>8, <2>3, <2>10, <3>1, TookIs
    <3> QED BY <1>8, <1>10, <2>1, <3>1, <3>2
  <2>12. GoodParts(hashOf, s2, p.session, p.asked, handed, said \o rs)
    <3>1. \A k \in DOMAIN f.waiters : Heard(rs, f.waiters[k])
      BY <2>8 DEF Heard
    <3>2. \A i \in DOMAIN hashOf : /\ p.asked[i] <= p.session
                                   /\ p.asked[i] # 0 => i \in handed \/ Waits(G, i) \/ Heard(said \o rs, i)
      BY <1>2, <2>5, <2>7, <2>10, <3>1 DEF GoodParts, handed, F
    <3> DEFINE all == said \o rs
    <3> HIDE DEF all
    <3>3. LeadersIs(s2.flights, hashOf, p.asked, handed) /\ WaitersIs(s2.flights, hashOf, p.asked, handed)
      BY <2>3, <2>4
    <3>4. FlightsIs(s2.flights, p.session) /\ AnswersIs(all, s2.flights, p.asked, handed)
      BY <2>3, <2>4, <2>10 DEF all
    <3>5. \A i \in DOMAIN hashOf : /\ p.asked[i] <= p.session
                                   /\ p.asked[i] # 0 => i \in handed \/ Waits(s2.flights, i) \/ Heard(all, i)
      BY <2>3, <3>2 DEF all
    <3>6. GoodParts(hashOf, s2, p.session, p.asked, handed, all)
      BY <2>3, <3>3, <3>4, <3>5 DEF GoodParts
    <3> QED BY <3>6 DEF all
  <2> QED BY <1>1, <2>11, <2>12, OfGoodParts DEF n
<1> QED BY <1>12, <1>13

(* Another session leaves all as it is; and a page starts so.               *)
LEMMA SessionWInv ==
  ASSUME NEW hashOf, NEW p, WInv(p, hashOf)
  PROVE  WInv([p EXCEPT !.session = @ + 1], hashOf)
<1> DEFINE n == [p EXCEPT !.session = @ + 1]
<1>1. /\ p \in PageOf(hashOf) /\ p.session \in Nat \ {0} /\ p.asked \in [DOMAIN hashOf -> Nat]
      /\ p.s.flights \in SUBSET FlightOf(hashOf) /\ p.s.sessionOf \in Nat
  BY DEF WInv, PageOf, SourcesOf
<1>2. GoodParts(hashOf, p.s, p.session, p.asked, p.handed, p.said)
  BY <1>1 DEF WInv, GoodParts, Made, PageOf
<1>3. n \in PageOf(hashOf)
  <2> DEFINE m == p.session + 1
  <2>1. m \in Nat /\ n = [p EXCEPT !.session = m]
    BY <1>1
  <2> HIDE DEF m, n
  <2> QED BY <1>1, <2>1 DEF PageOf
<1>4. n.s = p.s /\ n.session = p.session + 1 /\ n.asked = p.asked /\ n.handed = p.handed /\ n.said = p.said
  BY <1>1 DEF PageOf
<1> HIDE DEF n
<1>5. PartsAre(n, hashOf, p.s, p.session + 1, p.asked, p.handed, p.said)
  BY <1>3, <1>4 DEF PartsAre
<1>6. GoodParts(hashOf, p.s, p.session + 1, p.asked, p.handed, p.said)
  <2>1. CacheIs(p.s, p.session + 1)
    BY <1>1, <1>2 DEF GoodParts, CacheIs
  <2>2. FlightsIs(p.s.flights, p.session + 1)
    <3>1. \A f \in p.s.flights : f.session \in Nat
      BY <1>1 DEF FlightOf
    <3>2. \A f \in p.s.flights : f.session \in 1..(p.session + 1) /\ (~f.listed => f.session < p.session + 1)
      BY <1>1, <1>2, <3>1 DEF GoodParts, FlightsIs
    <3> QED BY <1>2, <3>2 DEF GoodParts, FlightsIs
  <2>3. \A id \in DOMAIN hashOf : p.asked[id] <= p.session + 1
    BY <1>1, <1>2 DEF GoodParts
  <2> QED BY <1>2, <2>1, <2>2, <2>3 DEF GoodParts
<1>7. p.session + 1 # 0
  BY <1>1
<1> QED BY <1>5, <1>6, <1>7, OfGoodParts DEF n

(* Nothing asked, nothing answered.                                         *)
LEMMA StartsWInv == ASSUME NEW hashOf PROVE WInv(NoRequests(hashOf), hashOf)
<1> DEFINE n == NoRequests(hashOf)
           asked == [id \in DOMAIN hashOf |-> 0]
<1>1. PartsAre(n, hashOf, NoSources, 1, asked, {}, <<>>)
  <2>1. <<>> \in Seq(SaidOf(hashOf)) /\ NoSources \in SourcesOf(hashOf)
    BY DEF NoSources, SourcesOf
  <2>2. asked \in [DOMAIN hashOf -> Nat]
    OBVIOUS
  <2> HIDE DEF asked
  <2> QED BY <2>1, <2>2 DEF NoRequests, PartsAre, PageOf, asked
<1>2. GoodParts(hashOf, NoSources, 1, asked, {}, <<>>)
  BY DEF GoodParts, NoSources, CacheIs, LeadersIs, WaitersIs, FlightsIs, AnswersIs
<1> QED BY <1>1, <1>2, OfGoodParts

(* The widget sources, for any requests of any hashes, asked and cancelled  *)
(* at any time over any sessions, and however the relay answers: what is    *)
(* stated holds of a page that starts and after each step of one of which   *)
(* it holds.  Every request is answered at most once, and is handed to the  *)
(* relay or waits for one that is until then; a result is of the session it *)
(* was asked in; a session's relay has one request of a hash at a time; and *)
(* a waiter's cancellation reaches the worker only when a newer session's   *)
(* flight has replaced the one it waits in (interceptIn, onOut).            *)
THEOREM SourcesAreAnswered ==
  ASSUME NEW hashOf
  PROVE  /\ WInv(NoRequests(hashOf), hashOf)
         /\ \A p : WInv(p, hashOf) =>
              /\ \A n \in onPage(p, hashOf) : WInv(n, hashOf)
              /\ \A i, j \in DOMAIN p.said : p.said[i].id = p.said[j].id => i = j
              /\ \A id \in Made(p) :
                   \/ id \in p.handed \/ \E i \in DOMAIN p.said : p.said[i].id = id
                   \/ \E f \in p.s.flights : id \in ToSet(f.waiters) /\ f.leader \in p.handed
              /\ \A i \in DOMAIN p.said :
                   p.said[i].body.kind = "result" => p.said[i].body.source = p.asked[p.said[i].id]
              /\ \A i, j \in p.handed : i # j => p.asked[i] # p.asked[j] \/ hashOf[i] # hashOf[j]
              /\ \A f \in p.s.flights : \A id \in ToSet(f.waiters) :
                   interceptCancel(p.s, id).relayed # {} => ~f.listed /\ f.session < p.session
<1>1. WInv(NoRequests(hashOf), hashOf)
  BY StartsWInv
<1>2. ASSUME NEW p, WInv(p, hashOf), NEW n \in onPage(p, hashOf) PROVE WInv(n, hashOf)
  <2>1. CASE n = [p EXCEPT !.session = @ + 1]
    BY <1>2, <2>1, SessionWInv
  <2>2. CASE \E id \in DOMAIN p.asked \ Made(p) : n = asks(p, hashOf, id)
    BY <1>2, <2>2, AsksWInv
  <2>3. CASE \E id \in Made(p) : n = cancels(p, id)
    BY <1>2, <2>3, CancelsWInv
  <2>4. CASE \E id \in p.handed : \E body \in Reply(p, id) : n = answers(p, id, body)
    BY <1>2, <2>4, AnswersWInv
  <2>5. \/ n = [p EXCEPT !.session = @ + 1]
        \/ \E id \in DOMAIN p.asked \ Made(p) : n = asks(p, hashOf, id)
        \/ \E id \in Made(p) : n = cancels(p, id)
        \/ \E id \in p.handed : \E body \in Reply(p, id) : n = answers(p, id, body)
    BY DEF onPage, Reply
  <2> QED BY <2>1, <2>2, <2>3, <2>4, <2>5
<1>3. ASSUME NEW p, WInv(p, hashOf)
      PROVE  /\ \A i, j \in DOMAIN p.said : p.said[i].id = p.said[j].id => i = j
             /\ \A i \in DOMAIN p.said :
                  p.said[i].body.kind = "result" => p.said[i].body.source = p.asked[p.said[i].id]
             /\ \A i, j \in p.handed : i # j => p.asked[i] # p.asked[j] \/ hashOf[i] # hashOf[j]
  <2>1. AnswersIs(p.said, p.s.flights, p.asked, p.handed) /\ LeadersIs(p.s.flights, hashOf, p.asked, p.handed)
        /\ FlightsIs(p.s.flights, p.session)
    BY <1>3 DEF WInv
  <2>2. \A i, j \in p.handed : i # j => p.asked[i] # p.asked[j] \/ hashOf[i] # hashOf[j]
    BY <2>1 DEF LeadersIs, FlightsIs
  <2> QED BY <2>1, <2>2 DEF AnswersIs
<1>4. ASSUME NEW p, WInv(p, hashOf), NEW id \in Made(p)
      PROVE  \/ id \in p.handed \/ \E i \in DOMAIN p.said : p.said[i].id = id
             \/ \E f \in p.s.flights : id \in ToSet(f.waiters) /\ f.leader \in p.handed
  BY <1>4 DEF WInv, Waits, Heard, LeadersIs, ToSet
<1>5. ASSUME NEW p, WInv(p, hashOf), NEW f \in p.s.flights, NEW id \in ToSet(f.waiters),
             interceptCancel(p.s, id).relayed # {}
      PROVE  ~f.listed /\ f.session < p.session
  <2>1. waitedBy(p.s, id) = {}
    BY <1>5 DEF interceptCancel, Step
  <2>2. ~f.listed
    BY <2>1 DEF waitedBy
  <2> QED BY <1>5, <2>2 DEF WInv, FlightsIs
<1> QED BY <1>1, <1>2, <1>3, <1>4, <1>5
=============================================================================
